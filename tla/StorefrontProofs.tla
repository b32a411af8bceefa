--------------------------- MODULE StorefrontProofs ---------------------------
(***************************************************************************)
(* What holds of the shop's and the checkout's tab for any number of       *)
(* products, sessions and gestures.                                        *)
(*                                                                         *)
(* Carts are numbered by the writes of their lines, so the cart of a       *)
(* session only grows until it is paid for: a total is of the cart that is *)
(* charged, or of one before it, and then the cart was written since.      *)
(* While the shop's first read, its replies and its Add buttons keep       *)
(* apart, the cart the panel has, or will have once the reply's events are *)
(* handled, is the service's.                                              *)
(***************************************************************************)
EXTENDS Storefront, SequenceTheorems, TLAPS

\* A request that is not answered carries no cart, and no cart is of a write to come.
Numbered ==
    /\ \A s \in Sessions : cartOf[s] <= writes
    /\ shop.first.at # "served" => shop.first.cart = Nothing
    /\ till.asking.at # "served" => till.asking.cart = Nothing
    /\ \A p \in Products : adding[p].at # "served" => adding[p].cart = Nothing

\* A page that knows a session knows one that lives, unless something was lost.
Alive ==
    ~lost =>
      /\ stored # NoSession => stored \in live
      /\ \A t \in Tabs : visit[t].step \in {"checking", "ready"} => Sid(t) \in live

\* And it is the one session there is, unless the tabs started theirs at once.
Known ==
    ~lost /\ ~overlap =>
      /\ issued = IF stored = NoSession THEN 0 ELSE 1
      /\ stored \in {NoSession, 1}
      /\ \A t \in Tabs : /\ visit[t].step = "starting" => stored = NoSession
                         /\ visit[t].step \in {"checking", "ready"} => Sid(t) = stored
                         /\ stored = NoSession => visit[t].step \in {"closed", "starting"}
      /\ \A t, u \in Tabs : t # u /\ visit[t].step = "starting" => visit[u].step # "starting"
      /\ order # NoOrder => order.sid = stored
      /\ till.confirmed # "failed"
      /\ till.page = "confirmation" => order # NoOrder

\* A total is of a cart that was there, and that cart is only written again since.
Below(cart) == cart # Nothing => Sid("till") \in Sessions /\ cart \in 1..cartOf[Sid("till")]
Totalled ==
    IF order # NoOrder
      THEN till.total \in 1..order.cart /\ till.step = "payment"
      ELSE /\ ~Ready("till") => /\ till.total = Nothing
                                /\ till.asking = Idle
                                /\ till.step = "address"
           /\ till.step = "payment" <=> till.total # Nothing
           /\ till.widget = "open" => till.step = "payment"
           /\ Below(till.total)
           /\ Below(till.asking.cart)

\* The delivery is chosen with the total, and both are of the cart unless it was written since.
Fresh(cart) == delivery[Sid("till")] = "method" /\ (cart = cartOf[Sid("till")] \/ moved)
Delivered ==
    IF order # NoOrder
      THEN order.delivery = "method" /\ (order.cart = till.total \/ moved)
      ELSE /\ till.step = "payment" => Fresh(till.total)
           /\ till.step = "shipping" /\ till.asking.cart # Nothing => Fresh(till.asking.cart)

\* The cart the panel has, or will have once the reply's events are handled.
Coming == IF shop.feed = << >> THEN shop.panel ELSE shop.feed[Len(shop.feed)].cart
Level(cart) == cart = cartOf[Sid("shop")] \/ cartOf[Sid("shop")] = 0

NoAdds == \A p \in Products : adding[p] = Idle

\* The shop while its activities keep apart.
Apart ==
    /\ shop.replying => shop.first = Idle /\ NoAdds
    /\ shop.first # Idle => NoAdds /\ ~shop.staged
    /\ \A p, q \in Products : adding[p] # Idle /\ adding[q] # Idle => p = q
    /\ ~Ready("shop") => shop = NewShop /\ NoAdds

\* A summary in the feed is of the cart that comes before it.
InOrder ==
    /\ shop.feed # << >> => shop.replying
    /\ shop.staged => shop.summary = shop.panel
    /\ \A i \in 1..Len(shop.feed) :
         shop.feed[i].type = "checkout" =>
           shop.feed[i].cart = IF i = 1 THEN shop.panel ELSE shop.feed[i - 1].cart

\* The panel is level with the service, or the answer that is out brings it there.
Levelled ==
    Ready("shop") =>
      /\ (shop.first = Idle /\ \A p \in Products : adding[p].cart = Nothing) => Level(Coming)
      /\ shop.first.at = "served" => shop.first.cart # Nothing /\ Level(shop.first.cart)
      /\ \A p \in Products : adding[p].cart # Nothing => Level(adding[p].cart)

OneAtATime == ~lost /\ ~crossed => Apart /\ InOrder /\ Levelled

IInv ==
    /\ TypeOK
    /\ Numbered
    /\ Alive
    /\ Known
    /\ Totalled
    /\ Delivered
    /\ OneAtATime
    /\ DetailsAreOfTheirProduct

(***************************************************************************)
(* Types                                                                   *)
(***************************************************************************)

LEMMA FreshTyped ==
    /\ Nothing \in Carts /\ Idle \in Slots /\ Asked \in Slots
    /\ \A cart \in Carts : Served(cart) \in Slots
    /\ NewShop \in Shop
    /\ NewCarousel \in Carousel
    /\ NewTill \in Till
<1>1. Nothing \in Carts /\ Idle \in Slots /\ Asked \in Slots
    BY DEF Carts, Slots, Slot, Idle, Asked, Nothing
<1>2. \A cart \in Carts : Served(cart) \in Slots
    BY DEF Slots, Slot, Served
<1>3. << >> \in Seq(Moves)
    BY EmptySeq
<1>4. QED
    BY <1>1, <1>2, <1>3 DEF NewShop, NewCarousel, NewTill, SomeProduct, Shop, Carousel, Till

LEMMA CartForTyped ==
    ASSUME TypeOK, NEW sid \in SomeSession
    PROVE  CartFor(sid) \in Carts
BY DEF TypeOK, CartFor, Carts, SomeSession, Nothing

LEMMA SidTyped ==
    ASSUME TypeOK, NEW t \in Tabs
    PROVE  Sid(t) \in SomeSession
BY DEF TypeOK, Sid, Visit

LEMMA OutcomesTyped ==
    ASSUME NEW slot \in Slots, NEW got \in Outcomes(slot)
    PROVE  got \in Carts
BY DEF Slots, Outcomes, Carts

LEMMA InitTyped == Init => TypeOK
<1> SUFFICES ASSUME Init PROVE TypeOK
    OBVIOUS
<1>1. /\ cartOf \in [Sessions -> Nat] /\ delivery \in [Sessions -> Deliveries]
      /\ issued \in 0..MaxSessions /\ spent \in 0..MaxSpent
    BY StorefrontAssumption DEF Init, Deliveries
<1>2. adding \in [Products -> Slots]
    BY FreshTyped DEF Init
<1>3. /\ visit \in [Tabs -> Visit]
      /\ stored \in SomeSession
    BY DEF Init, SomeSession, Visit
<1>4. QED
    BY <1>1, <1>2, <1>3, FreshTyped DEF Init, TypeOK

LEMMA SpendTyped ==
    ASSUME TypeOK, Spend
    PROVE  spent' \in 0..MaxSpent
BY StorefrontAssumption DEF TypeOK, Spend

LEMMA WriteTyped ==
    ASSUME TypeOK, NEW sid \in Sessions, Write(sid)
    PROVE  /\ writes' = writes + 1 /\ writes' \in Nat
           /\ cartOf' \in [Sessions -> Nat]
           /\ cartOf' = [cartOf EXCEPT ![sid] = writes + 1]
           /\ moved' \in BOOLEAN
           /\ UNCHANGED <<live, issued, delivery>>
BY DEF TypeOK, Write

LEMMA MountTyped ==
    ASSUME TypeOK, NEW t \in Tabs, NEW from \in SomeSession, Mount(t, from)
    PROVE  /\ visit' \in [Tabs -> Visit]
           /\ overlap' \in BOOLEAN
<1>1. Mounted(from) \in Visit
    BY DEF Mounted, Visit
<1>2. QED
    BY <1>1 DEF Mount, TypeOK

LEMMA ArriveTyped ==
    ASSUME TypeOK, NEW t \in Tabs, NEW sid \in SomeSession, Arrive(t, sid)
    PROVE  /\ visit' \in [Tabs -> Visit]
           /\ shop' \in Shop
           /\ till' \in Till
           /\ UNCHANGED <<button, adding, carousel, reads, order, spent, overlap, crossed>>
<1>1. [step |-> "ready", sid |-> sid] \in Visit
    BY DEF Visit
<1>2. visit' \in [Tabs -> Visit]
    BY <1>1 DEF Arrive, TypeOK
<1>3. shop' \in Shop
    BY FreshTyped DEF Arrive, TypeOK, Shop
<1>4. till' \in Till
    BY FreshTyped DEF Arrive, TypeOK, Till
<1>5. QED
    BY <1>2, <1>3, <1>4 DEF Arrive

\* The pages: opening, finding a session, starting one.
LEMMA VisitTyped ==
    ASSUME TypeOK,
           \/ \E t \in Tabs : Open(t) \/ CheckSession(t) \/ StartSession(t)
           \/ \E s \in Sessions : Expire(s)
    PROVE  TypeOK'
<1>1. ASSUME NEW t \in Tabs, Open(t) PROVE TypeOK'
  <2>1. /\ visit' \in [Tabs -> Visit]
        /\ overlap' \in BOOLEAN
      BY <1>1, MountTyped DEF Open, TypeOK
  <2>2. spent' \in 0..MaxSpent /\ lost' \in BOOLEAN
      BY <1>1, SpendTyped DEF Open, TypeOK
  <2>3. UNCHANGED <<serviceVars, stored, crossed>>
      BY <1>1 DEF Open
  <2>4. CASE t = "shop"
    <3>1. ClearShop /\ UNCHANGED tillVars
        BY <1>1, <2>4 DEF Open
    <3>2. adding' \in [Products -> Slots]
        BY <3>1, FreshTyped DEF ClearShop
    <3>3. QED
        BY <2>1, <2>2, <2>3, <3>1, <3>2, FreshTyped DEF ClearShop, serviceVars, cartVars, tillVars, TypeOK
  <2>5. CASE t # "shop"
      BY <1>1, <2>1, <2>2, <2>3, <2>5, FreshTyped DEF Open, serviceVars, cartVars, shopVars, TypeOK
  <2>6. QED
      BY <2>4, <2>5
<1>2. ASSUME NEW t \in Tabs, CheckSession(t) PROVE TypeOK'
  <2>1. CASE Arrive(t, Sid(t)) /\ UNCHANGED lost
      BY <1>2, <2>1, SidTyped, ArriveTyped DEF CheckSession, serviceVars, cartVars, TypeOK
  <2>2. CASE /\ visit' = [visit EXCEPT ![t].step = "starting"]
             /\ lost' = TRUE
             /\ UNCHANGED <<shopVars, tillVars, spent, overlap, crossed>>
      BY <1>2, <2>2 DEF CheckSession, serviceVars, cartVars, shopVars, tillVars, TypeOK, Visit
  <2>3. QED
      BY <1>2, <2>1, <2>2 DEF CheckSession
<1>3. ASSUME NEW t \in Tabs, StartSession(t) PROVE TypeOK'
  <2>1. CASE /\ issued < MaxSessions
             /\ issued' = issued + 1
             /\ live' = live \cup {issued + 1}
             /\ stored' = issued + 1
             /\ Arrive(t, issued + 1)
             /\ UNCHANGED lost
    <3>1. issued + 1 \in Sessions /\ issued + 1 \in 0..MaxSessions
        BY <2>1, StorefrontAssumption DEF TypeOK, Sessions
    <3>2. issued + 1 \in SomeSession
        BY <3>1 DEF SomeSession
    <3>3. QED
        BY <1>3, <2>1, <3>1, <3>2, ArriveTyped DEF StartSession, TypeOK, cartVars
  <2>2. CASE Arrive(t, NoSession) /\ lost' = TRUE /\ UNCHANGED <<issued, live, stored>>
    <3>1. NoSession \in SomeSession
        BY DEF SomeSession
    <3>2. QED
        BY <1>3, <2>2, <3>1, ArriveTyped DEF StartSession, TypeOK, cartVars
  <2>3. QED
      BY <1>3, <2>1, <2>2 DEF StartSession
<1>4. ASSUME NEW s \in Sessions, Expire(s) PROVE TypeOK'
    BY <1>4 DEF Expire, shopVars, tillVars, TypeOK, cartVars
<1>5. QED
    BY <1>1, <1>2, <1>3, <1>4

\* The shop's panel, its replies and its Add buttons.
PanelStep ==
    \/ ServeFirstRead
    \/ FirstReadAnswered
    \/ \E from \in Askers : Ask(from)
    \/ AgentWrites
    \/ AgentStages
    \/ ShopEvent
    \/ ReplyEnds
    \/ \E p \in Products : Press(p) \/ ServeAdd(p) \/ AddAnswered(p) \/ ButtonTimer(p)
CarouselStep == (\E p \in Products : Toggle(p)) \/ Folded \/ DetailsAnswered
TillStep ==
    \/ ServeList
    \/ ListAnswered
    \/ Submit
    \/ ServeSubmit
    \/ SubmitAnswered
    \/ Pay
    \/ Redirect
    \/ ReadConfirmation
VisitStep ==
    \/ \E t \in Tabs : Open(t) \/ CheckSession(t) \/ StartSession(t)
    \/ \E s \in Sessions : Expire(s)

LEMMA StepIsOfATab == Next <=> VisitStep \/ PanelStep \/ CarouselStep \/ TillStep
BY DEF Next, VisitStep, PanelStep, CarouselStep, TillStep

LEMMA CartUpdateTyped ==
    ASSUME TypeOK, NEW s \in Shop, NEW cart \in Carts
    PROVE  /\ CartUpdate(s, cart) \in Shop
           /\ CartUpdate(s, cart).panel = cart
           /\ CartUpdate(s, cart).staged = FALSE
           /\ CartUpdate(s, cart).summary = s.summary
           /\ CartUpdate(s, cart).first = s.first
           /\ CartUpdate(s, cart).replying = s.replying
           /\ CartUpdate(s, cart).feed = s.feed
BY DEF CartUpdate, Shop

LEMMA PanelTyped ==
    ASSUME TypeOK, PanelStep
    PROVE  TypeOK'
<1> USE DEF ShopRest, tillVars, serviceVars, cartVars
<1>0. Sid("shop") \in SomeSession
    BY SidTyped DEF Tabs
<1>1. CASE ServeFirstRead
  <2>1. Served(CartFor(Sid("shop"))) \in Slots
      BY <1>0, CartForTyped, FreshTyped
  <2>2. shop' \in Shop
      BY <1>1, <2>1 DEF ServeFirstRead, TypeOK, Shop
  <2>3. QED
      BY <1>1, <2>2 DEF ServeFirstRead, TypeOK
<1>2. CASE FirstReadAnswered
  <2>1. shop \in Shop /\ shop.first \in Slots
      BY DEF TypeOK, Shop
  <2>2. PICK got \in Outcomes(shop.first) :
          /\ shop' = [shop EXCEPT !.first = Idle, !.panel = IF got = Nothing THEN @ ELSE got]
          /\ lost' = (lost \/ Missed(shop.first, got))
      BY <1>2 DEF FirstReadAnswered
  <2>3. got \in Carts
      BY <2>1, OutcomesTyped
  <2>4. shop' \in Shop
      BY <2>1, <2>2, <2>3, FreshTyped DEF Shop
  <2>5. QED
      BY <1>2, <2>2, <2>4 DEF FirstReadAnswered, TypeOK
<1>3. CASE \E from \in Askers : Ask(from)
  <2>1. shop' \in Shop /\ crossed' \in BOOLEAN
      BY <1>3 DEF Ask, TypeOK, Shop, AddsOut
  <2>2. spent' \in 0..MaxSpent
      BY <1>3, SpendTyped DEF Ask
  <2>3. QED
      BY <1>3, <2>1, <2>2 DEF Ask, TypeOK
<1>4. CASE AgentWrites
  <2>1. Sid("shop") \in Sessions
      BY <1>4 DEF AgentWrites, TypeOK
  <2>2. Write(Sid("shop"))
      BY <1>4 DEF AgentWrites
  <2>3. [type |-> "cart_update", cart |-> writes + 1] \in Moves
      BY DEF Moves, TypeOK
  <2>4. Append(shop.feed, [type |-> "cart_update", cart |-> writes + 1]) \in Seq(Moves)
      BY <2>3, AppendProperties DEF TypeOK, Shop
  <2>5. shop' \in Shop
      BY <1>4, <2>4 DEF AgentWrites, TypeOK, Shop
  <2>6. spent' \in 0..MaxSpent
      BY <1>4, SpendTyped DEF AgentWrites
  <2>7. QED
      BY <1>4, <2>1, <2>2, <2>5, <2>6, WriteTyped DEF AgentWrites, TypeOK
<1>5. CASE AgentStages
  <2>1. [type |-> "checkout", cart |-> CartFor(Sid("shop"))] \in Moves
      BY <1>0, <1>5, CartForTyped DEF AgentStages, Moves, Carts, Nothing
  <2>2. Append(shop.feed, [type |-> "checkout", cart |-> CartFor(Sid("shop"))]) \in Seq(Moves)
      BY <2>1, AppendProperties DEF TypeOK, Shop
  <2>3. shop' \in Shop
      BY <1>5, <2>2 DEF AgentStages, TypeOK, Shop
  <2>4. spent' \in 0..MaxSpent
      BY <1>5, SpendTyped DEF AgentStages
  <2>5. QED
      BY <1>5, <2>3, <2>4 DEF AgentStages, TypeOK
<1>6. CASE ShopEvent
  <2> DEFINE rest == [shop EXCEPT !.feed = Tail(@)]
             event == Head(shop.feed)
  <2>1. event \in Moves /\ Tail(shop.feed) \in Seq(Moves)
      BY <1>6, HeadTailProperties DEF ShopEvent, Staged, TypeOK, Shop
  <2>2. event.cart \in Carts
      BY <2>1 DEF Moves, Carts
  <2>3. rest \in Shop
      BY <2>1 DEF TypeOK, Shop
  <2>4. shop' = IF event.type = "cart_update"
                  THEN CartUpdate(rest, event.cart)
                  ELSE [rest EXCEPT !.staged = TRUE, !.summary = event.cart]
      BY <1>6 DEF ShopEvent, Staged
  <2> HIDE DEF rest, event
  <2>5. shop' \in Shop
    <3>1. [rest EXCEPT !.staged = TRUE, !.summary = event.cart] \in Shop
        BY <2>2, <2>3 DEF Shop
    <3>2. QED
        BY <2>2, <2>3, <2>4, <3>1, CartUpdateTyped
  <2>6. QED
      BY <1>6, <2>5 DEF ShopEvent, Staged, TypeOK
<1>7. CASE ReplyEnds
  <2>1. shop' \in Shop /\ lost' \in BOOLEAN
      BY <1>7, EmptySeq DEF ReplyEnds, TypeOK, Shop
  <2>2. QED
      BY <1>7, <2>1 DEF ReplyEnds, TypeOK
<1>8. ASSUME NEW p \in Products, Press(p) PROVE TypeOK'
    BY <1>8, SpendTyped, FreshTyped DEF Press, TypeOK
<1>9. ASSUME NEW p \in Products, ServeAdd(p) PROVE TypeOK'
  <2>1. CASE /\ Sid("shop") \in live
             /\ Write(Sid("shop"))
             /\ adding' = [adding EXCEPT ![p] = Served(writes + 1)]
    <3>1. Sid("shop") \in Sessions
        BY <2>1 DEF TypeOK
    <3>2. Served(writes + 1) \in Slots
        BY FreshTyped DEF TypeOK, Carts
    <3>3. QED
        BY <1>9, <2>1, <3>1, <3>2, WriteTyped DEF ServeAdd, TypeOK
  <2>2. CASE adding' = [adding EXCEPT ![p] = Served(Nothing)] /\ UNCHANGED serviceVars
      BY <1>9, <2>2, FreshTyped DEF ServeAdd, TypeOK
  <2>3. QED
      BY <1>9, <2>1, <2>2 DEF ServeAdd
<1>10. ASSUME NEW p \in Products, AddAnswered(p) PROVE TypeOK'
  <2>1. adding[p] \in Slots /\ adding' \in [Products -> Slots]
      BY <1>10, FreshTyped DEF AddAnswered, TypeOK
  <2>2. PICK got \in Outcomes(adding[p]) :
          /\ button' = [button EXCEPT ![p] = IF got = Nothing THEN "error" ELSE "done"]
          /\ shop' = IF got = Nothing THEN shop ELSE CartUpdate(shop, got)
          /\ lost' = (lost \/ Missed(adding[p], got))
      BY <1>10 DEF AddAnswered
  <2>3. shop' \in Shop
      BY <2>1, <2>2, OutcomesTyped, CartUpdateTyped DEF TypeOK
  <2>4. QED
      BY <1>10, <2>1, <2>2, <2>3 DEF AddAnswered, TypeOK
<1>11. ASSUME NEW p \in Products, ButtonTimer(p) PROVE TypeOK'
    BY <1>11 DEF ButtonTimer, TypeOK
<1>12. QED
    BY <1>1, <1>2, <1>3, <1>4, <1>5, <1>6, <1>7, <1>8, <1>9, <1>10, <1>11 DEF PanelStep

LEMMA ForsakenTyped ==
    ASSUME TypeOK
    PROVE  /\ Forsaken \subseteq Products \X BOOLEAN
           /\ \A read \in Forsaken : read[2] = FALSE
<1>1. \A read \in reads : <<read[1], FALSE>> \in Products \X BOOLEAN
    BY DEF TypeOK
<1>2. QED
    BY <1>1 DEF Forsaken

LEMMA CarouselTyped ==
    ASSUME TypeOK, CarouselStep
    PROVE  TypeOK'
<1> USE DEF CarouselRest, serviceVars, cartVars, tillVars, historyVars
<1>1. ASSUME NEW p \in Products, Toggle(p) PROVE TypeOK'
  <2>1. spent' \in 0..MaxSpent
      BY <1>1, SpendTyped DEF Toggle
  <2>2. carousel' \in Carousel
    <3>1. p \in SomeProduct /\ NoProduct \in SomeProduct /\ carousel \in Carousel
        BY DEF SomeProduct, TypeOK
    <3>2. CASE carousel' = [carousel EXCEPT !.expanded = NoProduct]
        BY <3>1, <3>2 DEF Carousel
    <3>3. CASE carousel' = [carousel EXCEPT !.expanded = p]
        BY <3>1, <3>3 DEF Carousel
    <3>4. CASE carousel' = [expanded |-> p, rendered |-> p, details |-> NoProduct]
        BY <3>1, <3>4 DEF Carousel
    <3>5. QED
        BY <1>1, <3>2, <3>3, <3>4 DEF Toggle, Render
  <2>3. <<p, TRUE>> \in Products \X BOOLEAN
      OBVIOUS
  <2>4. reads' \subseteq Products \X BOOLEAN
      BY <1>1, <2>3, ForsakenTyped DEF Toggle, Render, TypeOK
  <2>5. QED
      BY <1>1, <2>1, <2>2, <2>4 DEF Toggle, TypeOK
<1>2. CASE Folded
  <2>1. carousel' \in Carousel
      BY <1>2 DEF Folded, TypeOK, Carousel, SomeProduct
  <2>2. reads' \subseteq Products \X BOOLEAN
      BY <1>2, ForsakenTyped DEF Folded
  <2>3. QED
      BY <1>2, <2>1, <2>2 DEF Folded, TypeOK
<1>3. CASE DetailsAnswered
  <2>1. PICK read \in reads : \E got \in {read[1], NoProduct} :
          /\ reads' = reads \ {read}
          /\ carousel' = [carousel EXCEPT !.details = IF read[2] THEN got ELSE @]
      BY <1>3 DEF DetailsAnswered
  <2>2. read[1] \in SomeProduct /\ NoProduct \in SomeProduct
      BY DEF TypeOK, SomeProduct
  <2>3. carousel' \in Carousel
      BY <2>1, <2>2 DEF TypeOK, Carousel
  <2>4. QED
      BY <1>3, <2>1, <2>3 DEF DetailsAnswered, TypeOK
<1>4. QED
    BY <1>1, <1>2, <1>3 DEF CarouselStep

LEMMA TillTyped ==
    ASSUME TypeOK, Totalled, TillStep
    PROVE  TypeOK'
<1> USE DEF TillRest, serviceVars, cartVars, shopVars
<1>0. Sid("till") \in SomeSession
    BY SidTyped DEF Tabs
<1>1. CASE ServeList
  <2>1. Served(CartFor(Sid("till"))) \in Slots
      BY <1>0, CartForTyped, FreshTyped
  <2>2. till' \in Till
      BY <1>1, <2>1 DEF ServeList, TypeOK, Till
  <2>3. QED
      BY <1>1, <2>2 DEF ServeList, TypeOK
<1>2. CASE ListAnswered
  <2>1. till.list \in Slots
      BY DEF TypeOK, Till
  <2>2. till' \in Till /\ lost' \in BOOLEAN
      BY <1>2, <2>1, OutcomesTyped, FreshTyped DEF ListAnswered, TypeOK, Till
  <2>3. QED
      BY <1>2, <2>2 DEF ListAnswered, TypeOK
<1>3. CASE Submit
  <2>1. till' \in Till
      BY <1>3, FreshTyped DEF Submit, TypeOK, Till
  <2>2. QED
      BY <1>3, <2>1 DEF Submit, TypeOK
<1>4. CASE ServeSubmit
  <2>1. Served(CartFor(Sid("till"))) \in Slots /\ Served(Nothing) \in Slots
      BY <1>0, CartForTyped, FreshTyped
  <2>2. till' \in Till
      BY <1>4, <2>1 DEF ServeSubmit, TypeOK, Till
  <2>3. delivery' \in [Sessions -> Deliveries] /\ moved' \in BOOLEAN
    <3>1. Sid("till") \in Sessions => Settled(till.step) \in Deliveries
        BY DEF Settled, Deliveries, TypeOK
    <3>2. QED
        BY <1>4, <3>1 DEF ServeSubmit, TypeOK
  <2>4. QED
      BY <1>4, <2>2, <2>3 DEF ServeSubmit, TypeOK
<1>5. CASE SubmitAnswered
  <2>1. till.asking \in Slots
      BY DEF TypeOK, Till
  <2>2. PICK got \in Outcomes(till.asking) :
          /\ AddressAnswered(got) \/ ShippingAnswered(got) \/ PaymentStarted(got)
          /\ lost' = (lost \/ Missed(till.asking, got))
      BY <1>5 DEF SubmitAnswered
  <2>3. got \in Carts
      BY <2>1, OutcomesTyped
  <2>4. till' \in Till
    <3>1. CASE AddressAnswered(got)
        BY <3>1, FreshTyped DEF AddressAnswered, TypeOK, Till
    <3>2. CASE ShippingAnswered(got)
        BY <2>3, <3>2, FreshTyped DEF ShippingAnswered, TypeOK, Till
    <3>3. CASE PaymentStarted(got)
        BY <3>3, FreshTyped DEF PaymentStarted, TypeOK, Till
    <3>4. QED
        BY <2>2, <3>1, <3>2, <3>3
  <2>5. QED
      BY <1>5, <2>2, <2>4 DEF SubmitAnswered, TypeOK
<1>6. CASE Pay
  <2>1. Sid("till") \in Sessions
      BY <1>6 DEF Totalled, Below, Pay, OnPage
  <2>2. cartOf[Sid("till")] \in Nat
      BY <2>1 DEF TypeOK
  <2>3. /\ [sid |-> Sid("till"), cart |-> cartOf[Sid("till")], delivery |-> delivery[Sid("till")]]
             \in [sid : Sessions, cart : Nat, delivery : Deliveries]
        /\ [cartOf EXCEPT ![Sid("till")] = 0] \in [Sessions -> Nat]
        /\ [delivery EXCEPT ![Sid("till")] = "none"] \in [Sessions -> Deliveries]
      BY <2>1, <2>2 DEF TypeOK, Deliveries
  <2>4. QED
      BY <1>6, <2>3 DEF Pay, TypeOK
<1>7. CASE Redirect
  <2>1. Mount("till", stored) /\ stored \in SomeSession
      BY <1>7 DEF Redirect, TypeOK
  <2>2. QED
    <3>1. till' \in Till
        BY <1>7, FreshTyped DEF Redirect, TypeOK, Till
    <3>2. visit' \in [Tabs -> Visit] /\ overlap' \in BOOLEAN
        BY <2>1, MountTyped DEF Tabs
    <3>3. QED
        BY <1>7, <3>1, <3>2 DEF Redirect, TypeOK
<1>8. CASE ReadConfirmation
  <2>1. till' \in Till /\ lost' \in BOOLEAN
      BY <1>8 DEF ReadConfirmation, TypeOK, Till
  <2>2. QED
      BY <1>8, <2>1 DEF ReadConfirmation, TypeOK
<1>9. QED
    BY <1>1, <1>2, <1>3, <1>4, <1>5, <1>6, <1>7, <1>8 DEF TillStep

LEMMA StepTyped ==
    ASSUME TypeOK, Totalled, [Next]_vars
    PROVE  TypeOK'
<1>1. CASE Next
    BY <1>1, StepIsOfATab, VisitTyped, PanelTyped, CarouselTyped, TillTyped DEF VisitStep
<1>2. CASE UNCHANGED vars
    BY <1>2 DEF vars, serviceVars, cartVars, shopVars, tillVars, historyVars, TypeOK
<1>3. QED
    BY <1>1, <1>2

(***************************************************************************)
(* The carousel's details                                                  *)
(***************************************************************************)

LEMMA DetailsKept ==
    ASSUME TypeOK, DetailsAreOfTheirProduct, [Next]_vars
    PROVE  DetailsAreOfTheirProduct'
<1>1. CASE UNCHANGED <<carousel, reads>>
    BY <1>1 DEF DetailsAreOfTheirProduct
<1>2. CASE ClearShop
    BY <1>2 DEF ClearShop, NewCarousel, DetailsAreOfTheirProduct
<1>3. ASSUME NEW p \in Products, Toggle(p) PROVE DetailsAreOfTheirProduct'
  <2>0. p # NoProduct /\ carousel \in Carousel
      BY StorefrontAssumption DEF TypeOK
  <2>1. CASE carousel' = [carousel EXCEPT !.expanded = NoProduct] /\ UNCHANGED reads
      BY <2>0, <2>1 DEF DetailsAreOfTheirProduct, Carousel
  <2>2. CASE p = carousel.rendered /\ carousel' = [carousel EXCEPT !.expanded = p] /\ UNCHANGED reads
      BY <2>0, <2>2 DEF DetailsAreOfTheirProduct, Carousel
  <2>3. CASE /\ carousel' = [expanded |-> p, rendered |-> p, details |-> NoProduct]
             /\ reads' = Forsaken \cup {<<p, TRUE>>}
    <3>1. \A read \in reads' : read[2] => read[1] = p
      <4>1. \A read \in Forsaken : read[2] = FALSE
          BY ForsakenTyped
      <4>2. <<p, TRUE>>[1] = p
          OBVIOUS
      <4>3. \A read \in reads' : read \in Forsaken \/ read = <<p, TRUE>>
          BY <2>3
      <4>4. QED
          BY <4>1, <4>2, <4>3
    <3>2. QED
        BY <2>3, <3>1 DEF DetailsAreOfTheirProduct
  <2>4. QED
      BY <1>3, <2>1, <2>2, <2>3 DEF Toggle, Render
<1>4. CASE Folded
  <2>1. \A read \in reads' : ~read[2]
      BY <1>4, ForsakenTyped DEF Folded
  <2>2. carousel'.details = NoProduct /\ carousel'.expanded = NoProduct
      BY <1>4 DEF Folded, TypeOK, Carousel
  <2>3. QED
      BY <2>1, <2>2 DEF DetailsAreOfTheirProduct
<1>5. CASE DetailsAnswered
  <2>1. PICK read \in reads : \E got \in {read[1], NoProduct} :
          /\ reads' = reads \ {read}
          /\ carousel' = [carousel EXCEPT !.details = IF read[2] THEN got ELSE @]
      BY <1>5 DEF DetailsAnswered
  <2>2. carousel'.rendered = carousel.rendered /\ carousel'.expanded = carousel.expanded
      BY <2>1 DEF TypeOK, Carousel
  <2>3. carousel'.details \in {carousel.rendered, NoProduct}
      BY <2>1 DEF TypeOK, Carousel, DetailsAreOfTheirProduct
  <2>4. QED
      BY <2>1, <2>2, <2>3 DEF DetailsAreOfTheirProduct
<1>6. UNCHANGED <<carousel, reads>> \/ ClearShop \/ CarouselStep
  <2>1. CASE VisitStep
      BY <2>1 DEF VisitStep, Open, CheckSession, StartSession, Expire, Arrive, shopVars
  <2>2. CASE PanelStep
      BY <2>2 DEF PanelStep, ServeFirstRead, FirstReadAnswered, Ask, AgentWrites, AgentStages, ShopEvent,
                  ReplyEnds, Press, ServeAdd, AddAnswered, ButtonTimer, ShopRest
  <2>3. CASE TillStep
      BY <2>3 DEF TillStep, ServeList, ListAnswered, Submit, ServeSubmit, SubmitAnswered, Pay, Redirect,
                  ReadConfirmation, TillRest, shopVars
  <2>4. CASE UNCHANGED vars
      BY <2>4 DEF vars, shopVars
  <2>5. QED
      BY <2>1, <2>2, <2>3, <2>4, StepIsOfATab
<1>7. QED
    BY <1>1, <1>2, <1>3, <1>4, <1>5, <1>6 DEF CarouselStep

(***************************************************************************)
(* The session and the order                                               *)
(***************************************************************************)

\* What the steps of the shop and of the checkout leave alone.
LEMMA ShopStepFrame ==
    ASSUME PanelStep \/ CarouselStep
    PROVE  UNCHANGED <<live, issued, stored, visit, till, order, overlap>>
BY DEF PanelStep, ServeFirstRead, FirstReadAnswered, Ask, AgentWrites, AgentStages, ShopEvent,
       ReplyEnds, Press, ServeAdd, AddAnswered, ButtonTimer, ShopRest, CarouselStep, Toggle, Folded,
       DetailsAnswered, CarouselRest, Write, serviceVars, cartVars, tillVars, historyVars

LEMMA TillStepFrame ==
    ASSUME TillStep
    PROVE  /\ UNCHANGED <<live, issued, writes, stored, shop, adding, crossed>>
           /\ UNCHANGED <<visit, overlap>> \/ Redirect
BY DEF TillStep, ServeList, ListAnswered, Submit, ServeSubmit, SubmitAnswered, Pay, Redirect,
       ReadConfirmation, TillRest, shopVars, serviceVars, cartVars

\* What was lost stays lost.
LEMMA HistoryGrows ==
    ASSUME TypeOK, Next
    PROVE  (lost => lost') /\ (overlap => overlap') /\ (crossed => crossed')
<1>1. ASSUME NEW t \in Tabs, Open(t) PROVE (lost => lost') /\ (overlap => overlap') /\ (crossed => crossed')
  <2>1. overlap' = (overlap \/ \E u \in Tabs \ {t} : stored = NoSession /\ visit[u].step = "starting")
      BY <1>1 DEF Open, Mount
  <2>2. lost' = (lost \/ (t = "shop" /\ AddsOut)) /\ UNCHANGED crossed
      BY <1>1 DEF Open
  <2>3. QED
      BY <2>1, <2>2, Zenon
<1>2. ASSUME NEW t \in Tabs, CheckSession(t) \/ StartSession(t)
      PROVE  (lost => lost') /\ (overlap => overlap') /\ (crossed => crossed')
    BY <1>2 DEF CheckSession, StartSession, Arrive
<1>3. ASSUME NEW s \in Sessions, Expire(s)
      PROVE  (lost => lost') /\ (overlap => overlap') /\ (crossed => crossed')
    BY <1>3 DEF Expire
<1>4. CASE FirstReadAnswered \/ \E p \in Products : AddAnswered(p)
  <2>1. UNCHANGED <<overlap, crossed>>
      BY <1>4 DEF FirstReadAnswered, AddAnswered, ShopRest
  <2>2. CASE FirstReadAnswered
    <3>1. PICK got \in Outcomes(shop.first) : lost' = (lost \/ Missed(shop.first, got))
        BY <2>2 DEF FirstReadAnswered
    <3>2. QED
        BY <2>1, <3>1, Zenon
  <2>3. ASSUME NEW p \in Products, AddAnswered(p) PROVE lost => lost'
    <3>1. PICK got \in Outcomes(adding[p]) : lost' = (lost \/ Missed(adding[p], got))
        BY <2>3 DEF AddAnswered
    <3>2. QED
        BY <3>1, Zenon
  <2>4. QED
      BY <1>4, <2>1, <2>2, <2>3
<1>5. CASE ServeFirstRead \/ AgentWrites \/ AgentStages \/ ShopEvent
    BY <1>5 DEF ServeFirstRead, AgentWrites, AgentStages, ShopEvent, ShopRest
<1>6. CASE ReplyEnds \/ \E from \in Askers : Ask(from)
  <2>1. UNCHANGED overlap
      BY <1>6 DEF ReplyEnds, Ask, ShopRest
  <2>2. CASE ReplyEnds
    <3>1. lost' = (lost \/ shop.feed # << >>) /\ UNCHANGED crossed
        BY <2>2 DEF ReplyEnds
    <3>2. QED
        BY <2>1, <3>1, Zenon
  <2>3. ASSUME NEW from \in Askers, Ask(from) PROVE (lost => lost') /\ (crossed => crossed')
    <3>1. crossed' = (crossed \/ AddsOut \/ shop.first.at # "idle") /\ UNCHANGED lost
        BY <2>3 DEF Ask
    <3>2. QED
        BY <3>1, Zenon
  <2>4. QED
      BY <1>6, <2>1, <2>2, <2>3
<1>7. CASE \E p \in Products : Press(p) \/ ServeAdd(p) \/ ButtonTimer(p)
  <2>1. UNCHANGED <<lost, overlap>>
      BY <1>7 DEF Press, ServeAdd, ButtonTimer, ShopRest
  <2>2. ASSUME NEW p \in Products, Press(p) PROVE crossed => crossed'
    <3>1. crossed' = (crossed \/ shop.replying \/ AddsOut \/ shop.first.at # "idle")
        BY <2>2 DEF Press
    <3>2. QED
        BY <3>1, Zenon
  <2>3. ASSUME NEW p \in Products, ServeAdd(p) \/ ButtonTimer(p) PROVE UNCHANGED crossed
      BY <2>3 DEF ServeAdd, ButtonTimer
  <2>4. QED
      BY <1>7, <2>1, <2>2, <2>3
<1>8. CASE CarouselStep
    BY <1>8 DEF CarouselStep, Toggle, Folded, DetailsAnswered, CarouselRest, historyVars
<1>9. CASE TillStep
  <2>1. CASE ListAnswered
    <3>1. PICK got \in Outcomes(till.list) : lost' = (lost \/ Missed(till.list, got))
        BY <2>1 DEF ListAnswered
    <3>2. UNCHANGED <<overlap, crossed>>
        BY <2>1 DEF ListAnswered, TillRest
    <3>3. QED
        BY <3>1, <3>2, Zenon
  <2>2. CASE SubmitAnswered
    <3>1. PICK got \in Outcomes(till.asking) : lost' = (lost \/ Missed(till.asking, got))
        BY <2>2 DEF SubmitAnswered
    <3>2. UNCHANGED <<overlap, crossed>>
        BY <2>2 DEF SubmitAnswered, TillRest
    <3>3. QED
        BY <3>1, <3>2, Zenon
  <2>3. CASE Redirect
    <3>1. overlap' = (overlap \/ \E u \in Tabs \ {"till"} : stored = NoSession /\ visit[u].step = "starting")
        BY <2>3 DEF Redirect, Mount
    <3>2. UNCHANGED <<lost, crossed>>
        BY <2>3 DEF Redirect
    <3>3. QED
        BY <3>1, <3>2, Zenon
  <2>4. CASE ServeList \/ Submit \/ ServeSubmit \/ Pay \/ ReadConfirmation
      BY <2>4 DEF ServeList, Submit, ServeSubmit, Pay, ReadConfirmation, TillRest
  <2>5. QED
      BY <1>9, <2>1, <2>2, <2>3, <2>4 DEF TillStep
<1>10. QED
    BY <1>1, <1>2, <1>3, <1>4, <1>5, <1>6, <1>7, <1>8, <1>9, StepIsOfATab DEF VisitStep, PanelStep

\* The checkout's own steps but the last two change neither its page nor what it confirmed.
LEMMA TillPageFrame ==
    ASSUME TypeOK, ServeList \/ ListAnswered \/ Submit \/ ServeSubmit \/ SubmitAnswered \/ Pay
    PROVE  till'.page = till.page /\ till'.confirmed = till.confirmed
<1>1. till \in Till
    BY DEF TypeOK
<1>2. CASE ServeList \/ ListAnswered \/ Submit \/ ServeSubmit
    BY <1>1, <1>2 DEF ServeList, ListAnswered, Submit, ServeSubmit, Till
<1>3. CASE SubmitAnswered
    BY <1>1, <1>3 DEF SubmitAnswered, AddressAnswered, ShippingAnswered, PaymentStarted, Till
<1>4. CASE Pay
    BY <1>4 DEF Pay
<1>5. QED
    BY <1>2, <1>3, <1>4

LEMMA AliveKept ==
    ASSUME TypeOK, Alive, [Next]_vars
    PROVE  Alive'
<1> SUFFICES ASSUME ~lost'
             PROVE  /\ stored' # NoSession => stored' \in live'
                    /\ \A t \in Tabs : visit'[t].step \in {"checking", "ready"} => visit'[t].sid \in live'
    BY DEF Alive, Sid
<1>1. /\ stored # NoSession => stored \in live
      /\ \A t \in Tabs : visit[t].step \in {"checking", "ready"} => visit[t].sid \in live
    BY HistoryGrows DEF Alive, Sid, vars, historyVars
<1>2. CASE UNCHANGED <<live, stored, visit>>
    BY <1>1, <1>2
<1>3. ASSUME NEW t \in Tabs, Mount(t, stored), UNCHANGED <<live, stored>>
      PROVE  \A u \in Tabs : visit'[u].step \in {"checking", "ready"} => visit'[u].sid \in live'
    BY <1>1, <1>3 DEF Mount, Mounted, TypeOK
<1>4. ASSUME NEW t \in Tabs, NEW sid \in live', Arrive(t, sid), live \subseteq live'
      PROVE  \A u \in Tabs : visit'[u].step \in {"checking", "ready"} => visit'[u].sid \in live'
    BY <1>1, <1>4 DEF Arrive, TypeOK
<1>5. ASSUME NEW t \in Tabs, Open(t)
      PROVE  Mount(t, stored) /\ UNCHANGED <<live, stored>>
    BY <1>5 DEF Open, serviceVars, cartVars
<1>6. ASSUME NEW t \in Tabs, CheckSession(t)
      PROVE  Sid(t) \in live /\ Arrive(t, Sid(t)) /\ UNCHANGED <<live, stored>>
    BY <1>6 DEF CheckSession, serviceVars, cartVars
<1>7. ASSUME NEW t \in Tabs, StartSession(t)
      PROVE  /\ live' = live \cup {issued + 1}
             /\ stored' = issued + 1
             /\ Arrive(t, issued + 1)
    BY <1>7 DEF StartSession
<1>8. ASSUME NEW s \in Sessions, Expire(s) PROVE FALSE
    BY <1>8 DEF Expire
<1>9. CASE VisitStep
    BY <1>1, <1>3, <1>4, <1>5, <1>6, <1>7, <1>8, <1>9 DEF VisitStep
<1>10. CASE TillStep
  <2>1. UNCHANGED <<live, stored>> /\ (UNCHANGED visit \/ Mount("till", stored))
      BY <1>10, TillStepFrame DEF Redirect
  <2>2. QED
      BY <1>1, <1>3, <2>1 DEF Tabs
<1>11. CASE UNCHANGED vars
    BY <1>1, <1>11 DEF vars, serviceVars, cartVars
<1>12. QED
    BY <1>2, <1>9, <1>10, <1>11, ShopStepFrame, StepIsOfATab

LEMMA KnownKept ==
    ASSUME TypeOK, Alive, Known, [Next]_vars
    PROVE  Known'
<1> SUFFICES ASSUME ~lost', ~overlap'
             PROVE  Known'
    BY DEF Known
<1>1. /\ ~lost /\ ~overlap
      /\ issued = IF stored = NoSession THEN 0 ELSE 1
      /\ stored \in {NoSession, 1}
      /\ \A t \in Tabs : /\ visit[t].step = "starting" => stored = NoSession
                         /\ visit[t].step \in {"checking", "ready"} => visit[t].sid = stored
                         /\ stored = NoSession => visit[t].step \in {"closed", "starting"}
      /\ \A t, u \in Tabs : t # u /\ visit[t].step = "starting" => visit[u].step # "starting"
      /\ order # NoOrder => order.sid = stored
      /\ till.confirmed # "failed"
      /\ till.page = "confirmation" => order # NoOrder
  <2>1. ~lost /\ ~overlap
      BY HistoryGrows DEF vars, historyVars
  <2>2. QED
      BY <2>1 DEF Known, Sid
<1> DEFINE Visits == 
             /\ \A t \in Tabs : /\ visit[t].step = "starting" => stored = NoSession
                                /\ visit[t].step \in {"checking", "ready"} => visit[t].sid = stored
                                /\ stored = NoSession => visit[t].step \in {"closed", "starting"}
             /\ \A t, u \in Tabs : t # u /\ visit[t].step = "starting" => visit[u].step # "starting"
           Numbers == /\ issued = IF stored = NoSession THEN 0 ELSE 1
                      /\ stored \in {NoSession, 1}
           Orders == /\ order # NoOrder => order.sid = stored
                     /\ till.confirmed # "failed"
                     /\ till.page = "confirmation" => order # NoOrder
<1>2. SUFFICES Visits' /\ Numbers' /\ Orders'
    BY <1>2 DEF Known, Sid
<1>3. ASSUME NEW t \in Tabs, Mount(t, stored), UNCHANGED stored
      PROVE  Visits'
  <2>1. stored = NoSession => \A u \in Tabs \ {t} : visit[u].step # "starting"
      BY <1>3 DEF Mount
  <2>2. visit' = [visit EXCEPT ![t] = Mounted(stored)]
      BY <1>3 DEF Mount
  <2>3. QED
      BY <1>1, <1>3, <2>1, <2>2 DEF Mounted, TypeOK
<1>4. ASSUME NEW t \in Tabs, Open(t) PROVE Visits' /\ Numbers' /\ Orders'
  <2>1. Mount(t, stored) /\ UNCHANGED <<issued, stored>>
      BY <1>4 DEF Open, serviceVars, cartVars
  <2>2. UNCHANGED <<till, order>> \/ (till' = NewTill /\ order' = NoOrder)
      BY <1>4 DEF Open, tillVars
  <2>3. Orders'
      BY <1>1, <2>1, <2>2 DEF NewTill
  <2>4. QED
      BY <1>1, <1>3, <2>1, <2>3
<1>5. ASSUME NEW t \in Tabs, NEW sid \in SomeSession, Arrive(t, sid)
      PROVE  /\ visit' = [visit EXCEPT ![t] = [step |-> "ready", sid |-> sid]]
             /\ till'.confirmed = till.confirmed /\ till'.page = till.page
             /\ order' = order
    BY <1>5 DEF Arrive, TypeOK, Till
<1>6. ASSUME NEW t \in Tabs, CheckSession(t) PROVE Visits' /\ Numbers' /\ Orders'
  <2>1. visit[t].step = "checking" /\ Arrive(t, Sid(t)) /\ UNCHANGED <<issued, stored>>
      BY <1>6 DEF CheckSession, serviceVars, cartVars
  <2>2. /\ visit' = [visit EXCEPT ![t] = [step |-> "ready", sid |-> visit[t].sid]]
        /\ till'.confirmed = till.confirmed /\ till'.page = till.page
        /\ order' = order
      BY <1>5, <2>1, SidTyped DEF Sid
  <2>3. Visits'
      BY <1>1, <2>1, <2>2 DEF TypeOK
  <2>4. QED
      BY <1>1, <2>1, <2>2, <2>3
<1>7. ASSUME NEW t \in Tabs, StartSession(t) PROVE Visits' /\ Numbers' /\ Orders'
  <2>1. /\ visit[t].step = "starting" /\ issued < MaxSessions /\ issued' = issued + 1
        /\ stored' = issued + 1 /\ Arrive(t, issued + 1)
      BY <1>7 DEF StartSession
  <2>2. stored = NoSession /\ issued = 0 /\ issued' = 1 /\ stored' = 1 /\ NoSession = 0
      BY <1>1, <2>1 DEF NoSession
  <2>3. 1 \in SomeSession
      BY <2>1, <2>2, StorefrontAssumption DEF SomeSession, Sessions
  <2>4. /\ visit' = [visit EXCEPT ![t] = [step |-> "ready", sid |-> 1]]
        /\ till'.confirmed = till.confirmed /\ till'.page = till.page
        /\ order' = order
      BY <1>5, <2>1, <2>2, <2>3
  <2>5. \A u \in Tabs \ {t} : visit[u].step = "closed"
      BY <1>1, <2>1, <2>2
  <2>6. \A u \in Tabs : /\ u = t => visit'[u].step = "ready" /\ visit'[u].sid = 1
                        /\ u # t => visit'[u].step = "closed"
      BY <2>4, <2>5 DEF TypeOK
  <2>7. order = NoOrder
      BY <1>1, <2>2 DEF TypeOK, Sessions, NoSession
  <2>8. QED
      BY <1>1, <2>2, <2>4, <2>6, <2>7
<1>8. ASSUME NEW s \in Sessions, Expire(s) PROVE FALSE
    BY <1>8 DEF Expire
<1>9. CASE PanelStep \/ CarouselStep
    BY <1>1, <1>9, ShopStepFrame
<1>10. CASE TillStep
  <2>1. UNCHANGED <<issued, stored>> /\ (UNCHANGED visit \/ Redirect)
      BY <1>10, TillStepFrame
  <2>2. CASE ServeList \/ ListAnswered \/ Submit \/ ServeSubmit \/ SubmitAnswered
    <3>1. UNCHANGED <<visit, order>>
        BY <2>2 DEF ServeList, ListAnswered, Submit, ServeSubmit, SubmitAnswered
    <3>2. till'.page = till.page /\ till'.confirmed = till.confirmed
        BY <2>2, TillPageFrame
    <3>3. QED
        BY <1>1, <2>1, <3>1, <3>2
  <2>3. CASE Pay
    <3>1. /\ visit["till"].step = "ready"
          /\ order' = [sid |-> visit["till"].sid, cart |-> cartOf[visit["till"].sid],
                        delivery |-> delivery[visit["till"].sid]]
          /\ UNCHANGED <<visit, till>>
        BY <2>3 DEF Pay, OnPage, Ready, Sid
    <3>2. order'.sid = stored
        BY <1>1, <3>1 DEF Tabs
    <3>3. order' # NoOrder
      <4>1. stored # NoSession
          BY <1>1, <3>1 DEF Tabs
      <4>2. QED
          BY <3>2, <4>1 DEF NoOrder
    <3>4. QED
        BY <1>1, <2>1, <3>1, <3>2, <3>3
  <2>4. CASE Redirect
    <3>1. /\ order # NoOrder /\ UNCHANGED order /\ Mount("till", stored)
          /\ till' = [till EXCEPT !.page = "confirmation", !.confirmed = "loading", !.asking = Idle,
                                  !.list = Idle]
        BY <2>4 DEF Redirect
    <3>2. till'.confirmed = "loading"
        BY <3>1 DEF TypeOK, Till
    <3>3. QED
        BY <1>1, <1>3, <2>1, <3>1, <3>2 DEF Tabs
  <2>5. CASE ReadConfirmation
    <3>1. Ready("till") /\ till.page = "confirmation" /\ UNCHANGED <<visit, order>>
        BY <2>5 DEF ReadConfirmation, OnPage
    <3>2. order # NoOrder /\ order.sid = stored /\ Sid("till") = stored /\ Sid("till") \in live
        BY <1>1, <3>1 DEF Alive, Ready, Sid, Tabs
    <3>3. till' = [till EXCEPT !.confirmed = "shown"]
        BY <2>5, <3>2 DEF ReadConfirmation
    <3>4. till'.confirmed = "shown"
        BY <3>3 DEF TypeOK, Till
    <3>5. QED
        BY <1>1, <2>1, <3>1, <3>2, <3>4
  <2>6. QED
      BY <1>10, <2>2, <2>3, <2>4, <2>5 DEF TillStep
<1>11. CASE UNCHANGED vars
    BY <1>1, <1>11 DEF vars, serviceVars, cartVars, tillVars
<1>12. QED
    BY <1>4, <1>6, <1>7, <1>8, <1>9, <1>10, <1>11, StepIsOfATab DEF VisitStep

(***************************************************************************)
(* The total and the charge                                                *)
(***************************************************************************)

\* A slot that is not served carries no cart.
Bare(slot) == slot.at # "served" => slot.cart = Nothing

LEMMA SlotShapes ==
    /\ Bare(Idle) /\ Bare(Asked) /\ \A cart : Bare(Served(cart))
    /\ Idle.at = "idle" /\ Idle.cart = Nothing /\ Asked.at = "asked" /\ Asked.cart = Nothing
    /\ \A cart : Served(cart).at = "served" /\ Served(cart).cart = cart
    /\ Idle # Asked /\ \A cart : Served(cart) # Idle
BY DEF Bare, Idle, Asked, Served, Slot

LEMMA CartsOnlyWritten ==
    ASSUME TypeOK, Numbered, NEW sid \in Sessions, Write(sid)
    PROVE  /\ \A s \in Sessions : cartOf'[s] <= writes' /\ cartOf[s] <= cartOf'[s]
           /\ cartOf'[sid] = writes + 1
<1>1. \A s \in Sessions : cartOf[s] \in Nat /\ cartOf[s] <= writes /\ writes \in Nat
    BY DEF TypeOK, Numbered
<1>2. /\ cartOf' = [cartOf EXCEPT ![sid] = writes + 1]
      /\ writes' = writes + 1
      /\ cartOf \in [Sessions -> Nat]
    BY DEF Write, TypeOK
<1>3. \A s \in Sessions : cartOf'[s] = IF s = sid THEN writes + 1 ELSE cartOf[s]
    BY <1>2
<1>4. QED
    BY <1>1, <1>2, <1>3

\* Only the agent, an Add button and the payment change a cart.
LEMMA CartStep ==
    ASSUME TypeOK, [Next]_vars
    PROVE  \/ UNCHANGED <<cartOf, writes>>
           \/ Sid("shop") \in Sessions /\ Write(Sid("shop")) /\ UNCHANGED <<visit, till, order>>
           \/ Pay
<1>1. CASE VisitStep
    BY <1>1 DEF VisitStep, Open, CheckSession, StartSession, Expire, serviceVars, cartVars
<1>2. CASE AgentWrites \/ \E p \in Products : ServeAdd(p)
    BY <1>2 DEF AgentWrites, ServeAdd, ShopRest, tillVars, serviceVars, cartVars, TypeOK
<1>3. CASE \/ ServeFirstRead
           \/ FirstReadAnswered
           \/ \E from \in Askers : Ask(from)
           \/ AgentStages
           \/ ShopEvent
           \/ ReplyEnds
           \/ \E p \in Products : Press(p) \/ AddAnswered(p) \/ ButtonTimer(p)
    BY <1>3 DEF ServeFirstRead, FirstReadAnswered, Ask, AgentStages, ShopEvent, ReplyEnds, Press,
                AddAnswered, ButtonTimer, serviceVars, cartVars
<1>4. CASE CarouselStep
    BY <1>4 DEF CarouselStep, Toggle, Folded, DetailsAnswered, CarouselRest, serviceVars, cartVars
<1>5. CASE TillStep
    BY <1>5 DEF TillStep, ServeList, ListAnswered, Submit, ServeSubmit, SubmitAnswered, Redirect,
                ReadConfirmation, serviceVars, cartVars
<1>6. CASE UNCHANGED vars
    BY <1>6 DEF vars, serviceVars, cartVars
<1>7. QED
    BY <1>1, <1>2, <1>3, <1>4, <1>5, <1>6, StepIsOfATab DEF PanelStep

LEMMA NumberedKept ==
    ASSUME TypeOK, Numbered, Totalled, [Next]_vars
    PROVE  Numbered'
<1>0. shop \in Shop /\ till \in Till /\ adding \in [Products -> Slots]
    BY DEF TypeOK
<1>1. \A s \in Sessions : cartOf'[s] <= writes'
  <2>1. CASE UNCHANGED <<cartOf, writes>>
      BY <2>1 DEF Numbered
  <2>2. CASE Sid("shop") \in Sessions /\ Write(Sid("shop"))
      BY <2>2, CartsOnlyWritten
  <2>3. CASE Pay
      BY <2>3 DEF Pay, Numbered, TypeOK
  <2>4. QED
      BY <2>1, <2>2, <2>3, CartStep
<1>2. Bare(shop.first) /\ Bare(till.asking) /\ \A p \in Products : Bare(adding[p])
    BY DEF Numbered, Bare
<1>3. Bare(shop'.first)
  <2>1. CASE VisitStep
      BY <1>0, <1>2, <2>1, SlotShapes DEF VisitStep, Open, CheckSession, StartSession, Expire, Arrive,
         ClearShop, NewShop, shopVars, Shop
  <2>2. CASE ServeFirstRead \/ FirstReadAnswered
    <3>1. CASE ServeFirstRead
      <4>1. PICK cart : shop' = [shop EXCEPT !.first = Served(cart)]
          BY <3>1 DEF ServeFirstRead
      <4>2. QED
          BY <1>0, <4>1, SlotShapes DEF Shop
    <3>2. CASE FirstReadAnswered
      <4>1. PICK got : shop' = [shop EXCEPT !.first = Idle, !.panel = IF got = Nothing THEN @ ELSE got]
          BY <3>2 DEF FirstReadAnswered
      <4>2. QED
          BY <1>0, <4>1, SlotShapes DEF Shop
    <3>3. QED
        BY <2>2, <3>1, <3>2
  <2>3. CASE (\E from \in Askers : Ask(from)) \/ AgentWrites \/ AgentStages \/ ReplyEnds
      BY <1>0, <1>2, <2>3 DEF Ask, AgentWrites, AgentStages, ReplyEnds, Shop
  <2>4. CASE ShopEvent \/ \E p \in Products : AddAnswered(p)
    <3>1. CASE ShopEvent
      <4> DEFINE rest == [shop EXCEPT !.feed = Tail(@)]
      <4>1. rest.first = shop.first
          BY <1>0 DEF Shop
      <4>2. \A cart : /\ CartUpdate(rest, cart).first = shop.first
                     /\ [rest EXCEPT !.staged = TRUE, !.summary = cart].first = shop.first
          BY <1>0, <4>1 DEF CartUpdate, Shop
      <4>3. shop' = IF Head(shop.feed).type = "cart_update"
                      THEN CartUpdate(rest, Head(shop.feed).cart)
                      ELSE [rest EXCEPT !.staged = TRUE, !.summary = Head(shop.feed).cart]
          BY <3>1 DEF ShopEvent, Staged
      <4> HIDE DEF rest
      <4>4. QED
          BY <1>2, <4>2, <4>3
    <3>2. CASE \E p \in Products : AddAnswered(p)
      <4>1. \A cart : CartUpdate(shop, cart).first = shop.first
          BY <1>0 DEF CartUpdate, Shop
      <4>2. QED
          BY <1>2, <3>2, <4>1 DEF AddAnswered
    <3>3. QED
        BY <2>4, <3>1, <3>2
  <2>5. CASE \E p \in Products : Press(p) \/ ServeAdd(p) \/ ButtonTimer(p)
      BY <1>2, <2>5 DEF Press, ServeAdd, ButtonTimer
  <2>6. CASE CarouselStep \/ UNCHANGED vars
      BY <1>2, <2>6 DEF CarouselStep, Toggle, Folded, DetailsAnswered, CarouselRest, vars, shopVars
  <2>7. CASE TillStep
      BY <1>2, <2>7, TillStepFrame
  <2>8. QED
      BY <2>1, <2>2, <2>3, <2>4, <2>5, <2>6, <2>7, StepIsOfATab DEF PanelStep
<1>4. \A p \in Products : Bare(adding'[p])
  <2>1. CASE VisitStep
      BY <1>2, <2>1, SlotShapes DEF VisitStep, Open, CheckSession, StartSession, Expire, Arrive,
         ClearShop, shopVars
  <2>2. ASSUME NEW p \in Products, Press(p) \/ ServeAdd(p) \/ AddAnswered(p)
        PROVE  \A q \in Products : Bare(adding'[q])
      BY <1>0, <1>2, <2>2, SlotShapes DEF Press, ServeAdd, AddAnswered
  <2>3. CASE \/ ServeFirstRead
             \/ FirstReadAnswered
             \/ \E from \in Askers : Ask(from)
             \/ AgentWrites
             \/ AgentStages
             \/ ShopEvent
             \/ ReplyEnds
             \/ \E p \in Products : ButtonTimer(p)
      BY <1>2, <2>3 DEF ServeFirstRead, FirstReadAnswered, Ask, AgentWrites, AgentStages, ShopEvent,
         ReplyEnds, ButtonTimer
  <2>4. CASE CarouselStep \/ UNCHANGED vars
      BY <1>2, <2>4 DEF CarouselStep, Toggle, Folded, DetailsAnswered, CarouselRest, vars, shopVars
  <2>5. CASE TillStep
      BY <1>2, <2>5, TillStepFrame
  <2>6. QED
      BY <2>1, <2>2, <2>3, <2>4, <2>5, StepIsOfATab DEF PanelStep
<1>5. Bare(till'.asking)
  <2>1. CASE VisitStep
      BY <1>0, <1>2, <2>1, SlotShapes DEF VisitStep, Open, CheckSession, StartSession, Expire, Arrive,
         NewTill, tillVars, Till
  <2>2. CASE PanelStep \/ CarouselStep
      BY <1>2, <2>2, ShopStepFrame
  <2>3. CASE ServeList \/ ListAnswered \/ Submit \/ ServeSubmit
    <3>1. CASE ServeList \/ ListAnswered
        BY <1>0, <1>2, <3>1 DEF ServeList, ListAnswered, Till
    <3>2. CASE Submit
        BY <1>0, <3>2, SlotShapes DEF Submit, Till
    <3>3. CASE ServeSubmit
      <4>1. PICK cart : till' = [till EXCEPT !.asking = Served(cart)]
          BY <3>3 DEF ServeSubmit
      <4>2. QED
          BY <1>0, <4>1, SlotShapes DEF Till
    <3>4. QED
        BY <2>3, <3>1, <3>2, <3>3
  <2>4. CASE SubmitAnswered
    <3>1. CASE \E got : AddressAnswered(got)
        BY <1>0, <3>1, SlotShapes DEF AddressAnswered, Till
    <3>2. CASE \E got : ShippingAnswered(got)
        BY <1>0, <3>2, SlotShapes DEF ShippingAnswered, Till
    <3>3. CASE \E got : PaymentStarted(got)
        BY <1>0, <3>3, SlotShapes DEF PaymentStarted, Till
    <3>4. QED
        BY <2>4, <3>1, <3>2, <3>3 DEF SubmitAnswered
  <2>5. CASE Pay \/ Redirect \/ ReadConfirmation
      BY <1>0, <1>2, <2>5, SlotShapes DEF Pay, Redirect, ReadConfirmation, Till
  <2>6. CASE UNCHANGED vars
      BY <1>2, <2>6 DEF vars, tillVars
  <2>7. QED
      BY <2>1, <2>2, <2>3, <2>4, <2>5, <2>6, StepIsOfATab DEF TillStep
<1>6. QED
    BY <1>1, <1>3, <1>4, <1>5 DEF Numbered, Bare

\* As long as the page keeps its session and the cart is only written, a total stays below it.
LEMMA BelowGrows ==
    ASSUME TypeOK, Numbered, [Next]_vars, ~Pay, UNCHANGED visit, NEW cart \in Carts, Below(cart)
    PROVE  cart # Nothing => Sid("till")' \in Sessions /\ cart \in 1..cartOf'[Sid("till")']
<1> SUFFICES ASSUME cart # Nothing
             PROVE  Sid("till") \in Sessions /\ cart \in 1..cartOf'[Sid("till")]
    BY DEF Sid
<1>1. Sid("till") \in Sessions /\ cart \in 1..cartOf[Sid("till")]
    BY DEF Below
<1>2. cartOf[Sid("till")] \in Nat /\ cartOf'[Sid("till")] \in Nat
      /\ cartOf[Sid("till")] <= cartOf'[Sid("till")]
  <2>1. CASE UNCHANGED <<cartOf, writes>>
      BY <1>1, <2>1 DEF TypeOK
  <2>2. CASE Sid("shop") \in Sessions /\ Write(Sid("shop"))
      BY <1>1, <2>2, CartsOnlyWritten, WriteTyped DEF TypeOK
  <2>3. QED
      BY <2>1, <2>2, CartStep
<1>3. QED
    BY <1>1, <1>2

LEMMA TotalledKept ==
    ASSUME TypeOK, Numbered, Totalled, [Next]_vars
    PROVE  Totalled'
<1>0. till \in Till /\ till.total \in Carts /\ till.asking \in Slots /\ till.asking.cart \in Carts
    BY DEF TypeOK, Till, Slots
<1>n. Nothing \in Carts /\ Nothing = -1
    BY DEF Nothing, Carts
\* While there is no order.
<1> DEFINE Fits(t, v) ==
             /\ v["till"].step # "ready" => t.total = Nothing /\ t.asking = Idle /\ t.step = "address"
             /\ t.step = "payment" <=> t.total # Nothing
             /\ t.widget = "open" => t.step = "payment"
           Under(cart) == cart # Nothing => Sid("till")' \in Sessions /\ cart \in 1..cartOf'[Sid("till")']
<1>1. ASSUME order' = NoOrder, Fits(till', visit'), Under(till'.total), Under(till'.asking.cart)
      PROVE  Totalled'
    BY <1>1 DEF Totalled, Below, Ready
<1>2. ASSUME order = NoOrder
      PROVE  Fits(till, visit) /\ Below(till.total) /\ Below(till.asking.cart)
    BY <1>2 DEF Totalled, Ready
<1>3. ASSUME order # NoOrder, UNCHANGED order, till'.total = till.total, till'.step = till.step
      PROVE  Totalled'
    BY <1>3 DEF Totalled
\* A step that leaves the total, what is asked and the session as they are.
<1>4. ASSUME UNCHANGED <<order, visit>>, ~Pay, till'.total = till.total, till'.asking = till.asking,
             till'.step = till.step, till'.widget = till.widget
      PROVE  Totalled'
  <2>1. CASE order # NoOrder
      BY <1>3, <1>4, <2>1
  <2>2. CASE order = NoOrder
    <3>1. Under(till.total) /\ Under(till.asking.cart)
        BY <1>0, <1>2, <1>4, <2>2, BelowGrows
    <3>2. QED
        BY <1>1, <1>2, <1>4, <2>2, <3>1
  <2>3. QED
      BY <2>1, <2>2
\* A page that is loaded, or gets its session.
<1>5. ASSUME till' = NewTill, order' = NoOrder PROVE Totalled'
  <2>1. till'.total = Nothing /\ till'.asking = Idle /\ till'.step = "address" /\ till'.widget = "none"
      BY <1>5 DEF NewTill
  <2>2. QED
      BY <1>1, <1>5, <2>1, SlotShapes
<1>6. ASSUME NEW t \in Tabs, NEW sid, Arrive(t, sid), visit[t].step # "ready", UNCHANGED cartOf
      PROVE  Totalled'
  <2>1. /\ till'.total = till.total /\ till'.asking = till.asking /\ till'.step = till.step
        /\ till'.widget = till.widget /\ UNCHANGED order
        /\ visit' = [visit EXCEPT ![t] = [step |-> "ready", sid |-> sid]]
      BY <1>0, <1>6 DEF Arrive, Till
  <2>2. CASE order # NoOrder
      BY <1>3, <2>1, <2>2
  <2>3. CASE order = NoOrder /\ t = "till"
    <3>1. till.total = Nothing /\ till.asking = Idle /\ till.step = "address"
        BY <1>2, <1>6, <2>3
    <3>2. QED
        BY <1>1, <1>2, <2>1, <2>3, <3>1, SlotShapes
  <2>4. CASE order = NoOrder /\ t # "till"
    <3>1. visit'["till"] = visit["till"] /\ Sid("till")' = Sid("till")
        BY <2>1, <2>4 DEF Sid, TypeOK, Tabs
    <3>2. Under(till.total) /\ Under(till.asking.cart)
        BY <1>2, <1>6, <2>4, <3>1 DEF Below
    <3>3. QED
        BY <1>1, <1>2, <2>1, <2>4, <3>1, <3>2
  <2>5. QED
      BY <2>2, <2>3, <2>4
<1>7. ASSUME NEW t \in Tabs, t # "till", UNCHANGED <<till, order, cartOf>>, visit'["till"] = visit["till"]
      PROVE  Totalled'
  <2>1. Sid("till")' = Sid("till") /\ (Ready("till"))' = Ready("till")
      BY <1>7 DEF Sid, Ready
  <2>2. QED
      BY <1>7, <2>1 DEF Totalled, Below
<1>8. CASE VisitStep
  <2>1. ASSUME NEW t \in Tabs, Open(t) PROVE Totalled'
    <3>1. CASE t = "till"
        BY <1>5, <2>1, <3>1 DEF Open
    <3>2. CASE t # "till"
      <4>1. UNCHANGED <<till, order, cartOf>>
          BY <2>1, <3>2 DEF Open, tillVars, serviceVars, cartVars, Tabs
      <4>2. visit'["till"] = visit["till"]
          BY <2>1, <3>2 DEF Open, Mount, TypeOK, Tabs
      <4>3. QED
          BY <1>7, <3>2, <4>1, <4>2
    <3>3. QED
        BY <3>1, <3>2
  <2>2. ASSUME NEW t \in Tabs, CheckSession(t) PROVE Totalled'
    <3>1. visit[t].step = "checking" /\ UNCHANGED cartOf
        BY <2>2 DEF CheckSession, serviceVars, cartVars
    <3>2. CASE Arrive(t, Sid(t))
        BY <1>6, <3>1, <3>2
    <3>3. CASE visit' = [visit EXCEPT ![t].step = "starting"] /\ UNCHANGED tillVars
      <4>1. CASE t # "till"
          BY <1>7, <3>1, <3>3, <4>1 DEF tillVars, TypeOK, Tabs
      <4>2. CASE t = "till"
        <5>1. CASE order # NoOrder
            BY <1>3, <3>3, <5>1 DEF tillVars
        <5>2. CASE order = NoOrder
          <6>1. till.total = Nothing /\ till.asking = Idle /\ till.step = "address"
              BY <1>2, <3>1, <4>2, <5>2
          <6>2. QED
              BY <1>1, <1>2, <3>3, <5>2, <6>1, SlotShapes DEF tillVars
        <5>3. QED
            BY <5>1, <5>2
      <4>3. QED
          BY <4>1, <4>2
    <3>4. QED
        BY <2>2, <3>2, <3>3 DEF CheckSession
  <2>3. ASSUME NEW t \in Tabs, StartSession(t) PROVE Totalled'
      BY <1>6, <2>3 DEF StartSession, cartVars
  <2>4. ASSUME NEW s \in Sessions, Expire(s) PROVE Totalled'
    <3>1. UNCHANGED <<order, visit, till>> /\ ~Pay
        BY <2>4 DEF Expire, tillVars, Pay, TillRest
    <3>2. QED
        BY <1>4, <3>1
  <2>5. QED
      BY <1>8, <2>1, <2>2, <2>3, <2>4 DEF VisitStep
<1>9. CASE PanelStep \/ CarouselStep
  <2>1. UNCHANGED <<order, visit, till>>
      BY <1>9, ShopStepFrame
  <2>2. CASE ~Pay
      BY <1>4, <2>1, <2>2
  <2>3. CASE Pay
      BY <2>1, <2>3 DEF Pay, OnPage, TypeOK, NoOrder, Nothing
  <2>4. QED
      BY <2>2, <2>3
<1>10. CASE TillStep
  <2>1. CASE ServeList \/ ListAnswered
    <3>1. UNCHANGED <<order, visit, cartOf>>
        BY <2>1 DEF ServeList, ListAnswered, cartVars
    <3>2. /\ till'.total = till.total /\ till'.asking = till.asking
          /\ till'.step = till.step /\ till'.widget = till.widget
        BY <1>0, <2>1 DEF ServeList, ListAnswered, Till
    <3>3. CASE order = NoOrder
      <4>1. Under(till.total) /\ Under(till.asking.cart)
          BY <1>2, <3>1, <3>3 DEF Below, Sid
      <4>2. QED
          BY <1>1, <1>2, <3>1, <3>2, <3>3, <4>1
    <3>4. QED
        BY <1>3, <3>1, <3>2, <3>3
  <2>2. CASE Submit \/ ServeSubmit
    <3>1. UNCHANGED <<order, visit, cartOf>>
        BY <2>2 DEF Submit, ServeSubmit, cartVars
    <3>2. PICK slot \in {Asked} \cup {Served(cart) : cart \in {CartFor(Sid("till")), Nothing}} :
            till' = [till EXCEPT !.asking = slot] /\ slot.cart # 0
      <4>1. CASE Submit
          BY <2>2, <4>1, SlotShapes DEF Submit, Nothing
      <4>2. CASE ServeSubmit
        <5>1. CartFor(Sid("till")) > 0 => CartFor(Sid("till")) # 0
            OBVIOUS
        <5>2. PICK made \in {CartFor(Sid("till")), Nothing} :
                made # 0 /\ till' = [till EXCEPT !.asking = Served(made)]
            BY <4>2, <5>1, <1>n DEF ServeSubmit
        <5>3. Served(made).cart # 0
            BY <5>2, SlotShapes
        <5>4. QED
            BY <5>2, <5>3
      <4>3. QED
          BY <2>2, <4>1, <4>2
    <3>3. /\ till'.total = till.total /\ till'.asking = slot
          /\ till'.step = till.step /\ till'.widget = till.widget
        BY <1>0, <3>2 DEF Till
    <3>4. CASE order # NoOrder
        BY <1>3, <3>1, <3>3, <3>4
    <3>5. CASE order = NoOrder
      <4>1. Under(till.total)
          BY <1>2, <3>1, <3>5 DEF Below, Sid
      <4>2. Under(slot.cart)
        <5>1. CASE slot = Asked
            BY <5>1, SlotShapes
        <5>2. ASSUME NEW cart \in {CartFor(Sid("till")), Nothing}, slot = Served(cart)
              PROVE  Under(slot.cart)
          <6>1. slot.cart = cart /\ cart # 0
              BY <3>2, <5>2, SlotShapes
          <6>2. CASE cart # Nothing
            <7>1. Sid("till") \in Sessions /\ cart = cartOf[Sid("till")] /\ cart \in Nat
                BY <5>2, <6>2 DEF CartFor, TypeOK
            <7>2. QED
                BY <3>1, <6>1, <7>1 DEF Sid
          <6>3. QED
              BY <6>1, <6>2
        <5>3. QED
            BY <3>2, <5>1, <5>2
      <4>3. visit["till"].step = "ready"
        <5>1. CASE Submit
            BY <5>1 DEF Submit, OnPage, Ready
        <5>2. CASE ServeSubmit
            BY <1>2, <3>5, <5>2, SlotShapes DEF ServeSubmit
        <5>3. QED
            BY <2>2, <5>1, <5>2
      <4>4. QED
          BY <1>1, <1>2, <3>1, <3>3, <3>5, <4>1, <4>2, <4>3
    <3>6. QED
        BY <3>4, <3>5
  <2>3. CASE SubmitAnswered
    <3>1. UNCHANGED <<order, visit, cartOf>>
        BY <2>3 DEF SubmitAnswered, cartVars
    <3>2. PICK got \in Outcomes(till.asking) :
            AddressAnswered(got) \/ ShippingAnswered(got) \/ PaymentStarted(got)
        BY <2>3 DEF SubmitAnswered
    <3>3. got = Nothing \/ got = till.asking.cart
        BY <3>2 DEF Outcomes
    <3>4. till.asking # Idle
        BY <3>2, SlotShapes DEF Outcomes
    <3>5. CASE order # NoOrder
      <4>1. till.step = "payment"
          BY <3>5 DEF Totalled
      <4>2. till' = [till EXCEPT !.asking = Idle, !.widget = IF got = Nothing THEN "failed" ELSE "open"]
          BY <3>2, <4>1 DEF AddressAnswered, ShippingAnswered, PaymentStarted
      <4>3. till'.total = till.total /\ till'.step = till.step
          BY <1>0, <4>2 DEF Till
      <4>4. QED
          BY <1>3, <3>1, <3>5, <4>3
    <3>6. CASE order = NoOrder
      <4>1. visit["till"].step = "ready"
          BY <1>2, <3>4, <3>6
      <4>2. Under(till.total) /\ Under(till.asking.cart) /\ Under(Nothing) /\ Under(got)
          BY <1>2, <3>1, <3>3, <3>6 DEF Below, Sid
      <4>3. CASE AddressAnswered(got)
        <5>1. /\ till'.total = till.total /\ till'.asking = Idle /\ till'.widget = till.widget
              /\ till.step = "address" /\ till'.step \in {"address", "shipping"}
            BY <1>0, <4>3 DEF AddressAnswered, Till
        <5>2. QED
            BY <1>1, <1>2, <3>1, <3>6, <4>1, <4>2, <5>1, SlotShapes
      <4>4. CASE ShippingAnswered(got)
        <5>1. CASE got = Nothing
          <6>1. /\ till'.total = till.total /\ till'.asking = Idle /\ till'.widget = till.widget
                /\ till'.step = till.step
              BY <1>0, <4>4, <5>1 DEF ShippingAnswered, Till
          <6>2. QED
              BY <1>1, <1>2, <3>1, <3>6, <4>1, <4>2, <6>1, SlotShapes
        <5>2. CASE got # Nothing
          <6>1. /\ till'.total = got /\ till'.asking = Asked /\ till'.widget = "loading"
                /\ till'.step = "payment"
              BY <1>0, <4>4, <5>2 DEF ShippingAnswered, Till
          <6>2. QED
              BY <1>1, <1>2, <3>1, <3>6, <4>1, <4>2, <5>2, <6>1, SlotShapes
        <5>3. QED
            BY <5>1, <5>2
      <4>5. CASE PaymentStarted(got)
        <5>1. /\ till'.total = till.total /\ till'.asking = Idle
              /\ till.step = "payment" /\ till'.step = "payment"
            BY <1>0, <4>5 DEF PaymentStarted, Till
        <5>2. QED
            BY <1>1, <1>2, <3>1, <3>6, <4>1, <4>2, <5>1, SlotShapes
      <4>6. QED
          BY <3>2, <4>3, <4>4, <4>5
    <3>7. QED
        BY <3>5, <3>6
  <2>4. CASE Pay
    <3>1. /\ visit["till"].step = "ready" /\ till.widget = "open" /\ order = NoOrder
          /\ order' = [sid |-> Sid("till"), cart |-> cartOf[Sid("till")],
                        delivery |-> delivery[Sid("till")]]
          /\ UNCHANGED till
        BY <2>4 DEF Pay, OnPage, Ready
    <3>2. till.step = "payment" /\ till.total # Nothing /\ Below(till.total)
        BY <1>2, <3>1
    <3>3. Sid("till") \in Sessions /\ till.total \in 1..cartOf[Sid("till")]
        BY <3>2 DEF Below
    <3>4. order'.cart = cartOf[Sid("till")] /\ order'.sid = Sid("till")
        BY <3>1
    <3>5. order' # NoOrder
        BY <3>3, <3>4 DEF NoOrder, NoSession, Sessions
    <3>6. QED
        BY <3>1, <3>2, <3>3, <3>4, <3>5 DEF Totalled
  <2>5. CASE Redirect
    <3>1. order # NoOrder /\ UNCHANGED order
        BY <2>5 DEF Redirect
    <3>2. till'.total = till.total /\ till'.step = till.step
        BY <1>0, <2>5 DEF Redirect, Till
    <3>3. QED
        BY <1>3, <3>1, <3>2
  <2>6. CASE ReadConfirmation
    <3>1. UNCHANGED <<order, visit, cartOf>>
        BY <2>6 DEF ReadConfirmation, cartVars
    <3>2. /\ till'.total = till.total /\ till'.asking = till.asking
          /\ till'.step = till.step /\ till'.widget = till.widget
        BY <1>0, <2>6 DEF ReadConfirmation, Till
    <3>3. CASE order = NoOrder
      <4>1. Under(till.total) /\ Under(till.asking.cart)
          BY <1>2, <3>1, <3>3 DEF Below, Sid
      <4>2. QED
          BY <1>1, <1>2, <3>1, <3>2, <3>3, <4>1
    <3>4. QED
        BY <1>3, <3>1, <3>2, <3>3
  <2>7. QED
      BY <1>10, <2>1, <2>2, <2>3, <2>4, <2>5, <2>6 DEF TillStep
<1>11. CASE UNCHANGED vars
    BY <1>11 DEF vars, serviceVars, cartVars, tillVars, Totalled, Below, Sid, Ready
<1>12. QED
    BY <1>8, <1>9, <1>10, <1>11, StepIsOfATab

\* Of the steps outside the checkout only the agent's and an Add button's write a cart.
LEMMA OutsideStep ==
    ASSUME TypeOK, VisitStep \/ PanelStep \/ CarouselStep
    PROVE  \/ UNCHANGED cartVars
           \/ Sid("shop") \in Sessions /\ Write(Sid("shop"))
<1>1. CASE VisitStep
    BY <1>1 DEF VisitStep, Open, CheckSession, StartSession, Expire, serviceVars
<1>2. CASE AgentWrites \/ \E p \in Products : ServeAdd(p)
    BY <1>2 DEF AgentWrites, ServeAdd, serviceVars, TypeOK
<1>3. CASE \/ ServeFirstRead
           \/ FirstReadAnswered
           \/ \E from \in Askers : Ask(from)
           \/ AgentStages
           \/ ShopEvent
           \/ ReplyEnds
           \/ \E p \in Products : Press(p) \/ AddAnswered(p) \/ ButtonTimer(p)
    BY <1>3 DEF ServeFirstRead, FirstReadAnswered, Ask, AgentStages, ShopEvent, ReplyEnds, Press,
                AddAnswered, ButtonTimer, serviceVars
<1>4. CASE CarouselStep
    BY <1>4 DEF CarouselStep, Toggle, Folded, DetailsAnswered, CarouselRest, serviceVars
<1>5. QED
    BY <1>1, <1>2, <1>3, <1>4 DEF PanelStep

\* What Fresh says of the same cart after a step that does not move the checkout's tab.
StillFresh(cart) ==
    delivery'[Sid("till")] = "method" /\ (cart = cartOf'[Sid("till")] \/ moved')

LEMMA DeliveredKept ==
    ASSUME TypeOK, Totalled, Delivered, [Next]_vars
    PROVE  Delivered'
<1>0. /\ till \in Till /\ visit \in [Tabs -> Visit] /\ live \subseteq Sessions
      /\ cartOf \in [Sessions -> Nat] /\ delivery \in [Sessions -> Deliveries]
    BY DEF TypeOK
<1>1. ASSUME order = NoOrder
      PROVE  /\ till.step = "payment" => Fresh(till.total) /\ Sid("till") \in Sessions
             /\ till.step = "shipping" /\ till.asking.cart # Nothing
                  => Fresh(till.asking.cart) /\ Sid("till") \in Sessions
    BY <1>1 DEF Delivered, Totalled, Below
<1>2. ASSUME order # NoOrder
      PROVE  till.step = "payment" /\ order.delivery = "method" /\ (order.cart = till.total \/ moved)
    BY <1>2 DEF Delivered, Totalled
\* An order that was made stays as it is.
<1>3. ASSUME order # NoOrder, UNCHANGED order, till'.total = till.total, moved => moved'
      PROVE  Delivered'
    BY <1>2, <1>3 DEF Delivered
\* A cart that is only written, by whoever shops, is as fresh or has moved.
<1>4. ASSUME NEW cart, Fresh(cart), Sid("till") \in Sessions, UNCHANGED visit,
             UNCHANGED cartVars \/ (Sid("shop") \in Sessions /\ Write(Sid("shop")))
      PROVE  StillFresh(cart)
  <2>1. Sid("till")' = Sid("till")
      BY <1>4 DEF Sid
  <2>2. CASE UNCHANGED cartVars
      BY <1>4, <2>1, <2>2 DEF Fresh, StillFresh, cartVars
  <2>3. CASE Sid("shop") \in Sessions /\ Write(Sid("shop"))
    <3>1. /\ cartOf' = [cartOf EXCEPT ![Sid("shop")] = writes + 1]
          /\ moved' = (moved \/ Sid("shop") = Sid("till")) /\ delivery' = delivery
        BY <2>3 DEF Write
    <3>2. Sid("shop") # Sid("till") => cartOf'[Sid("till")] = cartOf[Sid("till")]
        BY <1>0, <1>4, <3>1
    <3>3. QED
        BY <1>4, <2>1, <3>1, <3>2 DEF Fresh, StillFresh
  <2>4. QED
      BY <1>4, <2>2, <2>3
<1>5. ASSUME UNCHANGED <<order, visit>>, till'.total = till.total, till'.step = till.step,
             till'.asking.cart \in {till.asking.cart, Nothing},
             UNCHANGED cartVars \/ (Sid("shop") \in Sessions /\ Write(Sid("shop")))
      PROVE  Delivered'
  <2>1. CASE order # NoOrder
    <3>1. moved => moved'
        BY <1>5 DEF cartVars, Write
    <3>2. QED
        BY <1>3, <1>5, <2>1, <3>1
  <2>2. CASE order = NoOrder
    <3>0. UNCHANGED visit
        BY <1>5
    <3>1. ASSUME till.step = "payment" PROVE Fresh(till.total)'
      <4>1. Fresh(till.total) /\ Sid("till") \in Sessions
          BY <1>1, <2>2, <3>1
      <4>2. \A cart : cart = till.total => StillFresh(cart)
          BY <1>4, <1>5, <3>0, <4>1
      <4>3. till'.total = till.total /\ Sid("till")' = Sid("till")
          BY <1>5 DEF Sid
      <4>4. QED
          BY <4>2, <4>3, <3>0 DEF Fresh, StillFresh
    <3>2. ASSUME till.step = "shipping", till'.asking.cart # Nothing
          PROVE  Fresh(till.asking.cart)'
      <4>1. till'.asking.cart = till.asking.cart
          BY <1>5, <3>2
      <4>2. Fresh(till.asking.cart) /\ Sid("till") \in Sessions
          BY <1>1, <2>2, <3>2, <4>1
      <4>3. \A cart : cart = till.asking.cart => StillFresh(cart)
          BY <1>4, <1>5, <3>0, <4>2
      <4>4. Sid("till")' = Sid("till")
          BY <1>5 DEF Sid
      <4>5. QED
          BY <4>1, <4>3, <4>4 DEF Fresh, StillFresh
    <3>3. QED
        BY <1>5, <2>2, <3>1, <3>2 DEF Delivered
  <2>3. QED
      BY <2>1, <2>2
\* Before the first form is answered there is nothing to agree.
<1>6. ASSUME order' = NoOrder, till'.step = "address" PROVE Delivered'
    BY <1>6 DEF Delivered
<1>7. CASE VisitStep
  <2>1. ASSUME NEW t \in Tabs, Open(t) PROVE Delivered'
    <3>1. CASE t = "till"
        BY <1>6, <2>1, <3>1 DEF Open, NewTill
    <3>2. CASE t # "till"
      <4>1. UNCHANGED <<till, order, cartVars>> /\ Sid("till")' = Sid("till")
          BY <1>0, <2>1, <3>2 DEF Open, Mount, tillVars, serviceVars, Tabs, Sid
      <4>2. QED
          BY <4>1 DEF Delivered, Fresh, cartVars
    <3>3. QED
        BY <3>1, <3>2
  <2>2. ASSUME NEW t \in Tabs, visit[t].step # "ready", UNCHANGED <<order, cartVars>>,
               till'.total = till.total, till'.step = till.step, till'.asking = till.asking,
               t # "till" => Sid("till")' = Sid("till")
        PROVE  Delivered'
    <3>1. CASE order # NoOrder
        BY <1>3, <2>2, <3>1 DEF cartVars
    <3>2. CASE order = NoOrder /\ t = "till"
      <4>1. till.step = "address"
          BY <2>2, <3>2 DEF Totalled, Ready
      <4>2. QED
          BY <1>6, <2>2, <3>2, <4>1
    <3>3. CASE order = NoOrder /\ t # "till"
        BY <1>1, <2>2, <3>3 DEF Delivered, Fresh, cartVars
    <3>4. QED
        BY <3>1, <3>2, <3>3
  <2>3. ASSUME NEW t \in Tabs, NEW sid, Arrive(t, sid), visit[t].step # "ready", UNCHANGED cartVars
        PROVE  Delivered'
    <3>1. /\ till'.total = till.total /\ till'.asking = till.asking /\ till'.step = till.step
          /\ UNCHANGED order
          /\ visit' = [visit EXCEPT ![t] = [step |-> "ready", sid |-> sid]]
        BY <1>0, <2>3 DEF Arrive, Till
    <3>2. t # "till" => Sid("till")' = Sid("till")
        BY <1>0, <3>1 DEF Sid, Tabs
    <3>3. QED
        BY <2>2, <2>3, <3>1, <3>2
  <2>4. ASSUME NEW t \in Tabs, CheckSession(t) PROVE Delivered'
    <3>1. visit[t].step = "checking" /\ UNCHANGED cartVars
        BY <2>4 DEF CheckSession, serviceVars
    <3>2. CASE Arrive(t, Sid(t))
        BY <2>3, <3>1, <3>2
    <3>3. CASE visit' = [visit EXCEPT ![t].step = "starting"] /\ UNCHANGED tillVars
      <4>1. t # "till" => Sid("till")' = Sid("till")
          BY <1>0, <3>3 DEF Sid, Tabs
      <4>2. QED
          BY <2>2, <3>1, <3>3, <4>1 DEF tillVars
    <3>4. QED
        BY <2>4, <3>2, <3>3 DEF CheckSession
  <2>5. ASSUME NEW t \in Tabs, StartSession(t) PROVE Delivered'
      BY <2>3, <2>5 DEF StartSession
  <2>6. ASSUME NEW s \in Sessions, Expire(s) PROVE Delivered'
    <3>1. UNCHANGED <<order, visit, till, cartVars>>
        BY <2>6 DEF Expire, tillVars
    <3>2. QED
        BY <1>5, <3>1
  <2>7. QED
      BY <1>7, <2>1, <2>4, <2>5, <2>6 DEF VisitStep
<1>8. CASE PanelStep \/ CarouselStep
  <2>1. UNCHANGED <<order, visit, till>>
      BY <1>8, ShopStepFrame
  <2>2. QED
      BY <1>5, <1>8, <2>1, OutsideStep
<1>9. CASE TillStep
  <2>1. CASE ServeList \/ ListAnswered \/ ReadConfirmation
    <3>1. UNCHANGED <<order, visit, cartVars>>
        BY <2>1 DEF ServeList, ListAnswered, ReadConfirmation
    <3>2. /\ till'.total = till.total /\ till'.asking = till.asking /\ till'.step = till.step
        BY <1>0, <2>1 DEF ServeList, ListAnswered, ReadConfirmation, Till
    <3>3. QED
        BY <1>5, <3>1, <3>2
  <2>2. CASE Submit
    <3>1. UNCHANGED <<order, visit, cartVars>> /\ till' = [till EXCEPT !.asking = Asked]
        BY <2>2 DEF Submit
    <3>2. till'.total = till.total /\ till'.asking = Asked /\ till'.step = till.step
        BY <1>0, <3>1 DEF Till
    <3>3. QED
        BY <1>5, <3>1, <3>2, SlotShapes
  <2>3. CASE ServeSubmit
    <3>1. UNCHANGED <<order, visit, cartOf, writes>>
        BY <2>3 DEF ServeSubmit
    <3>2. CASE till' = [till EXCEPT !.asking = Served(Nothing)] /\ UNCHANGED <<delivery, moved>>
      <4>1. till'.total = till.total /\ till'.asking = Served(Nothing) /\ till'.step = till.step
          BY <1>0, <3>2 DEF Till
      <4>2. QED
          BY <1>5, <3>1, <3>2, <4>1, SlotShapes DEF cartVars
    <3>3. CASE /\ CartFor(Sid("till")) > 0
               /\ till' = [till EXCEPT !.asking = Served(CartFor(Sid("till")))]
               /\ delivery' = [delivery EXCEPT ![Sid("till")] = Settled(till.step)]
               /\ moved' = (moved /\ till.step # "shipping")
      <4>1. /\ till'.total = till.total /\ till'.asking = Served(CartFor(Sid("till")))
            /\ till'.step = till.step
          BY <1>0, <3>3 DEF Till
      <4>2. Sid("till") \in Sessions /\ CartFor(Sid("till")) = cartOf[Sid("till")]
          BY <1>0, <3>3 DEF CartFor, Nothing
      <4>3. Sid("till")' = Sid("till") /\ delivery'[Sid("till")] = Settled(till.step)
          BY <1>0, <3>1, <3>3, <4>2 DEF Sid
      <4>4. CASE order # NoOrder
          BY <1>2, <1>3, <3>1, <3>3, <4>1, <4>4
      <4>5. CASE order = NoOrder /\ till.step = "address"
          BY <1>6, <3>1, <4>1, <4>5
      <4>6. CASE order = NoOrder /\ till.step = "shipping"
        <5>1. till'.asking.cart = cartOf[Sid("till")]
            BY <4>1, <4>2, SlotShapes
        <5>2. Fresh(till.asking.cart)'
            BY <3>1, <4>3, <4>6, <5>1 DEF Fresh, Settled
        <5>3. QED
            BY <3>1, <4>1, <4>6, <5>2 DEF Delivered
      <4>7. CASE order = NoOrder /\ till.step = "payment"
        <5>1. delivery'[Sid("till")] = delivery[Sid("till")] /\ moved' = moved
          <6>1. Settled(till.step) = delivery[Sid("till")]
              BY <4>7 DEF Settled
          <6>2. moved' = moved
              BY <3>3, <4>7 DEF TypeOK
          <6>3. QED
              BY <4>3, <6>1, <6>2
        <5>2. Fresh(till.total)'
            BY <1>1, <3>1, <4>1, <4>3, <4>7, <5>1 DEF Fresh
        <5>3. QED
            BY <3>1, <4>1, <4>7, <5>2 DEF Delivered
      <4>8. till.step \in {"address", "shipping", "payment"}
          BY <1>0 DEF Till
      <4>9. QED
          BY <4>4, <4>5, <4>6, <4>7, <4>8
    <3>4. QED
        BY <2>3, <3>2, <3>3 DEF ServeSubmit
  <2>4. CASE SubmitAnswered
    <3>1. UNCHANGED <<order, visit, cartVars>>
        BY <2>4 DEF SubmitAnswered
    <3>2. PICK got \in Outcomes(till.asking) :
            AddressAnswered(got) \/ ShippingAnswered(got) \/ PaymentStarted(got)
        BY <2>4 DEF SubmitAnswered
    <3>3. CASE AddressAnswered(got)
      <4>1. /\ till'.total = till.total /\ till'.asking = Idle /\ till.step = "address"
            /\ till'.step \in {"address", "shipping"}
          BY <1>0, <3>3 DEF AddressAnswered, Till
      <4>2. order = NoOrder
          BY <1>2, <4>1
      <4>3. QED
          BY <3>1, <4>1, <4>2, SlotShapes DEF Delivered
    <3>4. CASE ShippingAnswered(got) /\ got = Nothing
      <4>1. till'.total = till.total /\ till'.asking = Idle /\ till'.step = till.step
          BY <1>0, <3>4 DEF ShippingAnswered, Till
      <4>2. QED
          BY <1>5, <3>1, <4>1, SlotShapes
    <3>5. CASE ShippingAnswered(got) /\ got # Nothing
      <4>1. /\ till.step = "shipping" /\ till'.total = got /\ till'.asking = Asked
            /\ till'.step = "payment"
          BY <1>0, <3>5 DEF ShippingAnswered, Till
      <4>2. got = till.asking.cart
          BY <3>2, <3>5 DEF Outcomes
      <4>3. order = NoOrder
          BY <1>2, <4>1
      <4>4. Fresh(got)
          BY <1>1, <3>5, <4>1, <4>2, <4>3
      <4>5. Fresh(till.total)'
          BY <3>1, <4>1, <4>4 DEF Fresh, Sid, cartVars
      <4>6. QED
          BY <3>1, <4>1, <4>3, <4>5 DEF Delivered
    <3>6. CASE PaymentStarted(got)
      <4>1. till'.total = till.total /\ till'.asking = Idle /\ till'.step = till.step
          BY <1>0, <3>6 DEF PaymentStarted, Till
      <4>2. QED
          BY <1>5, <3>1, <4>1, SlotShapes
    <3>7. QED
        BY <3>2, <3>3, <3>4, <3>5, <3>6
  <2>5. CASE Pay
    <3>1. /\ till.widget = "open" /\ order = NoOrder /\ UNCHANGED <<till, moved>>
          /\ order' = [sid |-> Sid("till"), cart |-> cartOf[Sid("till")],
                        delivery |-> delivery[Sid("till")]]
        BY <2>5 DEF Pay
    <3>2. till.step = "payment"
        BY <3>1 DEF Totalled
    <3>3. Fresh(till.total)
        BY <1>1, <3>1, <3>2
    <3>4. order'.cart = cartOf[Sid("till")] /\ order'.delivery = delivery[Sid("till")]
        BY <3>1
    <3>5. order'.delivery = "method" /\ (order'.cart = till'.total \/ moved')
        BY <3>1, <3>3, <3>4 DEF Fresh
    <3>6. order'.delivery # NoOrder.delivery
        BY <3>5 DEF NoOrder
    <3>7. QED
        BY <3>5, <3>6 DEF Delivered
  <2>6. CASE Redirect
    <3>1. order # NoOrder /\ UNCHANGED <<order, moved>>
        BY <2>6 DEF Redirect, serviceVars, cartVars
    <3>2. till'.total = till.total
        BY <1>0, <2>6 DEF Redirect, Till
    <3>3. QED
        BY <1>3, <3>1, <3>2
  <2>7. QED
      BY <1>9, <2>1, <2>2, <2>3, <2>4, <2>5, <2>6 DEF TillStep
<1>10. CASE UNCHANGED vars
    BY <1>5, <1>10 DEF vars, serviceVars, tillVars
<1>11. QED
    BY <1>7, <1>8, <1>9, <1>10, StepIsOfATab

(***************************************************************************)
(* The summary and the panel                                               *)
(***************************************************************************)

\* An idle request is Idle, as one that is not served carries no cart.
LEMMA IdleSlots ==
    ASSUME TypeOK, Numbered
    PROVE  /\ shop.first.at = "idle" => shop.first = Idle
           /\ \A p \in Products : adding[p].at = "idle" => adding[p] = Idle
           /\ ~AddsOut => NoAdds
<1>1. \A slot \in Slots : slot.at = "idle" /\ slot.cart = Nothing => slot = Idle
    BY DEF Slots, Idle, Slot
<1>2. shop.first \in Slots /\ \A p \in Products : adding[p] \in Slots
    BY DEF TypeOK, Shop
<1>3. QED
    BY <1>1, <1>2 DEF Numbered, AddsOut, NoAdds

\* What the last event of the feed carries, as an event is added or handled.
LEMMA FeedSteps ==
    ASSUME NEW feed \in Seq(Moves), NEW event \in Moves
    PROVE  /\ Append(feed, event) \in Seq(Moves)
           /\ Len(Append(feed, event)) = Len(feed) + 1
           /\ Append(feed, event)[Len(feed) + 1] = event
           /\ \A i \in 1..Len(feed) : Append(feed, event)[i] = feed[i]
           /\ Append(feed, event) # << >>
           /\ feed # << >> => /\ Tail(feed) \in Seq(Moves)
                              /\ Len(Tail(feed)) = Len(feed) - 1
                              /\ Len(feed) >= 1
                              /\ Head(feed) = feed[1]
                              /\ \A i \in 1..Len(feed) - 1 : Tail(feed)[i] = feed[i + 1]
                              /\ Tail(feed) = << >> <=> Len(feed) = 1
           /\ Len(feed) \in Nat
           /\ feed = << >> <=> Len(feed) = 0
<1>1. Len(feed) \in Nat /\ (feed = << >> <=> Len(feed) = 0)
    BY EmptySeq, LenProperties
<1>2. /\ Append(feed, event) \in Seq(Moves)
      /\ Len(Append(feed, event)) = Len(feed) + 1
      /\ Append(feed, event)[Len(feed) + 1] = event
      /\ \A i \in 1..Len(feed) : Append(feed, event)[i] = feed[i]
    BY AppendProperties
<1>3. Append(feed, event) # << >>
    BY <1>1, <1>2, EmptySeq
<1>4. ASSUME feed # << >>
      PROVE  /\ Tail(feed) \in Seq(Moves)
             /\ Len(Tail(feed)) = Len(feed) - 1
             /\ Len(feed) >= 1
             /\ Head(feed) = feed[1]
             /\ \A i \in 1..Len(feed) - 1 : Tail(feed)[i] = feed[i + 1]
             /\ Tail(feed) = << >> <=> Len(feed) = 1
  <2>1. /\ Tail(feed) \in Seq(Moves)
        /\ Len(Tail(feed)) = Len(feed) - 1
        /\ \A i \in 1..Len(feed) - 1 : Tail(feed)[i] = feed[i + 1]
        /\ Head(feed) = feed[1]
      BY <1>4, HeadTailProperties
  <2>2. Tail(feed) = << >> <=> Len(Tail(feed)) = 0
      BY <2>1, EmptySeq
  <2>3. QED
      BY <1>1, <1>4, <2>1, <2>2
<1>5. QED
    BY <1>1, <1>2, <1>3, <1>4

LEMMA OneAtATimeKept ==
    ASSUME TypeOK, Numbered, Alive, OneAtATime, [Next]_vars
    PROVE  OneAtATime'
<1> DEFINE Good == Apart /\ InOrder /\ Levelled
<1> SUFFICES ASSUME ~lost', ~crossed'
             PROVE  Good'
    BY DEF OneAtATime
<1>0. /\ shop \in Shop /\ shop.feed \in Seq(Moves) /\ shop.first \in Slots /\ shop.panel \in Carts
      /\ adding \in [Products -> Slots] /\ visit \in [Tabs -> Visit]
      /\ cartOf \in [Sessions -> Nat] /\ writes \in Nat /\ "shop" \in Tabs
    BY DEF TypeOK, Shop, Tabs
<1>1. ~lost /\ ~crossed /\ Apart /\ InOrder /\ Levelled
  <2>1. ~lost /\ ~crossed
      BY HistoryGrows DEF vars, historyVars
  <2>2. QED
      BY <2>1 DEF OneAtATime
<1>n. /\ \A cart \in Nat : cart # Nothing
      /\ Idle.at = "idle" /\ Idle.cart = Nothing /\ Asked.at = "asked" /\ Asked.cart = Nothing
      /\ \A cart : Served(cart).at = "served" /\ Served(cart).cart = cart
      /\ Nothing \in Carts
    BY SlotShapes DEF Nothing, Carts
\* The shop is ready whenever something of it is out.
<1>2. /\ shop.first # Idle \/ shop.replying \/ (\E p \in Products : adding[p] # Idle) => Ready("shop")
      /\ Ready("shop") => Sid("shop") \in live /\ Sid("shop") \in Sessions
  <2>1. NewShop.first = Idle /\ NewShop.replying = FALSE
      BY DEF NewShop
  <2>2. Ready("shop") => Sid("shop") \in live
      BY <1>0, <1>1 DEF Alive, Ready
  <2>3. QED
      BY <1>1, <2>1, <2>2 DEF Apart, NoAdds, TypeOK
\* A step that leaves the shop as it is; the cart may have been paid for.
<1>3. ASSUME UNCHANGED <<shop, adding>>, visit'["shop"] = visit["shop"],
             cartOf'[Sid("shop")] \in {cartOf[Sid("shop")], 0}
      PROVE  Good'
    BY <1>1, <1>3 DEF Apart, InOrder, Levelled, Coming, Level, NoAdds, Sid, Ready
\* The page is loaded, and ready.
<1>4. ASSUME ClearShop, visit'["shop"].step # "ready"
      PROVE  Good'
  <2>1. shop' = NewShop /\ NoAdds'
      BY <1>4 DEF ClearShop, NoAdds
  <2>2. /\ NewShop.first = Idle /\ NewShop.replying = FALSE /\ NewShop.feed = << >>
        /\ NewShop.staged = FALSE
      BY DEF NewShop
  <2>3. Len(<< >>) = 0 /\ 1..0 = {}
      BY EmptySeq
  <2>4. QED
      BY <1>4, <2>1, <2>2, <2>3 DEF Apart, InOrder, Levelled, NoAdds, Ready
<1>5. ASSUME visit["shop"].step # "ready", NEW sid \in Sessions, Arrive("shop", sid) PROVE Good'
  <2>1. shop = NewShop /\ NoAdds /\ UNCHANGED adding
      BY <1>1, <1>5 DEF Apart, Ready, Arrive
  <2>2. shop' = [NewShop EXCEPT !.first = Asked]
      BY <1>5, <2>1 DEF Arrive, NoSession, Sessions
  <2>3. /\ shop'.first = Asked /\ shop'.replying = FALSE /\ shop'.feed = << >>
        /\ shop'.staged = FALSE
      BY <2>2 DEF NewShop
  <2>4. Len(<< >>) = 0 /\ 1..0 = {}
      BY EmptySeq
  <2>5. (Ready("shop"))'
      BY <1>0, <1>5 DEF Arrive, Ready
  <2>6. Asked # Idle
      BY SlotShapes
  <2>7. NoAdds'
      BY <2>1 DEF NoAdds
  <2>8. Apart'
      BY <2>3, <2>5, <2>6, <2>7 DEF Apart, NoAdds
  <2>9. InOrder'
      BY <2>3, <2>4 DEF InOrder
  <2>10. Levelled'
      BY <1>n, <2>3, <2>6, <2>7 DEF Levelled, NoAdds
  <2>11. QED
      BY <2>8, <2>9, <2>10
<1>6. CASE VisitStep
  <2>1. ASSUME NEW t \in Tabs, Open(t) PROVE Good'
    <3>1. visit' = [visit EXCEPT ![t] = Mounted(stored)] /\ UNCHANGED cartOf
        BY <2>1 DEF Open, Mount, serviceVars, cartVars
    <3>2. CASE t = "shop"
      <4>1. visit'["shop"].step # "ready"
          BY <1>0, <3>1, <3>2 DEF Mounted
      <4>2. QED
          BY <1>4, <2>1, <3>2, <4>1 DEF Open
    <3>3. CASE t # "shop"
      <4>1. UNCHANGED <<shop, adding>>
          BY <2>1, <3>3 DEF Open, shopVars
      <4>2. visit'["shop"] = visit["shop"]
          BY <1>0, <3>1, <3>3
      <4>3. QED
          BY <1>3, <3>1, <4>1, <4>2
    <3>4. QED
        BY <3>2, <3>3
  <2>2. ASSUME NEW t \in Tabs, NEW sid \in Sessions, Arrive(t, sid), visit[t].step # "ready",
               UNCHANGED cartOf
        PROVE  Good'
    <3>1. CASE t = "shop"
        BY <1>5, <2>2, <3>1
    <3>2. CASE t # "shop"
      <4>1. shop' = [shop EXCEPT !.first = shop.first] /\ UNCHANGED adding
          BY <2>2, <3>2 DEF Arrive
      <4>2. shop' = shop
          BY <1>0, <4>1 DEF Shop
      <4>3. visit'["shop"] = visit["shop"]
          BY <1>0, <2>2, <3>2 DEF Arrive
      <4>4. QED
          BY <1>3, <2>2, <4>1, <4>2, <4>3
    <3>3. QED
        BY <3>1, <3>2
  <2>3. ASSUME NEW t \in Tabs, CheckSession(t) PROVE Good'
      BY <2>2, <2>3 DEF CheckSession, serviceVars, cartVars, TypeOK
  <2>4. ASSUME NEW t \in Tabs, StartSession(t) PROVE Good'
    <3>1. issued + 1 \in Sessions /\ Arrive(t, issued + 1) /\ visit[t].step # "ready" /\ UNCHANGED cartOf
        BY <2>4, StorefrontAssumption DEF StartSession, TypeOK, Sessions, cartVars
    <3>2. QED
        BY <2>2, <3>1
  <2>5. ASSUME NEW s \in Sessions, Expire(s) PROVE FALSE
      BY <2>5 DEF Expire
  <2>6. QED
      BY <1>6, <2>1, <2>3, <2>4, <2>5 DEF VisitStep
<1>7. CASE CarouselStep \/ UNCHANGED vars
    BY <1>3, <1>7 DEF CarouselStep, Toggle, Folded, DetailsAnswered, CarouselRest, vars, serviceVars, cartVars,
                      shopVars
<1>8. CASE TillStep
  <2>1. UNCHANGED <<shop, adding>>
      BY <1>8, TillStepFrame
  <2>2. visit'["shop"] = visit["shop"]
      BY <1>0, <1>8, TillStepFrame DEF Redirect, Mount
  <2>3. cartOf'[Sid("shop")] \in {cartOf[Sid("shop")], 0}
    <3>1. CASE UNCHANGED cartOf
        BY <3>1
    <3>2. CASE Pay
        BY <1>0, <3>2 DEF Pay
    <3>3. CASE Write(Sid("shop"))
        BY <1>8, <3>3, TillStepFrame, <1>0 DEF Write
    <3>4. QED
        BY <3>1, <3>2, <3>3, CartStep
  <2>4. QED
      BY <1>3, <2>1, <2>2, <2>3
\* The shop's own steps: the visit is what it was.
<1>9. CASE PanelStep
  <2>0. UNCHANGED visit /\ (Sid("shop"))' = Sid("shop") /\ (Ready("shop"))' = Ready("shop")
      BY <1>9, ShopStepFrame DEF Sid, Ready
  <2>1. CASE ServeFirstRead
    <3>1. shop.first = Asked \/ shop.first # Idle
        BY <1>n, <2>1 DEF ServeFirstRead
    <3>2. shop.first # Idle /\ NoAdds /\ ~shop.staged /\ ~shop.replying /\ Ready("shop")
        BY <1>1, <1>2, <1>n, <2>1 DEF ServeFirstRead, Apart
    <3>3. CartFor(Sid("shop")) = cartOf[Sid("shop")] /\ cartOf[Sid("shop")] \in Nat
        BY <1>0, <1>2, <3>2 DEF CartFor
    <3>4. /\ shop'.first = Served(cartOf[Sid("shop")]) /\ shop'.panel = shop.panel
          /\ shop'.staged = shop.staged /\ shop'.summary = shop.summary
          /\ shop'.replying = shop.replying /\ shop'.feed = shop.feed
          /\ UNCHANGED <<adding, cartOf>>
        BY <1>0, <2>1, <3>3 DEF ServeFirstRead, serviceVars, cartVars, Shop
    <3>5. shop'.first # Idle
        BY <1>n, <3>4
    <3>6. Apart'
        BY <2>0, <3>2, <3>4 DEF Apart, NoAdds
    <3>7. InOrder'
        BY <1>1, <3>4 DEF InOrder
    <3>8. Levelled'
        BY <1>n, <2>0, <3>2, <3>3, <3>4, <3>5 DEF Levelled, NoAdds, Level
    <3>9. QED
        BY <3>6, <3>7, <3>8
  <2>2. CASE FirstReadAnswered
    <3>1. PICK got \in Outcomes(shop.first) :
            /\ shop' = [shop EXCEPT !.first = Idle, !.panel = IF got = Nothing THEN shop.panel ELSE got]
            /\ lost' = (lost \/ Missed(shop.first, got))
        BY <2>2 DEF FirstReadAnswered
    <3>2. ~Missed(shop.first, got)
        BY <3>1, Zenon
    <3>3. shop.first.at = "served" /\ got = shop.first.cart
        BY <3>1, <3>2 DEF Outcomes, Missed
    <3>4. shop.first # Idle /\ NoAdds /\ ~shop.staged /\ ~shop.replying /\ Ready("shop")
        BY <1>1, <1>2, <1>n, <3>3 DEF Apart
    <3>5. got # Nothing /\ Level(got) /\ shop.feed = << >>
        BY <1>1, <3>3, <3>4 DEF Levelled, InOrder
    <3>6. /\ shop'.first = Idle /\ shop'.panel = got
          /\ shop'.staged = shop.staged /\ shop'.replying = shop.replying /\ shop'.feed = shop.feed
          /\ UNCHANGED <<adding, cartOf>>
        BY <1>0, <2>2, <3>1, <3>5 DEF FirstReadAnswered, serviceVars, cartVars, Shop
    <3>7. Apart'
        BY <2>0, <3>4, <3>6 DEF Apart, NoAdds
    <3>8. InOrder'
        BY <3>4, <3>5, <3>6, EmptySeq DEF InOrder
    <3>9. Levelled'
        BY <1>n, <2>0, <3>4, <3>5, <3>6 DEF Levelled, NoAdds, Level, Coming
    <3>10. QED
        BY <3>7, <3>8, <3>9
  <2>3. ASSUME NEW from \in Askers, Ask(from) PROVE Good'
    <3>1. crossed' = (crossed \/ AddsOut \/ shop.first.at # "idle")
        BY <2>3 DEF Ask
    <3>2. ~AddsOut /\ shop.first.at = "idle"
        BY <3>1, Zenon
    <3>3. NoAdds /\ shop.first = Idle
        BY <3>2, IdleSlots
    <3>4. /\ Ready("shop") /\ ~shop.replying
          /\ UNCHANGED <<adding, cartOf>>
          /\ shop'.first = shop.first /\ shop'.panel = shop.panel /\ shop'.staged = shop.staged
          /\ shop'.summary = shop.summary /\ shop'.replying = TRUE /\ shop'.feed = shop.feed
        BY <1>0, <2>3 DEF Ask, serviceVars, cartVars, Shop
    <3>5. Apart'
        BY <2>0, <3>3, <3>4 DEF Apart, NoAdds
    <3>6. InOrder'
        BY <1>1, <3>4 DEF InOrder
    <3>7. Levelled'
        BY <1>1, <2>0, <3>3, <3>4 DEF Levelled, NoAdds, Level, Coming
    <3>8. QED
        BY <3>5, <3>6, <3>7
  \* While a reply streams, nothing else is out.
  <2>4. shop.replying => shop.first = Idle /\ NoAdds /\ Ready("shop") /\ Level(Coming)
    <3>1. ASSUME shop.replying PROVE shop.first = Idle /\ NoAdds /\ Ready("shop")
        BY <1>1, <1>2, <3>1 DEF Apart
    <3>2. ASSUME shop.replying PROVE Level(Coming)
        BY <1>1, <1>n, <3>1, <3>2 DEF Levelled, NoAdds
    <3>3. QED
        BY <3>1, <3>2
  <2>5. ASSUME NEW event \in Moves, shop.replying, UNCHANGED adding,
               shop' = [shop EXCEPT !.feed = Append(shop.feed, event)],
               event.type = "checkout" => event.cart = Coming,
               event.cart = cartOf'[Sid("shop")]
        PROVE  Good'
    <3>1. /\ shop'.first = shop.first /\ shop'.panel = shop.panel /\ shop'.staged = shop.staged
          /\ shop'.summary = shop.summary /\ shop'.replying = shop.replying
          /\ shop'.feed = Append(shop.feed, event)
        BY <1>0, <2>5 DEF Shop
    <3> DEFINE m == Len(shop.feed)
    <3>2. /\ Len(shop'.feed) = m + 1 /\ shop'.feed # << >> /\ m \in Nat
          /\ shop'.feed[m + 1] = event
          /\ \A i \in 1..m : shop'.feed[i] = shop.feed[i]
          /\ shop.feed = << >> <=> m = 0
        BY <1>0, <2>5, <3>1, FeedSteps
    <3>3. Coming = IF m = 0 THEN shop.panel ELSE shop.feed[m].cart
        BY <3>2 DEF Coming
    <3>4. \A i \in 1..m : shop.feed[i].type = "checkout" =>
            shop.feed[i].cart = IF i = 1 THEN shop.panel ELSE shop.feed[i - 1].cart
        BY <1>1 DEF InOrder
    <3> HIDE DEF m
    <3>5. Apart'
        BY <2>0, <2>4, <2>5, <3>1 DEF Apart, NoAdds
    <3>6. \A i \in 1..m + 1 : shop'.feed[i].type = "checkout" =>
            shop'.feed[i].cart = IF i = 1 THEN shop'.panel ELSE shop'.feed[i - 1].cart
      <4>1. ASSUME NEW i \in 1..m PROVE shop'.feed[i].type = "checkout" =>
              shop'.feed[i].cart = IF i = 1 THEN shop'.panel ELSE shop'.feed[i - 1].cart
        <5>1. shop'.feed[i] = shop.feed[i] /\ (i # 1 => shop'.feed[i - 1] = shop.feed[i - 1])
            BY <3>2, <4>1
        <5>2. QED
            BY <3>1, <3>4, <4>1, <5>1
      <4>2. event.type = "checkout" =>
              event.cart = IF m + 1 = 1 THEN shop'.panel ELSE shop'.feed[m].cart
        <5>1. CASE m = 0
            BY <2>5, <3>1, <3>3, <5>1
        <5>2. CASE m # 0
            BY <2>5, <3>2, <3>3, <5>2
        <5>3. QED
            BY <5>1, <5>2
      <4>3. \A i \in 1..m + 1 : i \in 1..m \/ i = m + 1
          BY <3>2
      <4>4. (m + 1) - 1 = m
          BY <3>2
      <4>5. QED
          BY <3>2, <4>1, <4>2, <4>3, <4>4
    <3>7. InOrder'
        BY <1>1, <2>5, <3>1, <3>2, <3>6 DEF InOrder
    <3>8. (Coming)' = event.cart
        BY <3>2 DEF Coming
    <3>9. Levelled'
        BY <1>n, <2>0, <2>4, <2>5, <3>1, <3>8 DEF Levelled, NoAdds, Level
    <3>10. QED
        BY <3>5, <3>7, <3>9
  <2>6. CASE AgentWrites
    <3> DEFINE event == [type |-> "cart_update", cart |-> writes + 1]
    <3>1. event \in Moves /\ event.type = "cart_update" /\ event.cart = writes + 1
        BY <1>0 DEF Moves
    <3>2. /\ shop.replying /\ UNCHANGED adding /\ Write(Sid("shop"))
          /\ shop' = [shop EXCEPT !.feed = Append(shop.feed, event)]
        BY <2>6 DEF AgentWrites
    <3> HIDE DEF event
    <3>3. cartOf'[Sid("shop")] = writes + 1
        BY <1>2, <2>4, <3>2, CartsOnlyWritten
    <3>4. QED
        BY <2>5, <3>1, <3>2, <3>3
  <2>7. CASE AgentStages
    <3> DEFINE event == [type |-> "checkout", cart |-> CartFor(Sid("shop"))]
    <3>1. /\ shop.replying /\ UNCHANGED <<adding, cartOf>>
          /\ CartFor(Sid("shop")) > 0
          /\ shop' = [shop EXCEPT !.feed = Append(shop.feed, event)]
        BY <2>7 DEF AgentStages, serviceVars, cartVars
    <3>2. CartFor(Sid("shop")) = cartOf[Sid("shop")] /\ cartOf[Sid("shop")] \in Nat
        BY <1>0, <1>2, <2>4, <3>1 DEF CartFor
    <3>3. event \in Moves /\ event.cart = cartOf[Sid("shop")]
        BY <3>2 DEF Moves
    <3> HIDE DEF event
    <3>4. cartOf[Sid("shop")] = Coming
        BY <2>4, <3>1, <3>2 DEF Level
    <3>5. QED
        BY <2>0, <2>5, <3>1, <3>3, <3>4
  <2>8. CASE ShopEvent
    <3> DEFINE m == Len(shop.feed)
               rest == [shop EXCEPT !.feed = Tail(shop.feed)]
    <3>1. /\ m \in Nat /\ m >= 1 /\ shop.feed # << >> /\ UNCHANGED <<adding, cartOf>>
          /\ Tail(shop.feed) \in Seq(Moves)
          /\ Len(Tail(shop.feed)) = m - 1 /\ Head(shop.feed) = shop.feed[1]
          /\ \A i \in 1..m - 1 : Tail(shop.feed)[i] = shop.feed[i + 1]
          /\ Tail(shop.feed) = << >> <=> m = 1
          /\ shop.feed[1] \in Moves
      <4>1. shop.feed # << >> /\ UNCHANGED <<adding, cartOf>>
          BY <2>8 DEF ShopEvent, Staged, serviceVars, cartVars
      <4>2. \E event : event \in Moves
        <5>1. [type |-> "checkout", cart |-> 0] \in Moves
            BY DEF Moves
        <5>2. QED
            BY <5>1
      <4>3. PICK event : event \in Moves
          BY <4>2
      <4>4. Head(shop.feed) \in Moves
          BY <1>0, <4>1, HeadTailProperties
      <4>5. QED
          BY <1>0, <4>1, <4>3, <4>4, FeedSteps
    <3>2. /\ rest \in Shop /\ rest.feed = Tail(shop.feed) /\ rest.panel = shop.panel
          /\ rest.first = shop.first /\ rest.replying = shop.replying
      BY <1>0, <3>1 DEF Shop
    <3>3. shop' = IF shop.feed[1].type = "cart_update"
                    THEN CartUpdate(rest, shop.feed[1].cart)
                    ELSE [rest EXCEPT !.staged = TRUE, !.summary = shop.feed[1].cart]
        BY <2>8, <3>1 DEF ShopEvent, Staged
    <3>4. /\ shop.replying /\ shop.first = Idle /\ NoAdds /\ Ready("shop") /\ Level(Coming)
        BY <1>1, <2>4, <3>1 DEF InOrder
    <3>5. \A i \in 1..m : shop.feed[i].type = "checkout" =>
            shop.feed[i].cart = IF i = 1 THEN shop.panel ELSE shop.feed[i - 1].cart
        BY <1>1 DEF InOrder
    <3>6. Coming = shop.feed[m].cart
        BY <3>1 DEF Coming
    <3> HIDE DEF m, rest
    <3>7. /\ shop'.feed = Tail(shop.feed) /\ shop'.first = Idle /\ shop'.replying = TRUE
          /\ shop'.panel = shop.feed[1].cart
          /\ shop'.staged => shop'.summary = shop'.panel
      <4>1. shop.feed[1].cart \in Carts
          BY <3>1 DEF Moves, Carts
      <4>2. CASE shop.feed[1].type = "cart_update"
          BY <3>2, <3>3, <3>4, <4>1, <4>2, CartUpdateTyped
      <4>3. CASE shop.feed[1].type # "cart_update"
        <5>1. shop.feed[1].type = "checkout" /\ 1 \in 1..m
            BY <3>1, <4>3 DEF Moves
        <5>2. shop.feed[1].cart = shop.panel
            BY <3>5, <5>1
        <5>3. shop' = [rest EXCEPT !.staged = TRUE, !.summary = shop.feed[1].cart]
            BY <3>3, <4>3
        <5>4. /\ shop'.feed = rest.feed /\ shop'.first = rest.first /\ shop'.replying = rest.replying
              /\ shop'.panel = rest.panel /\ shop'.summary = shop.feed[1].cart
            BY <3>2, <5>3 DEF Shop
        <5>5. QED
            BY <3>2, <3>4, <5>2, <5>4
      <4>4. QED
          BY <4>2, <4>3
    <3>8. \A i \in 1..m - 1 : shop'.feed[i].type = "checkout" =>
            shop'.feed[i].cart = IF i = 1 THEN shop'.panel ELSE shop'.feed[i - 1].cart
      <4> SUFFICES ASSUME NEW i \in 1..m - 1, shop'.feed[i].type = "checkout"
                   PROVE  shop'.feed[i].cart = IF i = 1 THEN shop'.panel ELSE shop'.feed[i - 1].cart
          OBVIOUS
      <4>1. i + 1 \in 1..m /\ i + 1 # 1 /\ (i + 1) - 1 = i /\ shop'.feed[i] = shop.feed[i + 1]
          BY <3>1, <3>7
      <4>2. shop'.feed[i].cart = shop.feed[i].cart
          BY <3>5, <4>1
      <4>3. i # 1 => shop'.feed[i - 1] = shop.feed[i]
          BY <3>1, <3>7
      <4>4. QED
          BY <3>7, <4>2, <4>3
    <3>9. (Coming)' = shop.feed[m].cart
      <4>1. CASE m = 1
          BY <3>1, <3>7, <4>1 DEF Coming
      <4>2. CASE m # 1
        <5>1. shop'.feed # << >> /\ Len(shop'.feed) = m - 1 /\ m - 1 \in 1..m - 1 /\ (m - 1) + 1 = m
            BY <3>1, <3>7, <4>2
        <5>2. shop'.feed[m - 1] = shop.feed[m]
            BY <3>1, <3>7, <5>1
        <5>3. QED
            BY <5>1, <5>2 DEF Coming
      <4>3. QED
          BY <4>1, <4>2
    <3>10. Apart'
        BY <2>0, <3>1, <3>4, <3>7 DEF Apart, NoAdds
    <3>11. InOrder'
        BY <3>1, <3>7, <3>8 DEF InOrder
    <3>12. Levelled'
        BY <1>n, <2>0, <3>1, <3>4, <3>6, <3>7, <3>9 DEF Levelled, NoAdds, Level
    <3>13. QED
        BY <3>10, <3>11, <3>12
  <2>9. CASE ReplyEnds
    <3>1. lost' = (lost \/ shop.feed # << >>) /\ shop.replying
        BY <2>9 DEF ReplyEnds
    <3>2. shop.feed = << >>
        BY <3>1, Zenon
    <3>3. /\ shop'.feed = << >> /\ shop'.replying = FALSE /\ shop'.first = shop.first
          /\ shop'.panel = shop.panel /\ shop'.staged = shop.staged /\ shop'.summary = shop.summary
          /\ UNCHANGED <<adding, cartOf>>
        BY <1>0, <2>9 DEF ReplyEnds, serviceVars, cartVars, Shop
    <3>4. Apart'
        BY <2>0, <2>4, <3>1, <3>3 DEF Apart, NoAdds
    <3>5. InOrder'
        BY <1>1, <3>2, <3>3 DEF InOrder
    <3>6. Levelled'
        BY <1>1, <2>0, <3>2, <3>3 DEF Levelled, Level, Coming
    <3>7. QED
        BY <3>4, <3>5, <3>6
  \* While an Add button waits, nothing else is out.
  <2>10. ASSUME NEW p \in Products, adding[p] # Idle
         PROVE  /\ Ready("shop") /\ shop.first = Idle /\ ~shop.replying /\ shop.feed = << >>
                /\ \A q \in Products : q # p => adding[q] = Idle
    <3>1. Ready("shop") /\ ~NoAdds
        BY <1>2, <2>10 DEF NoAdds
    <3>2. shop.first = Idle /\ ~shop.replying /\ \A q \in Products : q # p => adding[q] = Idle
        BY <1>1, <2>10, <3>1 DEF Apart
    <3>3. QED
        BY <1>1, <3>1, <3>2 DEF InOrder
  <2>11. ASSUME NEW p \in Products, Press(p) PROVE Good'
    <3>1. crossed' = (crossed \/ shop.replying \/ AddsOut \/ shop.first.at # "idle")
        BY <2>11 DEF Press
    <3>2. ~shop.replying /\ ~AddsOut /\ shop.first.at = "idle"
        BY <3>1, Zenon
    <3>3. NoAdds /\ shop.first = Idle
        BY <3>2, IdleSlots
    <3>4. /\ Ready("shop") /\ UNCHANGED <<shop, cartOf>>
          /\ \A q \in Products : adding'[q] = IF q = p THEN Asked ELSE adding[q]
        BY <1>0, <2>11 DEF Press, serviceVars, cartVars
    <3>5. \A q \in Products : adding'[q].cart = Nothing /\ (q # p => adding'[q] = Idle)
        BY <1>n, <3>3, <3>4 DEF NoAdds
    <3>6. Apart'
        BY <2>0, <3>2, <3>3, <3>4, <3>5 DEF Apart, NoAdds
    <3>7. InOrder'
        BY <1>1, <3>4 DEF InOrder
    <3>8. Levelled'
        BY <1>1, <1>n, <2>0, <3>3, <3>4, <3>5 DEF Levelled, NoAdds, Level, Coming
    <3>9. QED
        BY <3>6, <3>7, <3>8
  <2>12. ASSUME NEW p \in Products, ServeAdd(p) PROVE Good'
    <3>1. adding[p].at = "asked" /\ adding[p] # Idle /\ adding[p].cart = Nothing
        BY <1>n, <2>12 DEF ServeAdd, Numbered
    <3>2. /\ Ready("shop") /\ shop.first = Idle /\ ~shop.replying /\ shop.feed = << >>
          /\ \A q \in Products : q # p => adding[q] = Idle
        BY <2>10, <3>1
    <3>3. UNCHANGED shop
        BY <2>12 DEF ServeAdd
    <3>4. PICK cart : /\ adding' = [adding EXCEPT ![p] = Served(cart)]
                      /\ \/ cart = writes + 1 /\ Write(Sid("shop"))
                         \/ cart = Nothing /\ UNCHANGED cartOf
        BY <2>12 DEF ServeAdd, serviceVars, cartVars
    <3>5. adding'[p].cart = cart /\ \A q \in Products : q # p => adding'[q] = Idle
        BY <1>0, <1>n, <3>2, <3>4
    <3>6. Apart'
        BY <2>0, <3>2, <3>3, <3>5 DEF Apart, NoAdds
    <3>7. InOrder'
        BY <1>1, <3>3 DEF InOrder
    <3>8. Levelled'
      <4>1. CASE cart = writes + 1 /\ Write(Sid("shop"))
        <5>1. cartOf'[Sid("shop")] = writes + 1 /\ writes + 1 # Nothing
            BY <1>0, <1>2, <1>n, <3>2, <4>1, CartsOnlyWritten
        <5>2. QED
            BY <1>n, <2>0, <3>2, <3>3, <3>5, <4>1, <5>1 DEF Levelled, Level
      <4>2. CASE cart = Nothing /\ UNCHANGED cartOf
        <5>1. Level(Coming)
            BY <1>1, <1>n, <3>1, <3>2 DEF Levelled
        <5>2. QED
            BY <1>n, <2>0, <3>2, <3>3, <3>5, <4>2, <5>1 DEF Levelled, Level, Coming
      <4>3. QED
          BY <3>4, <4>1, <4>2
    <3>9. QED
        BY <3>6, <3>7, <3>8
  <2>13. ASSUME NEW p \in Products, AddAnswered(p) PROVE Good'
    <3>1. PICK got \in Outcomes(adding[p]) :
            /\ shop' = IF got = Nothing THEN shop ELSE CartUpdate(shop, got)
            /\ lost' = (lost \/ Missed(adding[p], got))
        BY <2>13 DEF AddAnswered
    <3>2. ~Missed(adding[p], got)
        BY <3>1, Zenon
    <3>3. adding[p].at = "served" /\ got = adding[p].cart
        BY <3>1, <3>2 DEF Outcomes, Missed
    <3>4. adding[p] # Idle
        BY <1>n, <3>3
    <3>5. /\ Ready("shop") /\ shop.first = Idle /\ ~shop.replying /\ shop.feed = << >>
          /\ \A q \in Products : q # p => adding[q] = Idle
        BY <2>10, <3>4
    <3>6. NoAdds' /\ UNCHANGED cartOf
        BY <1>0, <2>13, <3>5 DEF AddAnswered, NoAdds, serviceVars, cartVars
    <3>7. CASE got = Nothing
      <4>1. UNCHANGED shop
          BY <3>1, <3>7
      <4>2. Level(Coming)
          BY <1>1, <1>n, <3>3, <3>5, <3>7 DEF Levelled
      <4>3. Apart'
          BY <2>0, <3>5, <3>6, <4>1 DEF Apart, NoAdds
      <4>4. InOrder'
          BY <1>1, <4>1 DEF InOrder
      <4>5. Levelled'
          BY <1>n, <2>0, <3>5, <3>6, <4>1, <4>2 DEF Levelled, NoAdds, Level, Coming
      <4>6. QED
          BY <4>3, <4>4, <4>5
    <3>8. CASE got # Nothing
      <4>1. got \in Carts
          BY <1>0, <3>3 DEF Slots
      <4>2. /\ shop'.panel = got /\ shop'.staged = FALSE /\ shop'.first = shop.first
            /\ shop'.replying = shop.replying /\ shop'.feed = shop.feed
          BY <1>0, <3>1, <3>8, <4>1, CartUpdateTyped
      <4>3. Level(got)
          BY <1>1, <3>3, <3>5, <3>8 DEF Levelled
      <4>4. Apart'
          BY <2>0, <3>5, <3>6, <4>2 DEF Apart, NoAdds
      <4>5. InOrder'
          BY <3>5, <4>2, EmptySeq DEF InOrder
      <4>6. Levelled'
          BY <1>n, <2>0, <3>5, <3>6, <4>2, <4>3 DEF Levelled, NoAdds, Level, Coming
      <4>7. QED
          BY <4>4, <4>5, <4>6
    <3>9. QED
        BY <3>7, <3>8
  <2>14. ASSUME NEW p \in Products, ButtonTimer(p) PROVE Good'
      BY <1>3, <2>0, <2>14 DEF ButtonTimer, serviceVars, cartVars
  <2>15. QED
      BY <1>9, <2>1, <2>2, <2>3, <2>6, <2>7, <2>8, <2>9, <2>11, <2>12, <2>13, <2>14 DEF PanelStep
<1>10. QED
    BY <1>6, <1>7, <1>8, <1>9, StepIsOfATab

(***************************************************************************)
(* The theorems                                                            *)
(***************************************************************************)

LEMMA InitGood == Init => IInv
<1> SUFFICES ASSUME Init PROVE IInv
    OBVIOUS
<1>1. TypeOK
    BY InitTyped
<1>2. /\ NewShop.first = Idle /\ NewShop.staged = FALSE /\ NewShop.replying = FALSE
      /\ NewShop.feed = << >>
      /\ NewTill.asking = Idle /\ NewTill.total = Nothing /\ NewTill.step = "address"
      /\ NewTill.widget = "none" /\ NewTill.page = "checkout" /\ NewTill.confirmed = "no"
      /\ NewCarousel.expanded = NoProduct /\ NewCarousel.rendered = NoProduct
      /\ NewCarousel.details = NoProduct
    BY DEF NewShop, NewTill, NewCarousel
<1>3. Idle.cart = Nothing /\ 0 # Nothing
    BY SlotShapes DEF Nothing
<1>4. Numbered
    BY <1>1, <1>2, <1>3 DEF Init, Numbered, TypeOK
<1>5. Alive
    BY DEF Init, Alive
<1>6. Known
    BY <1>2 DEF Init, Known, NoSession
<1>7. Totalled
    BY <1>2, <1>3 DEF Init, Totalled, Below, Ready, Tabs
<1>d. Delivered
    BY <1>2 DEF Init, Delivered
<1>8. OneAtATime
  <2>1. Len(<< >>) = 0 /\ 1..0 = {}
      BY EmptySeq
  <2>2. ~Ready("shop")
      BY DEF Init, Ready, Tabs
  <2>3. QED
      BY <1>2, <2>1, <2>2 DEF Init, OneAtATime, Apart, InOrder, Levelled, NoAdds
<1>9. DetailsAreOfTheirProduct
    BY <1>2 DEF Init, DetailsAreOfTheirProduct
<1>10. QED
    BY <1>1, <1>4, <1>5, <1>6, <1>7, <1>d, <1>8, <1>9 DEF IInv

LEMMA StepGood == IInv /\ [Next]_vars => IInv'
<1> SUFFICES ASSUME IInv, [Next]_vars PROVE IInv'
    OBVIOUS
<1> QED
    BY StepTyped, NumberedKept, AliveKept, KnownKept, TotalledKept, DeliveredKept,
       OneAtATimeKept, DetailsKept DEF IInv

LEMMA AlwaysGood == Spec => []IInv
BY InitGood, StepGood, PTL DEF Spec

\* Every state of both tabs, of the requests and of the service's carts has its type.
THEOREM TypeCorrect == Spec => []TypeOK
<1>1. IInv => TypeOK
    BY DEF IInv
<1>2. QED
    BY <1>1, AlwaysGood, PTL

\* useStoredSession gives a visitor one session, whatever is opened and loaded again, and the
\* confirmation is shown to whoever paid.
THEOREM OneVisitorHolds == Spec => []OneVisitor
<1>1. IInv => OneVisitor
    BY DEF IInv, Known, OneVisitor, Ready, Sid, TypeOK
<1>2. QED
    BY <1>1, AlwaysGood, PTL

\* An order comes after a total and has the delivery that was chosen, and it is of the cart that
\* was totalled unless the assistant or an Add button wrote that session's cart in between.
THEOREM ChargedAsShownHolds == Spec => []ChargedAsShown
<1>1. IInv => ChargedAsShown
    BY DEF IInv, Totalled, Delivered, ChargedAsShown
<1>2. QED
    BY <1>1, AlwaysGood, PTL

\* A staged summary is of the cart in the panel, as long as an Add button, a reply and the first
\* read keep apart and nothing is lost.
THEOREM SummaryHolds == Spec => []SummaryIsOfTheCart
<1>1. IInv => SummaryIsOfTheCart
    BY DEF IInv, OneAtATime, InOrder, SummaryIsOfTheCart, ViewSummary
<1>2. QED
    BY <1>1, AlwaysGood, PTL

\* Late details are never shown under another product.
THEOREM DetailsHold == Spec => []DetailsAreOfTheirProduct
<1>1. IInv => DetailsAreOfTheirProduct
    BY DEF IInv
<1>2. QED
    BY <1>1, AlwaysGood, PTL
===============================================================================
