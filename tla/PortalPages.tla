----------------------------- MODULE PortalPages -----------------------------
(***************************************************************************)
(* What the merchant portal's pages show, as functions of what they read.  *)
(* A read carries the change ledger and the set of changes whose writes    *)
(* the platform already shows; a written change ends one trait of one      *)
(* listing (a content update ends "poor"; a restock ends "low" and         *)
(* "sold_out").  A listing is one that is sold as it is: the alerts of a   *)
(* product with options name its variants.                                 *)
(***************************************************************************)
EXTENDS Integers, Sequences, FiniteSets, SequencesExt

CONSTANTS
    Listings,      \* the listings, in the order the search returns them
    Skus,          \* the listings, in the order of their skus
    Issues,        \* the open order issues, in order
    Changes,       \* the changes the agent may stage
    Traits,        \* the listings of each trait before any change is applied
    Fixes,         \* the listing and the trait each change is about
    Cover,         \* the days of cover of each listing
    LongCover,     \* more than any of them
    AlertCap,      \* alerts the service returns, 40 of them
    OverviewCap,   \* rows of a kind the overview carries
    RowCap         \* rows of the home page's queue

Elems(s) == {s[i] : i \in 1..Len(s)}
TraitNames == {"sold_out", "low", "slow", "poor", "paused"}

ASSUME PagesAssumption ==
    /\ Listings \in Seq(Elems(Listings)) /\ Issues \in Seq(Elems(Issues))
    /\ Skus \in Seq(Elems(Listings))
    /\ Traits \in [TraitNames -> SUBSET Elems(Listings)]
    /\ Fixes \in [Changes -> [listing : Elems(Listings), trait : TraitNames]]
    /\ LongCover \in Nat
    /\ Cover \in [Elems(Listings) -> 0..LongCover - 1]
    /\ AlertCap \in Nat
    /\ OverviewCap \in Nat
    /\ RowCap \in Nat \ {0}

First(s, n) == SubSeq(s, 1, IF n < Len(s) THEN n ELSE Len(s))
After(s, n) == SubSeq(s, n + 1, Len(s))

\* A filter: the items of s that are in T, and how many they are.
Among(s, T) == FlattenSeq([i \in 1..Len(s) |-> IF s[i] \in T THEN <<s[i]>> ELSE << >>])
Number(s, T) == Len(Among(s, T))

Ends(trait) == IF trait = "low" THEN {"low", "sold_out"} ELSE {trait}

\* The listings that have a trait once the changes in done are written.
Having(trait, done) ==
    Traits[trait] \ {Fixes[c].listing : c \in {d \in done : trait \in Ends(Fixes[d].trait)}}

(***************************************************************************)
(* The service's reads                                                     *)
(***************************************************************************)

\* _to_listing: only a published listing can be out of stock.
Status(l, done) ==
    CASE l \in Having("paused", done) -> "paused"
      [] l \in Having("sold_out", done) -> "out_of_stock"
      [] OTHER -> "active"

Alert(kind, l, done) == [kind |-> kind, id |-> l, out |-> l \in Having("sold_out", done),
                         visible |-> Status(l, done) = "active"]

\* The alerts of one listing: a short one may also be a slow mover, if there is any left.
AlertsOf(l, done) ==
    IF l \notin Having("low", done) THEN << >>
    ELSE <<Alert("low_stock", l, done)>> \o
         (IF l \in Having("slow", done) \ Having("sold_out", done)
            THEN <<Alert("slow_mover", l, done)>> ELSE << >>)

\* get_inventory_alerts: of the short skus in their order, as many as the service returns.
InventoryAlerts(done) ==
    First(FlattenSeq([i \in 1..Len(Skus) |-> AlertsOf(Skus[i], done)]), AlertCap)

Low(a) == a.kind = "low_stock"
Lows(alerts) == {a \in Elems(alerts) : Low(a)}
Slows(alerts) == {a \in Elems(alerts) : a.kind = "slow_mover"}

\* The low-stock alerts, the soonest to run out first.
LowStock(alerts) ==
    FlattenSeq([n \in 1..LongCover |-> Among(alerts, {a \in Lows(alerts) : Cover[a.id] = n - 1})])
SlowMovers(alerts) == Among(alerts, Slows(alerts))

(***************************************************************************)
(* The catalogue page                                                      *)
(***************************************************************************)

CatalogFilters == {"all", "active", "low_stock", "content", "inactive"}

\* The page keeps one alert a listing, the last that is listed.
AlertKind(l, alerts) ==
    LET of == Among(alerts, {a \in Elems(alerts) : a.id = l})
    IN  IF of = << >> THEN "none" ELSE of[Len(of)].kind

AttentionRank(l, done, alerts) ==
    CASE l \in Having("sold_out", done) -> 0
      [] AlertKind(l, alerts) = "low_stock" -> 1
      [] l \in Having("poor", done) -> 2
      [] Status(l, done) = "paused" -> 3
      [] AlertKind(l, alerts) = "slow_mover" -> 4
      [] OTHER -> 5

InFilter(l, filter, done, alerts) ==
    CASE filter = "active" -> Status(l, done) = "active"
      [] filter = "low_stock" -> l \in Having("sold_out", done) \/ AlertKind(l, alerts) = "low_stock"
      [] filter = "content" -> l \in Having("poor", done)
      [] filter = "inactive" -> Status(l, done) # "active"
      [] OTHER -> TRUE

Filtered(filter, done, alerts) == {l \in Elems(Listings) : InFilter(l, filter, done, alerts)}
Ranked(visible, n, done, alerts) ==
    Among(visible, {l \in Elems(visible) : AttentionRank(l, done, alerts) = n})

\* found: the listings the search box matches.
CatalogPage(done, alerts, filter, found) ==
    LET visible == Among(Listings, Filtered(filter, done, alerts) \cap found)
    IN  [attention |-> FlattenSeq([n \in 1..5 |-> Ranked(visible, n - 1, done, alerts)]),
         rest |-> Ranked(visible, 5, done, alerts)]

\* What a row says of its listing: the stock in red, in amber or plain, the slow-mover mark,
\* the status and the content.
StockCell(l, done, alerts) ==
    CASE l \in Having("sold_out", done) -> "out"
      [] AlertKind(l, alerts) = "low_stock" -> "low"
      [] OTHER -> "plain"

ListingRow(l, done, alerts) ==
    [stock |-> StockCell(l, done, alerts), slow |-> AlertKind(l, alerts) = "slow_mover",
     status |-> Status(l, done), poor |-> l \in Having("poor", done)]

Marked(row) == row.stock # "plain" \/ row.slow \/ row.status # "active" \/ row.poor

CatalogCount(done, alerts, filter) == Number(Listings, Filtered(filter, done, alerts))

(***************************************************************************)
(* The other pages                                                         *)
(***************************************************************************)

HomeFilters == {"all", "orders", "stock", "slow"}

Issue(i) == [kind |-> "issue", id |-> i]
IssueRows == [i \in 1..Len(Issues) |-> Issue(Issues[i])]

Overview(done) == [inventory |-> First(InventoryAlerts(done), OverviewCap),
                   issues |-> First(IssueRows, OverviewCap)]

HomeRows(overview, filter) ==
    LET low == LowStock(overview.inventory)
        slow == SlowMovers(overview.inventory)
    IN  CASE filter = "orders" -> overview.issues
          [] filter = "stock" -> low
          [] filter = "slow" -> slow
          [] OTHER -> First(low, 1) \o overview.issues \o After(low, 1) \o slow

HomeCounts(overview) == [orders |-> Len(overview.issues),
                         stock |-> Number(overview.inventory, Lows(overview.inventory)),
                         slow |-> Number(overview.inventory, Slows(overview.inventory))]

\* The number on a filter of the queue.
HomeCount(overview, filter) ==
    LET counts == HomeCounts(overview)
    IN  IF filter = "all" THEN counts.orders + counts.stock + counts.slow ELSE counts[filter]

Tone(kind) == IF kind = "low_stock" THEN "warn" ELSE "muted"

\* A row of the queue: its colour, what its button asks for, and whether it says that the
\* shop shows the stock.
InventoryRow(a) == [tone |-> IF Low(a) /\ a.out THEN "danger" ELSE Tone(a.kind),
                    ask |-> IF Low(a) THEN "restock" ELSE "markdown",
                    note |-> Low(a) /\ ~a.out /\ a.visible]

\* The items the queue does not show, and where "See all" under it leads.
QueueOverflow(rows) == Len(rows) - RowCap

OverflowView(rows) ==
    IF \E i \in RowCap + 1..Len(rows) : rows[i].kind = "issue" THEN "orders" ELSE "inventory"

\* A row of the inventory page.
AlertRow(a) == [tone |-> IF a.out THEN "danger" ELSE Tone(a.kind),
                ask |-> IF Low(a) THEN "restock" ELSE "markdown",
                note |-> Low(a) /\ ~a.out /\ a.visible]

\* The pages that list alerts and issues in full.
InventoryPage(alerts) == LowStock(alerts) \o SlowMovers(alerts)
OrdersPage == IssueRows
ListedOn(view, alerts) == IF view = "orders" THEN Elems(OrdersPage) ELSE Elems(InventoryPage(alerts))

\* The counts beside the views' names, from the overview's snapshot.
NavCounts(done) ==
    LET alerts == InventoryAlerts(done)
    IN  [orders |-> Len(Issues), inventory |-> Number(alerts, Lows(alerts)) + Number(alerts, Slows(alerts))]

\* What the home page lists: the changes that await approval, and the resolved ones with
\* their pill.  (The page shows the four newest: there are no more here.)
Pending(ledger) == {c \in Changes : ledger[c] = "staged"}

Pill(status) == CASE status = "staged" -> "awaiting approval"
                  [] status = "applied" -> "approved"
                  [] OTHER -> "dismissed"

RecentChanges(ledger) ==
    [c \in {d \in Changes : ledger[d] \in {"applied", "discarded"}} |-> Pill(ledger[c])]

==============================================================================
