---------------------------- MODULE PortalProofs -----------------------------
(***************************************************************************)
(* The portal's page tells the truth once all is quiet, for any number of  *)
(* changes, turns and replies.                                             *)
(*                                                                         *)
(* What a card, an event on its way or a button's answer says of a change  *)
(* is one of the statuses the change has been through.  A card that does   *)
(* not say what the ledger says has the news of it still to come, as an    *)
(* event or as an answer, unless it is exempt; and a view whose data is    *)
(* old has a load out that began late enough, or a re-read to come, for    *)
(* every change the page was told of.  When nothing is out, nothing is to  *)
(* come, and so nothing is wrong.                                          *)
(*                                                                         *)
(* That the pages agree is about what they compute from the same data:     *)
(* filters that share nothing and leave nothing out count as many rows as  *)
(* the list has, and a row's mark is the reason it is listed for.  Their   *)
(* lists are concatenations, FlattenSeq, on which the lemmas are by        *)
(* induction over sequences, from a least element of the numbers.          *)
(***************************************************************************)
EXTENDS Portal, SequenceTheorems, WellFoundedInduction, TLAPS

\* The statuses that a change of this status has been through since it was staged.
Past(status) == IF Resolved(status) THEN {"staged", status} ELSE {status} \ {"absent"}

\* Wire event i says that change c moved.
Moves(i, c) == wire[i].type = "change_update" /\ wire[i].change = c

\* The news that the change was resolved is still to come.
News(c) ==
    /\ Resolved(ledger[c])
    /\ \/ \E i \in DOMAIN wire : Moves(i, c) /\ wire[i].status = ledger[c]
       \/ \E q \in acts : q.change = c /\ q.got = ledger[c]

\* A card, and the chips of its reply, say what the ledger says.
Settled(t, c) ==
    /\ replies[t].cards[c].status = ledger[c]
    /\ c \in replies[t].posed /\ Resolved(ledger[c]) => replies[t].stale

Exempt(t, c) == c \in untold \/ <<t, c>> \in outrun

ActInv ==
    \A q \in acts :
        /\ q.turn \in DOMAIN replies
        /\ q.at = "asked" => q.got = "absent"
        /\ q.got # "absent" => q.got = ledger[q.change]

\* The stream is there while the page listens; what it says of a change is what the change
\* has been through; and that a change was staged comes before anything else of it.
WireInv ==
    /\ ~streaming => wire = << >> /\ ~dirty
    /\ streaming => replies # << >>
    /\ \A i \in DOMAIN wire : wire[i].status \in Past(ledger[wire[i].change])
    /\ \A i, j \in DOMAIN wire :
         i < j /\ wire[j].type = "change_update" /\ wire[j].status = "staged" => wire[i].change # wire[j].change
    /\ \A i \in DOMAIN wire, t \in DOMAIN replies :
         wire[i].type = "change_update" /\ wire[i].status = "staged" => wire[i].change \notin replies[t].ids

CardInv ==
    \A t \in DOMAIN replies, c \in Changes :
        /\ (c \in replies[t].ids) <=> Holds(replies[t], c)
        /\ Holds(replies[t], c) => replies[t].cards[c].status \in Past(ledger[c])
        /\ c \in replies[t].posed => c \in replies[t].ids
        /\ replies[t].cards[c].busy =>
             rail.open /\ \E q \in acts : q.turn = t /\ q.change = c /\ q.rail = rail.nth

ToldInv ==
    \A t \in DOMAIN replies, c \in Changes :
        Holds(replies[t], c) => Exempt(t, c) \/ Settled(t, c) \/ News(c)

RailInv == ActInv /\ WireInv /\ CardInv /\ ToldInv

\* A change was told of, and the page will read again for it.
RereadComes(c) ==
    \/ dirty
    \/ \E i \in DOMAIN wire : Moves(i, c)
    \/ \E q \in acts : q.change = c /\ q.got # "absent"

\* What a resource has, or is about to have, is right on the change.
ReadsRight(r, c) ==
    /\ \A seen \in reads[r].out : seen[c] = ledger[c]
    /\ reads[r].out = {} => reads[r].failed \/ Shown(r)[c] = ledger[c]

ReadInv ==
    /\ view = NoView => reads = [r \in Resources |-> Unmounted]
    /\ \A r \in Mounted :
         /\ reads[r].out = {} => reads[r].failed \/ Shown(r) \in Ledgers
         /\ \A c \in Changes \ untold : RereadComes(c) \/ ReadsRight(r, c)

IInv == TypeOK /\ RailInv /\ ReadInv

LEMMA InitInvariant == Init => IInv
<1> SUFFICES ASSUME Init PROVE IInv
    OBVIOUS
<1>1. TypeOK
  <2>1. wire \in Seq(Message) /\ replies \in Seq(Reply) /\ Len(replies) = 0
      BY DEF Init
  <2>2. reads \in [Resources -> Resource]
      BY DEF Init, Unmounted, Resource
  <2>3. ledger \in Ledgers
      BY DEF Init, Ledgers, Statuses
  <2>4. rail \in [open : BOOLEAN, nth : Nat]
      BY DEF Init
  <2>5. view \in Views \cup {NoView} /\ spent \in 0..MaxSpent /\ Len(replies) <= MaxTurns
      BY <2>1, PortalAssumption DEF Init
  <2>6. {agent, streaming, dirty} \subseteq BOOLEAN
      BY DEF Init
  <2>7. acts \subseteq Request /\ untold \subseteq Changes /\ outrun \subseteq (1..MaxTurns) \X Changes
      BY DEF Init
  <2>8. QED
      BY <2>1, <2>2, <2>3, <2>4, <2>5, <2>6, <2>7 DEF TypeOK
<1>2. RailInv
    BY DEF Init, RailInv, ActInv, WireInv, CardInv, ToldInv
<1>3. ReadInv
    BY DEF Init, ReadInv, Mounted
<1>4. QED
    BY <1>1, <1>2, <1>3 DEF IInv

\* applyChangeUpdate rewrites the status of the change's cards and marks the chips of their
\* replies, and leaves the rest alone.
Rewritten(us, rs, c, s) ==
    /\ us \in Seq(Reply) /\ Len(us) = Len(rs) /\ DOMAIN us = DOMAIN rs
    /\ \A t \in DOMAIN rs :
         /\ us[t].ids = rs[t].ids
         /\ us[t].posed = rs[t].posed
         /\ us[t].stale <=> rs[t].stale \/ (c \in rs[t].ids /\ s # "staged")
         /\ \A d \in Changes :
              /\ us[t].cards[d].busy = rs[t].cards[d].busy
              /\ us[t].cards[d].status = IF d = c /\ c \in rs[t].ids /\ Holds(rs[t], c)
                                           THEN s ELSE rs[t].cards[d].status

LEMMA UpdateEffect ==
    ASSUME NEW rs \in Seq(Reply), NEW c \in Changes, NEW s \in Statuses \ {"absent"}
    PROVE  Rewritten(ApplyChangeUpdate(rs, c, s), rs, c, s)
<1> DEFINE us == ApplyChangeUpdate(rs, c, s)
<1> DEFINE Up(x) == IF c \notin x.ids THEN x
                    ELSE [x EXCEPT !.stale = @ \/ s # "staged",
                                   !.cards[c].status = IF Holds(x, c) THEN s ELSE @]
<1>1. ASSUME NEW x \in Reply
      PROVE  /\ Up(x) \in Reply
             /\ Up(x).ids = x.ids
             /\ Up(x).posed = x.posed
             /\ Up(x).stale <=> x.stale \/ (c \in x.ids /\ s # "staged")
             /\ \A d \in Changes :
                  /\ Up(x).cards[d].busy = x.cards[d].busy
                  /\ Up(x).cards[d].status = IF d = c /\ c \in x.ids /\ Holds(x, c)
                                               THEN s ELSE x.cards[d].status
  <2> DEFINE new == IF Holds(x, c) THEN s ELSE x.cards[c].status
  <2>1. CASE c \notin x.ids
      BY <2>1
  <2>2. CASE c \in x.ids
    <3>1. Up(x) = [x EXCEPT !.stale = @ \/ s # "staged", !.cards[c].status = new]
        BY <2>2
    <3>2. new \in Statuses
        BY DEF Reply, Card
    <3> HIDE DEF Up, new
    <3>3. /\ x.cards \in [Changes -> Card] /\ x.stale \in BOOLEAN
          /\ x.ids \in SUBSET Changes /\ x.posed \in SUBSET Changes
        BY DEF Reply
    <3>4. Up(x) = [cards |-> [x.cards EXCEPT ![c].status = new], ids |-> x.ids,
                   posed |-> x.posed, stale |-> x.stale \/ s # "staged"]
        BY <3>1, <3>3 DEF Reply
    <3>5. /\ [x.cards EXCEPT ![c].status = new] \in [Changes -> Card]
          /\ \A d \in Changes :
               /\ [x.cards EXCEPT ![c].status = new][d].busy = x.cards[d].busy
               /\ [x.cards EXCEPT ![c].status = new][d].status = IF d = c THEN new ELSE x.cards[d].status
        BY <3>2, <3>3 DEF Card
    <3>6. Up(x) \in Reply
        BY <3>3, <3>4, <3>5 DEF Reply
    <3>7. /\ Up(x).ids = x.ids
          /\ Up(x).posed = x.posed
          /\ Up(x).stale = (x.stale \/ s # "staged")
          /\ Up(x).cards = [x.cards EXCEPT ![c].status = new]
        BY <3>4
    <3>8. \A d \in Changes :
            /\ Up(x).cards[d].busy = x.cards[d].busy
            /\ Up(x).cards[d].status = IF d = c THEN new ELSE x.cards[d].status
        BY <3>5, <3>7
    <3>9. Up(x).stale <=> x.stale \/ (c \in x.ids /\ s # "staged")
        BY <2>2, <3>7
    <3>10. \A d \in Changes :
             Up(x).cards[d].status = IF d = c /\ c \in x.ids /\ Holds(x, c) THEN s ELSE x.cards[d].status
        BY <2>2, <3>8 DEF new
    <3>11. QED
        BY <3>6, <3>7, <3>8, <3>9, <3>10
  <2>3. QED
      BY <2>1, <2>2
<1> HIDE DEF Up
<1>2. us = [t \in DOMAIN rs |-> Up(rs[t])]
    BY DEF ApplyChangeUpdate, Up
<1>3. DOMAIN rs = 1..Len(rs) /\ Len(rs) \in Nat /\ \A t \in DOMAIN rs : rs[t] \in Reply
    OBVIOUS
<1>4. us \in [1..Len(rs) -> Reply]
    BY <1>1, <1>2, <1>3
<1>5. us \in Seq(Reply) /\ Len(us) = Len(rs)
    BY <1>3, <1>4
<1> HIDE DEF us
<1>6. Rewritten(us, rs, c, s)
    BY <1>1, <1>2, <1>3, <1>5 DEF Rewritten
<1>7. QED
    BY <1>6 DEF us

(***************************************************************************)
(* What a step leaves as it was                                            *)
(***************************************************************************)

LEMMA RailUntouched ==
    ASSUME RailInv, UNCHANGED <<ledger, streamVars, railVars, historyVars>>
    PROVE  RailInv'
<1>1. UNCHANGED <<ledger, wire, streaming, dirty, replies, rail, acts, untold, outrun>>
    BY DEF streamVars, railVars, historyVars
<1>2. ActInv'
    BY <1>1 DEF RailInv, ActInv
<1>3. WireInv'
    BY <1>1 DEF RailInv, WireInv, Past
<1>4. CardInv'
    BY <1>1 DEF RailInv, CardInv, Past, Holds
<1>5. ToldInv'
    BY <1>1 DEF RailInv, ToldInv, Holds, Exempt, Settled, News, Moves
<1>6. QED
    BY <1>2, <1>3, <1>4, <1>5 DEF RailInv

\* The reads stand as long as no announced re-read is forgotten.
LEMMA ReadsStand ==
    ASSUME ReadInv, UNCHANGED <<ledger, view, reads>>, untold \subseteq untold',
           \A c \in Changes \ untold' : RereadComes(c) => RereadComes(c)'
    PROVE  ReadInv'
<1>1. view' = NoView => reads' = [r \in Resources |-> Unmounted]
    BY DEF ReadInv
<1>2. Mounted' = Mounted
    BY DEF Mounted
<1>3. ASSUME NEW r \in Mounted
      PROVE  /\ reads'[r].out = {} => reads'[r].failed \/ Shown(r)' \in Ledgers
             /\ \A c \in Changes \ untold' : RereadComes(c)' \/ ReadsRight(r, c)'
    BY DEF ReadInv, ReadsRight, Shown
<1>4. QED
    BY <1>1, <1>2, <1>3 DEF ReadInv

LEMMA MountedReads == Mounted \subseteq Resources
    BY DEF Mounted, OfView, Resources

\* All that is mounted is read again.
LEMMA RefreshedReads ==
    ASSUME TypeOK, ReadInv, reads' = Refreshed, UNCHANGED <<ledger, view>>
    PROVE  ReadInv'
<1>1. Mounted' = Mounted
    BY DEF Mounted
<1>2. view' = NoView => reads' = [r \in Resources |-> Unmounted]
  <2>1. view = NoView => Mounted = {}
      BY DEF Mounted
  <2>2. QED
      BY <2>1 DEF Refreshed, ReadInv
<1>3. ASSUME NEW r \in Mounted
      PROVE  reads'[r].out = {ledger}
  <2>1. reads' [r] = Again(reads[r])
      BY MountedReads DEF Refreshed
  <2>2. reads[r] \in Resource
      BY MountedReads DEF TypeOK
  <2>3. QED
      BY <2>1, <2>2 DEF Again, Resource
<1>4. ASSUME NEW r \in Mounted, NEW c \in Changes
      PROVE  ReadsRight(r, c)'
    BY <1>3 DEF ReadsRight
<1>5. QED
    BY <1>1, <1>2, <1>3, <1>4 DEF ReadInv

LEMMA RefreshedType ==
    ASSUME TypeOK
    PROVE  Refreshed \in [Resources -> Resource]
<1>1. ASSUME NEW r \in Resources
      PROVE  reads[r] \in Resource /\ Again(reads[r]) \in Resource
    BY DEF TypeOK, Again, Resource
<1>2. QED
    BY <1>1 DEF Refreshed

\* The ledger moves, and the page is to be told and to read again, or is never told.
LEMMA MovedReads ==
    ASSUME TypeOK, ReadInv, NEW c \in Changes, NEW to \in Statuses,
           Moved([ledger EXCEPT ![c] = to]), view' = view, untold \subseteq untold',
           c \in untold' \/ RereadComes(c)',
           \A d \in Changes \ untold' : RereadComes(d) => RereadComes(d)'
    PROVE  ReadInv'
<1> DEFINE l == [ledger EXCEPT ![c] = to]
<1>1. l \in Ledgers /\ \A d \in Changes : d # c => l[d] = ledger[d]
    BY DEF TypeOK, Ledgers
<1>2. ledger' = l
    BY DEF Moved
<1>3. ASSUME NEW r \in Resources
      PROVE  /\ reads'[r].out = Since(reads[r].out, l)
             /\ reads'[r].data = reads[r].data
             /\ reads'[r].failed = reads[r].failed
  <2>1. reads'[r] = [reads[r] EXCEPT !.out = Since(@, l), !.late = Since(@, l)]
      BY DEF Moved
  <2>2. reads[r] \in Resource
      BY DEF TypeOK
  <2>3. QED
      BY <2>1, <2>2 DEF Resource
<1> HIDE DEF l
<1>4. view' = NoView => reads' = [r \in Resources |-> Unmounted]
  <2>1. SUFFICES ASSUME view = NoView PROVE reads' = [r \in Resources |-> Unmounted]
      OBVIOUS
  <2>2. reads = [r \in Resources |-> Unmounted]
      BY <2>1 DEF ReadInv
  <2>3. reads' = [r \in Resources |-> [reads[r] EXCEPT !.out = Since(@, l), !.late = Since(@, l)]]
      BY DEF Moved, l
  <2>4. [Unmounted EXCEPT !.out = Since(@, l), !.late = Since(@, l)] = Unmounted
      BY DEF Unmounted, Since
  <2>5. QED
      BY <2>2, <2>3, <2>4
<1>5. Mounted' = Mounted
    BY DEF Mounted
<1>6. ASSUME NEW r \in Mounted, reads'[r].out = {}
      PROVE  reads'[r].failed \/ Shown(r)' \in Ledgers
  <2>1. reads[r].out = {}
      BY <1>3, <1>6, MountedReads DEF Since
  <2>2. reads[r].failed \/ Shown(r) \in Ledgers
      BY <2>1 DEF ReadInv
  <2>3. QED
      BY <1>3, <2>2, MountedReads DEF Shown
<1>7. ASSUME NEW r \in Mounted, NEW d \in Changes \ untold', ~RereadComes(d)'
      PROVE  ReadsRight(r, d)'
  <2>1. d # c /\ ~RereadComes(d) /\ d \in Changes \ untold
      BY <1>7
  <2>2. ReadsRight(r, d)
      BY <2>1 DEF ReadInv
  <2>3. ledger'[d] = ledger[d] /\ l[d] = ledger[d]
      BY <1>1, <1>2, <2>1
  <2>4. QED
      BY <1>3, <2>2, <2>3, MountedReads DEF ReadsRight, Since, Shown
<1>8. QED
    BY <1>4, <1>5, <1>6, <1>7 DEF ReadInv

(***************************************************************************)
(* The reads                                                               *)
(***************************************************************************)

\* What a step of the reads alone has to keep.
LEMMA ReadStep ==
    ASSUME IInv, UNCHANGED <<serviceVars, streamVars, railVars, historyVars>>,
           view' \in Views \cup {NoView}, spent' \in 0..MaxSpent, reads' \in [Resources -> Resource], ReadInv'
    PROVE  IInv'
<1>1. UNCHANGED <<ledger, agent, wire, streaming, dirty, replies, rail, acts, untold, outrun>>
    BY DEF serviceVars, streamVars, railVars, historyVars
<1>2. TypeOK'
    BY <1>1 DEF IInv, TypeOK
<1>3. RailInv'
    BY <1>1, RailUntouched DEF IInv, streamVars, railVars, historyVars
<1>4. QED
    BY <1>2, <1>3 DEF IInv

LEMMA SpendOK ==
    ASSUME TypeOK, Spend
    PROVE  spent' \in 0..MaxSpent
BY PortalAssumption DEF TypeOK, Spend

LEMMA FreshOK ==
    ASSUME TypeOK
    PROVE  /\ Fresh \in Resource /\ Fresh.out = {ledger}
           /\ Unmounted \in Resource
BY DEF TypeOK, Fresh, Unmounted, Resource

LEMMA SessionStartsStep ==
    ASSUME IInv, SessionStarts
    PROVE  IInv'
<1>1. /\ UNCHANGED <<serviceVars, streamVars, railVars, historyVars>>
      /\ view' = "home" /\ spent' = spent
      /\ reads' = [reads EXCEPT !["overview"] = Fresh]
    BY DEF SessionStarts, PageRest
<1>2. reads' \in [Resources -> Resource] /\ reads'["overview"].out = {ledger}
    BY <1>1, FreshOK DEF IInv, TypeOK, Resources
<1>3. Mounted' = {"overview"} /\ view' # NoView
    BY <1>1 DEF Mounted, OfView, NoView
<1>4. ledger' = ledger
    BY <1>1 DEF serviceVars
<1>5. ReadInv'
    BY <1>2, <1>3, <1>4 DEF ReadInv, ReadsRight
<1>6. view' \in Views \cup {NoView} /\ spent' \in 0..MaxSpent
    BY <1>1 DEF Views, IInv, TypeOK
<1>7. QED
    BY <1>1, <1>2, <1>5, <1>6, ReadStep

LEMMA NavigateStep ==
    ASSUME IInv, NEW v \in Views, Navigate(v)
    PROVE  IInv'
<1>1. /\ UNCHANGED <<serviceVars, streamVars, railVars, historyVars>>
      /\ view' = v /\ view # NoView /\ Spend
      /\ reads' = [r \in Resources |-> CASE r = "overview" -> reads[r]
                                         [] r \in OfView(v) -> Fresh
                                         [] OTHER -> Unmounted]
    BY DEF Navigate, PageRest
<1>2. v # NoView
    BY DEF Views, NoView
<1>3. reads' \in [Resources -> Resource]
    BY <1>1, FreshOK DEF IInv, TypeOK
<1>4. "overview" \in Mounted /\ Mounted' = {"overview"} \cup OfView(v) /\ OfView(v) \subseteq Resources \ {"overview"}
    BY <1>1, <1>2 DEF Mounted, OfView, Resources
<1>5. reads'["overview"] = reads["overview"]
    BY <1>1, <1>4 DEF Resources
<1>6. \A r \in OfView(v) : reads'[r].out = {ledger}
    BY <1>1, <1>4, FreshOK DEF IInv
<1>7. /\ ledger' = ledger /\ untold' = untold
      /\ \A c \in Changes : RereadComes(c) => RereadComes(c)'
  <2>1. UNCHANGED <<ledger, untold, dirty, wire, acts>>
      BY <1>1 DEF serviceVars, historyVars, streamVars, railVars
  <2>2. QED
      BY <2>1 DEF RereadComes, Moves
<1>8. ASSUME NEW r \in Mounted'
      PROVE  /\ reads'[r].out = {} => reads'[r].failed \/ Shown(r)' \in Ledgers
             /\ \A c \in Changes \ untold' : RereadComes(c)' \/ ReadsRight(r, c)'
  <2>1. CASE r = "overview"
      BY <1>4, <1>5, <1>7, <2>1 DEF IInv, ReadInv, ReadsRight, Shown
  <2>2. CASE r \in OfView(v)
      BY <1>6, <1>7, <2>2 DEF ReadsRight
  <2>3. QED
      BY <1>4, <2>1, <2>2
<1>9. ReadInv'
    BY <1>1, <1>2, <1>8 DEF ReadInv
<1>10. view' \in Views \cup {NoView} /\ spent' \in 0..MaxSpent
    BY <1>1, SpendOK DEF IInv
<1>11. QED
    BY <1>1, <1>3, <1>9, <1>10, ReadStep

\* One resource's read moves on: the others stand.
LEMMA OneRead ==
    ASSUME IInv, NEW r \in Resources, NEW now \in Resource, reads' = [reads EXCEPT ![r] = now],
           UNCHANGED <<serviceVars, streamVars, railVars, view, historyVars>>, spent' \in 0..MaxSpent,
           \/ now.out = reads[r].out /\ now.data = reads[r].data /\ now.failed = reads[r].failed
           \/ now.out = {} /\ (now.failed \/ now.data \in reads[r].out),
           view = NoView => now = Unmounted
    PROVE  IInv'
<1>1. UNCHANGED <<ledger, wire, dirty, acts, untold>>
    BY DEF serviceVars, streamVars, railVars, historyVars
<1>2. reads' \in [Resources -> Resource]
    BY DEF IInv, TypeOK
<1>3. \A x \in Resources : reads'[x] = IF x = r THEN now ELSE reads[x]
    BY DEF IInv, TypeOK
<1>4. Mounted' = Mounted
    BY DEF Mounted
<1>5. \A c \in Changes : RereadComes(c)' <=> RereadComes(c)
    BY <1>1 DEF RereadComes, Moves
<1>6. ASSUME NEW x \in Mounted
      PROVE  /\ reads'[x].out = {} => reads'[x].failed \/ Shown(x)' \in Ledgers
             /\ \A c \in Changes \ untold' : RereadComes(c)' \/ ReadsRight(x, c)'
  <2>1. CASE x # r
      BY <1>1, <1>3, <1>5, <2>1, MountedReads DEF IInv, ReadInv, ReadsRight, Shown
  <2>2. CASE x = r
    <3>1. reads[r] \in Resource
        BY DEF IInv, TypeOK
    <3>2. reads'[r] = now
        BY <1>3
    <3>3. reads[r].out \subseteq Ledgers
        BY <3>1 DEF Resource
    <3>4. /\ reads[r].out = {} => reads[r].failed \/ Shown(r) \in Ledgers
          /\ \A c \in Changes \ untold : RereadComes(c) \/ ReadsRight(r, c)
        BY <2>2 DEF IInv, ReadInv
    <3>5. now.out = {} => now.failed \/ now.data \in Ledgers
        BY <3>3, <3>4 DEF Shown
    <3>6. ASSUME NEW c \in Changes \ untold, ReadsRight(r, c)
          PROVE  /\ \A seen \in now.out : seen[c] = ledger[c]
                 /\ now.out = {} => now.failed \/ now.data[c] = ledger[c]
        BY <3>6 DEF ReadsRight, Shown
    <3>7. QED
        BY <1>1, <1>5, <2>2, <3>2, <3>4, <3>5, <3>6 DEF ReadsRight, Shown
  <2>3. QED
      BY <2>1, <2>2
<1>7. view' = NoView => reads' = [x \in Resources |-> Unmounted]
    BY <1>3 DEF IInv, ReadInv
<1>8. ReadInv'
    BY <1>4, <1>6, <1>7 DEF ReadInv
<1>9. view' \in Views \cup {NoView}
    BY DEF IInv, TypeOK
<1>10. QED
    BY <1>2, <1>8, <1>9, ReadStep

LEMMA ReadAnsweredStep ==
    ASSUME IInv, NEW r \in Resources, ReadAnswered(r)
    PROVE  IInv'
<1>1. PICK seen \in reads[r].out :
        reads' = [reads EXCEPT ![r].out = {}, ![r].data = seen, ![r].failed = FALSE]
    BY DEF ReadAnswered
<1>2. reads[r] \in Resource
    BY DEF IInv, TypeOK
<1> DEFINE now == [reads[r] EXCEPT !.out = {}, !.data = seen, !.failed = FALSE]
<1>3. now \in Resource /\ now.out = {} /\ now.data = seen
    BY <1>2 DEF Resource
<1>4. reads' = [reads EXCEPT ![r] = now]
    BY <1>1, <1>2 DEF IInv, TypeOK, Resource
<1>5. view # NoView
    BY <1>1 DEF IInv, ReadInv, Unmounted
<1>6. UNCHANGED <<serviceVars, streamVars, railVars, view, historyVars>> /\ spent' \in 0..MaxSpent
    BY DEF ReadAnswered, IInv, TypeOK
<1> HIDE DEF now
<1>7. QED
    BY <1>3, <1>4, <1>5, <1>6, OneRead

LEMMA ReadFailsStep ==
    ASSUME IInv, NEW r \in Resources, ReadFails(r)
    PROVE  IInv'
<1>1. reads[r] \in Resource
    BY DEF IInv, TypeOK
<1> DEFINE now == [reads[r] EXCEPT !.out = {}, !.failed = TRUE]
<1>2. now \in Resource /\ now.out = {} /\ now.failed
    BY <1>1 DEF Resource
<1>3. reads' = [reads EXCEPT ![r] = now]
    BY <1>1 DEF ReadFails, IInv, TypeOK, Resource
<1>4. view # NoView
    BY DEF ReadFails, IInv, ReadInv, Unmounted
<1>5. UNCHANGED <<serviceVars, streamVars, railVars, view, historyVars>> /\ spent' \in 0..MaxSpent
    BY SpendOK DEF ReadFails, IInv
<1> HIDE DEF now
<1>6. QED
    BY <1>2, <1>3, <1>4, <1>5, OneRead

LEMMA LateAnsweredStep ==
    ASSUME IInv, NEW r \in Resources, LateAnswered(r)
    PROVE  IInv'
<1>1. reads[r] \in Resource
    BY DEF IInv, TypeOK
<1> DEFINE now == [reads[r] EXCEPT !.late = {}]
<1>2. /\ now \in Resource
      /\ now.out = reads[r].out /\ now.data = reads[r].data /\ now.failed = reads[r].failed
    BY <1>1 DEF Resource
<1>3. reads' = [reads EXCEPT ![r] = now]
    BY <1>1 DEF LateAnswered, IInv, TypeOK, Resource
<1>4. view # NoView
    BY DEF LateAnswered, IInv, ReadInv, Unmounted
<1>5. UNCHANGED <<serviceVars, streamVars, railVars, view, historyVars>> /\ spent' \in 0..MaxSpent
    BY DEF LateAnswered, IInv, TypeOK
<1> HIDE DEF now
<1>6. QED
    BY <1>2, <1>3, <1>4, <1>5, OneRead

(***************************************************************************)
(* The rail                                                                *)
(***************************************************************************)

\* Opening and closing the rail only ends what its cards wait for.
LEMMA ToggleRail ==
    ASSUME IInv, NEW open \in BOOLEAN, RailToggled(open), UNCHANGED <<acts, pageVars>>, PageRest,
           spent' \in 0..MaxSpent
    PROVE  IInv'
<1>1. UNCHANGED <<ledger, agent, wire, streaming, dirty, acts, view, reads, untold, outrun>>
    BY DEF PageRest, serviceVars, streamVars, historyVars, pageVars
<1>2. replies \in Seq(Reply) /\ DOMAIN replies = 1..Len(replies) /\ Len(replies) \in Nat
    BY DEF IInv, TypeOK
<1> DEFINE Cleared(x) == [x EXCEPT !.cards = [c \in Changes |-> Reset(@[c])]]
<1>3. ASSUME NEW x \in Reply
      PROVE  /\ Cleared(x) \in Reply
             /\ Cleared(x).ids = x.ids /\ Cleared(x).posed = x.posed /\ Cleared(x).stale = x.stale
             /\ \A c \in Changes : /\ ~Cleared(x).cards[c].busy
                                   /\ Cleared(x).cards[c].status = x.cards[c].status
  <2> DEFINE cs == [c \in Changes |-> Reset(x.cards[c])]
  <2>1. \A c \in Changes : Reset(x.cards[c]) \in Card /\ ~Reset(x.cards[c]).busy
                           /\ Reset(x.cards[c]).status = x.cards[c].status
      BY DEF Reset, Reply, Card
  <2>2. Cleared(x) = [cards |-> cs, ids |-> x.ids, posed |-> x.posed, stale |-> x.stale]
      BY DEF Reply
  <2>3. cs \in [Changes -> Card]
      BY <2>1
  <2> HIDE DEF Cleared
  <2>4. Cleared(x) \in Reply
      BY <2>2, <2>3 DEF Reply
  <2>5. QED
      BY <2>1, <2>2, <2>4
<1>4. replies' = [t \in DOMAIN replies |-> Cleared(replies[t])]
    BY DEF RailToggled
<1> HIDE DEF Cleared
<1>5. replies' \in [1..Len(replies) -> Reply]
    BY <1>2, <1>3, <1>4
<1>6. replies' \in Seq(Reply) /\ Len(replies') = Len(replies) /\ DOMAIN replies' = DOMAIN replies
    BY <1>2, <1>5
<1>7. \A t \in DOMAIN replies :
        /\ replies'[t].ids = replies[t].ids /\ replies'[t].posed = replies[t].posed
        /\ replies'[t].stale = replies[t].stale
        /\ \A c \in Changes : ~replies'[t].cards[c].busy /\ replies'[t].cards[c].status = replies[t].cards[c].status
    BY <1>2, <1>3, <1>4
<1>8. TypeOK'
  <2>1. rail' \in [open : BOOLEAN, nth : Nat]
      BY DEF RailToggled, IInv, TypeOK
  <2>2. QED
      BY <1>1, <1>6, <2>1 DEF IInv, TypeOK
<1>9. ActInv' /\ WireInv'
  <2>1. ActInv'
      BY <1>1, <1>6 DEF IInv, RailInv, ActInv
  <2>2. streaming' => replies' # << >>
      BY <1>1, <1>2, <1>6 DEF IInv, RailInv, WireInv
  <2>3. WireInv'
      BY <1>1, <1>6, <1>7, <2>2 DEF IInv, RailInv, WireInv, Past
  <2>4. QED
      BY <2>1, <2>3
<1>10. CardInv'
  <2>1. SUFFICES ASSUME NEW t \in DOMAIN replies, NEW c \in Changes
                 PROVE  /\ (c \in replies'[t].ids) <=> Holds(replies'[t], c)
                        /\ Holds(replies'[t], c) => replies'[t].cards[c].status \in Past(ledger'[c])
                        /\ c \in replies'[t].posed => c \in replies'[t].ids
                        /\ ~replies'[t].cards[c].busy
      BY <1>6 DEF CardInv
  <2>2. /\ (c \in replies[t].ids) <=> Holds(replies[t], c)
        /\ Holds(replies[t], c) => replies[t].cards[c].status \in Past(ledger[c])
        /\ c \in replies[t].posed => c \in replies[t].ids
      BY DEF IInv, RailInv, CardInv
  <2>3. Holds(replies'[t], c) <=> Holds(replies[t], c)
      BY <1>7 DEF Holds
  <2>4. Past(ledger'[c]) = Past(ledger[c])
      BY <1>1 DEF Past
  <2>5. QED
      BY <1>7, <2>2, <2>3, <2>4
<1>11. ToldInv'
    BY <1>1, <1>6, <1>7 DEF IInv, RailInv, ToldInv, Holds, Exempt, Settled, News, Moves
<1>12. ReadInv'
    BY <1>1, ReadsStand DEF IInv, RereadComes, Moves
<1>13. QED
    BY <1>8, <1>9, <1>10, <1>11, <1>12 DEF IInv, RailInv

LEMMA CloseRailStep ==
    ASSUME IInv, CloseRail
    PROVE  IInv'
BY ToggleRail, SpendOK DEF CloseRail, IInv

LEMMA OpenRailStep ==
    ASSUME IInv, OpenRail
    PROVE  IInv'
BY ToggleRail DEF OpenRail, IInv, TypeOK

LEMMA SendStep ==
    ASSUME IInv, Send
    PROVE  IInv'
<1>1. /\ streaming' = TRUE /\ agent' = TRUE /\ ~streaming /\ Len(replies) < MaxTurns
      /\ replies' = Append(replies, NewReply)
      /\ UNCHANGED <<ledger, wire, dirty, rail, acts, view, reads, spent, untold, outrun>>
    BY DEF Send, pageVars, historyVars
<1>2. replies \in Seq(Reply) /\ DOMAIN replies = 1..Len(replies) /\ Len(replies) \in Nat
    BY DEF IInv, TypeOK
<1>3. NewReply \in Reply /\ NewReply.ids = {} /\ NewReply.posed = {}
      /\ \A c \in Changes : ~Holds(NewReply, c) /\ ~NewReply.cards[c].busy
    BY DEF NewReply, NoCard, Reply, Card, Statuses, Holds
<1>4. /\ replies' \in Seq(Reply) /\ Len(replies') = Len(replies) + 1
      /\ DOMAIN replies' = 1..Len(replies) + 1
      /\ \A t \in DOMAIN replies : replies'[t] = replies[t]
      /\ replies'[Len(replies) + 1] = NewReply
    BY <1>1, <1>2, <1>3
<1>5. \A t \in DOMAIN replies' :
        \/ t \in DOMAIN replies /\ replies'[t] = replies[t]
        \/ replies'[t] = NewReply
    BY <1>2, <1>4
<1>6. wire = << >> /\ ~dirty
    BY <1>1 DEF IInv, RailInv, WireInv
<1>7. TypeOK'
    BY <1>1, <1>2, <1>4, PortalAssumption DEF IInv, TypeOK
<1>8. ActInv'
    BY <1>1, <1>2, <1>4 DEF IInv, RailInv, ActInv
<1>9. WireInv'
    BY <1>1, <1>4, <1>6, EmptySeq DEF WireInv
<1>10. CardInv'
  <2>1. \A c \in Changes : Past(ledger'[c]) = Past(ledger[c])
      BY <1>1 DEF Past
  <2>2. SUFFICES ASSUME NEW t \in DOMAIN replies', NEW c \in Changes
                 PROVE  /\ (c \in replies'[t].ids) <=> Holds(replies'[t], c)
                        /\ Holds(replies'[t], c) => replies'[t].cards[c].status \in Past(ledger[c])
                        /\ c \in replies'[t].posed => c \in replies'[t].ids
                        /\ replies'[t].cards[c].busy =>
                             rail.open /\ \E q \in acts : q.turn = t /\ q.change = c /\ q.rail = rail.nth
      BY <1>1, <2>1 DEF CardInv
  <2>3. CASE t \in DOMAIN replies /\ replies'[t] = replies[t]
      BY <2>3 DEF IInv, RailInv, CardInv
  <2>4. CASE replies'[t] = NewReply
      BY <1>3, <2>4
  <2>5. QED
      BY <1>5, <2>3, <2>4
<1>11. ToldInv'
    BY <1>1, <1>3, <1>5 DEF IInv, RailInv, ToldInv, Holds, Exempt, Settled, News, Moves
<1>12. ReadInv'
    BY <1>1, ReadsStand DEF IInv, RereadComes, Moves
<1>13. QED
    BY <1>7, <1>8, <1>9, <1>10, <1>11, <1>12 DEF IInv, RailInv

(***************************************************************************)
(* A change moves                                                          *)
(***************************************************************************)

\* What a tool emits comes last on the stream, if the page listens.
LEMMA EmitEffect ==
    ASSUME TypeOK, NEW e \in Message, Emit(e)
    PROVE  /\ wire' \in Seq(Message)
           /\ \A i \in DOMAIN wire : i \in DOMAIN wire' /\ wire'[i] = wire[i]
           /\ \A i \in DOMAIN wire' :
                \/ i \in DOMAIN wire
                \/ streaming /\ i = Len(wire) + 1 /\ wire'[i] = e
           /\ streaming => Len(wire) + 1 \in DOMAIN wire' /\ wire'[Len(wire) + 1] = e
           /\ ~streaming => wire' = wire
           /\ DOMAIN wire = 1..Len(wire) /\ Len(wire) \in Nat
           /\ DOMAIN wire' \subseteq Nat
<1>1. wire \in Seq(Message)
    BY DEF TypeOK
<1>2. CASE streaming
    BY <1>1, <1>2 DEF Emit
<1>3. CASE ~streaming
    BY <1>1, <1>3 DEF Emit
<1>4. QED
    BY <1>2, <1>3

\* A change is staged once, and then applied or discarded once.
Advances(c, to) ==
    /\ to \in {"staged"} \cup Outcome
    /\ ledger[c] = IF to = "staged" THEN "absent" ELSE "staged"
    /\ ledger' = [ledger EXCEPT ![c] = to]

LEMMA AdvanceEffect ==
    ASSUME TypeOK, NEW c \in Changes, NEW to, Advances(c, to)
    PROVE  /\ ledger' \in Ledgers
           /\ ledger'[c] = to /\ \A d \in Changes : d # c => ledger'[d] = ledger[d]
           /\ \A d \in Changes : Past(ledger[d]) \subseteq Past(ledger'[d])
           /\ \A d \in Changes : d # c => Past(ledger'[d]) = Past(ledger[d])
           /\ to \in Past(ledger'[c]) /\ to \in Statuses \ {"absent"}
           /\ to = "staged" => Past(ledger[c]) = {}
           /\ Resolved(to) <=> to # "staged"
           /\ ~Resolved(ledger[c])
<1>1. to \in Statuses \ {"absent"} /\ (Resolved(to) <=> to # "staged") /\ ~Resolved(ledger[c])
    BY DEF Advances, Statuses, Outcome, Resolved
<1>2. ledger' \in Ledgers /\ ledger'[c] = to /\ \A d \in Changes : d # c => ledger'[d] = ledger[d]
    BY <1>1 DEF Advances, TypeOK, Ledgers
<1>3. \A d \in Changes : d # c => Past(ledger'[d]) = Past(ledger[d])
    BY <1>2 DEF Past
<1>4. /\ Past(ledger[c]) \subseteq Past(ledger'[c])
      /\ to \in Past(ledger'[c])
      /\ to = "staged" => Past(ledger[c]) = {}
    BY <1>1, <1>2 DEF Advances, Past, Resolved, Outcome
<1>5. QED
    BY <1>1, <1>2, <1>3, <1>4

\* The cards stand while a change moves, and what the page will hear of it is to come.
LEMMA CardsStand ==
    ASSUME IInv, NEW c \in Changes, NEW to, Advances(c, to),
           UNCHANGED <<replies, rail, outrun>>, untold \subseteq untold',
           \A q \in acts : \E p \in acts' : p.turn = q.turn /\ p.change = q.change /\ p.rail = q.rail,
           to # "staged" => c \in untold' \/ News(c)',
           \A d \in Changes \ {c} : News(d) => News(d)'
    PROVE  CardInv' /\ ToldInv'
<1>1. /\ ledger'[c] = to /\ \A d \in Changes : d # c => ledger'[d] = ledger[d]
      /\ \A d \in Changes : Past(ledger[d]) \subseteq Past(ledger'[d])
      /\ to = "staged" => Past(ledger[c]) = {}
    BY AdvanceEffect DEF IInv
<1>2. CardInv'
  <2>1. SUFFICES ASSUME NEW t \in DOMAIN replies, NEW d \in Changes
                 PROVE  /\ (d \in replies[t].ids) <=> Holds(replies[t], d)
                        /\ Holds(replies[t], d) => replies[t].cards[d].status \in Past(ledger'[d])
                        /\ d \in replies[t].posed => d \in replies[t].ids
                        /\ replies[t].cards[d].busy =>
                             rail.open /\ \E q \in acts' : q.turn = t /\ q.change = d /\ q.rail = rail.nth
      BY DEF CardInv, Holds
  <2>2. QED
      BY <1>1 DEF IInv, RailInv, CardInv
<1>3. ToldInv'
  <2>1. SUFFICES ASSUME NEW t \in DOMAIN replies, NEW d \in Changes, Holds(replies[t], d)
                 PROVE  Exempt(t, d)' \/ Settled(t, d)' \/ News(d)'
      BY DEF ToldInv, Holds
  <2>2. Exempt(t, d) \/ Settled(t, d) \/ News(d)
      BY <2>1 DEF IInv, RailInv, ToldInv
  <2>3. CASE d = c
    <3>1. to # "staged"
        BY <1>1, <2>1, <2>3 DEF IInv, RailInv, CardInv
    <3>2. QED
        BY <2>3, <3>1 DEF Exempt
  <2>4. CASE d # c
      BY <1>1, <2>2, <2>4 DEF Exempt, Settled
  <2>5. QED
      BY <2>3, <2>4
<1>4. QED
    BY <1>2, <1>3

LEMMA ActsStand ==
    ASSUME IInv, NEW c \in Changes, NEW to, Advances(c, to), UNCHANGED <<replies, acts>>
    PROVE  ActInv'
<1>1. ~Resolved(ledger[c]) /\ \A d \in Changes : d # c => ledger'[d] = ledger[d]
    BY AdvanceEffect DEF IInv
<1>2. ASSUME NEW q \in acts
      PROVE  /\ q.change \in Changes
             /\ q.got # "absent" => Resolved(q.got)
  <2>1. q \in Request
      BY DEF IInv, TypeOK
  <2>2. QED
      BY <2>1 DEF Request, Outcome, Resolved
<1>3. QED
    BY <1>1, <1>2 DEF IInv, RailInv, ActInv

\* The wire's part of a move that the agent makes.
LEMMA MoveOnWire ==
    ASSUME IInv, NEW c \in Changes, NEW to, Advances(c, to),
           Emit(Event("change_update", c, to)), UNCHANGED <<streaming, dirty, replies>>
    PROVE  WireInv'
<1> DEFINE e == Event("change_update", c, to)
<1>1. /\ \A d \in Changes : Past(ledger[d]) \subseteq Past(ledger'[d])
      /\ to \in Past(ledger'[c]) /\ to \in Statuses \ {"absent"}
      /\ to = "staged" => Past(ledger[c]) = {}
    BY AdvanceEffect DEF IInv
<1>2. e \in Message /\ e.type = "change_update" /\ e.change = c /\ e.status = to
    BY <1>1 DEF Event, Message
<1> HIDE DEF e
<1>3. /\ wire' \in Seq(Message)
      /\ \A i \in DOMAIN wire' :
           \/ i \in DOMAIN wire /\ wire'[i] = wire[i]
           \/ streaming /\ i = Len(wire) + 1 /\ wire'[i] = e
      /\ ~streaming => wire' = wire
      /\ DOMAIN wire = 1..Len(wire) /\ Len(wire) \in Nat
  <2>1. Emit(e)
      BY DEF e
  <2>2. QED
      BY <1>2, <2>1, EmitEffect DEF IInv
<1>4. ASSUME NEW i \in DOMAIN wire
      PROVE  wire[i].change \in Changes
  <2>1. wire[i] \in Message
      BY <1>3 DEF IInv, TypeOK
  <2>2. QED
      BY <2>1 DEF Message
<1>5. ASSUME NEW i \in DOMAIN wire'
      PROVE  wire'[i].status \in Past(ledger'[wire'[i].change])
  <2>1. CASE i \in DOMAIN wire /\ wire'[i] = wire[i]
    <3>1. wire[i].status \in Past(ledger[wire[i].change])
        BY <2>1 DEF IInv, RailInv, WireInv
    <3>2. QED
        BY <1>1, <1>4, <2>1, <3>1
  <2>2. CASE wire'[i] = e
      BY <1>1, <1>2, <2>2
  <2>3. QED
      BY <1>3, <2>1, <2>2
<1>6. to = "staged" => /\ \A i \in DOMAIN wire : wire[i].change # c
                       /\ \A t \in DOMAIN replies : c \notin replies[t].ids
    BY <1>1 DEF IInv, RailInv, WireInv, CardInv
<1>7. ASSUME NEW i \in DOMAIN wire', NEW j \in DOMAIN wire', i < j,
             wire'[j].type = "change_update", wire'[j].status = "staged"
      PROVE  wire'[i].change # wire'[j].change
  <2>1. CASE wire'[j] = e /\ j = Len(wire) + 1
      BY <1>2, <1>3, <1>6, <1>7, <2>1
  <2>2. CASE j \in DOMAIN wire /\ wire'[j] = wire[j]
    <3>1. i \in DOMAIN wire /\ wire'[i] = wire[i]
        BY <1>3, <1>7, <2>2
    <3>2. QED
        BY <1>7, <2>2, <3>1 DEF IInv, RailInv, WireInv
  <2>3. QED
      BY <1>3, <2>1, <2>2
<1>8. ASSUME NEW i \in DOMAIN wire', NEW t \in DOMAIN replies,
             wire'[i].type = "change_update", wire'[i].status = "staged"
      PROVE  wire'[i].change \notin replies[t].ids
    BY <1>2, <1>3, <1>6, <1>8 DEF IInv, RailInv, WireInv
<1>9. QED
    BY <1>3, <1>5, <1>7, <1>8 DEF IInv, RailInv, WireInv

LEMMA WireStands ==
    ASSUME IInv, NEW c \in Changes, NEW to, Advances(c, to),
           UNCHANGED <<wire, streaming, dirty, replies>>
    PROVE  WireInv'
<1>1. \A d \in Changes : Past(ledger[d]) \subseteq Past(ledger'[d])
    BY AdvanceEffect DEF IInv
<1>2. ASSUME NEW i \in DOMAIN wire
      PROVE  wire[i].status \in Past(ledger'[wire[i].change])
  <2>1. wire[i] \in Message
      BY DEF IInv, TypeOK
  <2>2. wire[i].status \in Past(ledger[wire[i].change])
      BY DEF IInv, RailInv, WireInv
  <2>3. QED
      BY <1>1, <2>1, <2>2 DEF Message
<1>3. QED
    BY <1>2 DEF IInv, RailInv, WireInv

LEMMA MovedType ==
    ASSUME TypeOK, NEW c \in Changes, NEW to, Advances(c, to), Moved([ledger EXCEPT ![c] = to])
    PROVE  ledger' \in Ledgers /\ reads' \in [Resources -> Resource]
<1> DEFINE l == [ledger EXCEPT ![c] = to]
<1>1. ledger' = l /\ l \in Ledgers
    BY AdvanceEffect DEF Moved
<1>2. reads' = [r \in Resources |-> [reads[r] EXCEPT !.out = Since(@, l), !.late = Since(@, l)]]
    BY DEF Moved
<1> HIDE DEF l
<1>3. ASSUME NEW r \in Resources
      PROVE  [reads[r] EXCEPT !.out = Since(@, l), !.late = Since(@, l)] \in Resource
  <2>1. reads[r] \in Resource
      BY DEF TypeOK
  <2>2. Since(reads[r].out, l) \in SUBSET Ledgers /\ Since(reads[r].late, l) \in SUBSET Ledgers
      BY <1>1, <2>1 DEF Since, Resource
  <2>3. QED
      BY <2>1, <2>2 DEF Resource
<1>4. QED
    BY <1>1, <1>2, <1>3

LEMMA AgentMovesStep ==
    ASSUME IInv, NEW c \in Changes, NEW from, NEW to,
           (from = "absent" /\ to = "staged") \/ (from = "staged" /\ to \in Outcome),
           AgentMoves(c, from, to)
    PROVE  IInv'
<1> DEFINE e == Event("change_update", c, to)
<1>1. /\ Moved([ledger EXCEPT ![c] = to]) /\ Emit(e) /\ Unheard(c) /\ Spend
      /\ UNCHANGED <<agent, streaming, dirty, replies, rail, acts, view, outrun>>
    BY DEF AgentMoves, AgentRest, railVars
<1>2. Advances(c, to)
    BY DEF AgentMoves, Moved, Advances, Outcome
<1>3. to \in Statuses
    BY DEF Outcome, Statuses
<1>4. e \in Message /\ e.type = "change_update" /\ e.change = c /\ e.status = to
    BY <1>3 DEF Event, Message
<1>5. /\ wire' \in Seq(Message)
      /\ \A i \in DOMAIN wire : i \in DOMAIN wire' /\ wire'[i] = wire[i]
      /\ streaming => Len(wire) + 1 \in DOMAIN wire' /\ wire'[Len(wire) + 1] = e
  <2>1. e \in Message /\ Emit(e)
      BY <1>1, <1>4
  <2> HIDE DEF e
  <2>2. QED
      BY <2>1, EmitEffect DEF IInv
<1>6. untold \subseteq untold' /\ untold' \subseteq Changes /\ (~streaming => c \in untold')
    BY <1>1 DEF Unheard, IInv, TypeOK
<1>7. WireInv'
    BY <1>1, <1>2, MoveOnWire
<1>8. ActInv'
    BY <1>1, <1>2, ActsStand
<1> HIDE DEF e
<1>9. /\ ledger'[c] = to /\ (to # "staged" <=> Resolved(to))
      /\ \A d \in Changes : d # c => ledger'[d] = ledger[d]
    BY <1>2, AdvanceEffect DEF IInv
<1>10. CardInv' /\ ToldInv'
  <2>1. to # "staged" => c \in untold' \/ News(c)'
      BY <1>4, <1>5, <1>6, <1>9 DEF News, Moves
  <2>2. ASSUME NEW d \in Changes \ {c}, News(d)
        PROVE  News(d)'
      BY <1>1, <1>5, <1>9, <2>2 DEF News, Moves
  <2>3. QED
      BY <1>1, <1>2, <1>6, <2>1, <2>2, CardsStand
<1>11. ReadInv'
  <2>1. c \in untold' \/ RereadComes(c)'
      BY <1>4, <1>5, <1>6 DEF RereadComes, Moves
  <2>2. ASSUME NEW d \in Changes, RereadComes(d)
        PROVE  RereadComes(d)'
      BY <1>1, <1>5, <2>2 DEF RereadComes, Moves
  <2>3. QED
      BY <1>1, <1>3, <1>6, <2>1, <2>2, MovedReads DEF IInv
<1>12. TypeOK'
  <2>1. ledger' \in Ledgers /\ reads' \in [Resources -> Resource]
      BY <1>1, <1>2, MovedType DEF IInv
  <2>2. QED
      BY <1>1, <1>5, <1>6, <2>1, SpendOK DEF IInv, TypeOK
<1>13. QED
    BY <1>7, <1>8, <1>10, <1>11, <1>12 DEF IInv, RailInv

LEMMA AgentPresentsStep ==
    ASSUME IInv, NEW c \in Changes, AgentPresents(c)
    PROVE  IInv'
<1> DEFINE e == Event("ui", c, ledger[c])
<1>1. /\ ledger[c] # "absent" /\ Emit(e) /\ Spend
      /\ UNCHANGED <<ledger, agent, streaming, dirty, replies, rail, acts, view, reads, untold, outrun>>
    BY DEF AgentPresents, AgentRest, railVars
<1>2. ledger[c] \in Statuses
    BY DEF IInv, TypeOK, Ledgers
<1>3. e \in Message /\ e.type = "ui" /\ e.change = c /\ e.status = ledger[c]
    BY <1>2 DEF Event, Message
<1> HIDE DEF e
<1>4. /\ wire' \in Seq(Message)
      /\ \A i \in DOMAIN wire : i \in DOMAIN wire' /\ wire'[i] = wire[i]
      /\ \A i \in DOMAIN wire' :
           \/ i \in DOMAIN wire
           \/ streaming /\ i = Len(wire) + 1 /\ wire'[i] = e
      /\ ~streaming => wire' = wire
      /\ DOMAIN wire = 1..Len(wire) /\ Len(wire) \in Nat
    BY <1>1, <1>3, EmitEffect DEF IInv
<1>5. ledger[c] \in Past(ledger[c])
    BY <1>1 DEF Past
<1>6. ActInv'
    BY <1>1 DEF IInv, RailInv, ActInv
<1>7. WireInv'
  <2>1. \A i \in DOMAIN wire' : wire'[i].status \in Past(ledger[wire'[i].change])
      BY <1>3, <1>4, <1>5 DEF IInv, RailInv, WireInv
  <2>2. ASSUME NEW i \in DOMAIN wire', NEW j \in DOMAIN wire', i < j,
               wire'[j].type = "change_update", wire'[j].status = "staged"
        PROVE  wire'[i].change # wire'[j].change
    <3>1. j \in DOMAIN wire /\ i \in DOMAIN wire
        BY <1>3, <1>4, <2>2
    <3>2. QED
        BY <1>4, <2>2, <3>1 DEF IInv, RailInv, WireInv
  <2>3. ASSUME NEW i \in DOMAIN wire', NEW t \in DOMAIN replies,
               wire'[i].type = "change_update", wire'[i].status = "staged"
        PROVE  wire'[i].change \notin replies[t].ids
      BY <1>3, <1>4, <2>3 DEF IInv, RailInv, WireInv
  <2>4. QED
      BY <1>1, <1>4, <2>1, <2>2, <2>3 DEF IInv, RailInv, WireInv
<1>8. CardInv'
    BY <1>1 DEF IInv, RailInv, CardInv, Holds
<1>9. ToldInv'
  <2>1. \A d \in Changes : News(d) => News(d)'
      BY <1>1, <1>4 DEF News, Moves
  <2>2. QED
      BY <1>1, <2>1 DEF IInv, RailInv, ToldInv, Holds, Exempt, Settled
<1>10. ReadInv'
  <2>1. \A d \in Changes : RereadComes(d) => RereadComes(d)'
      BY <1>1, <1>4 DEF RereadComes, Moves
  <2>2. QED
      BY <1>1, <2>1, ReadsStand DEF IInv
<1>11. TypeOK'
    BY <1>1, <1>4, SpendOK DEF IInv, TypeOK
<1>12. QED
    BY <1>6, <1>7, <1>8, <1>9, <1>10, <1>11 DEF IInv, RailInv

LEMMA ElsewhereStep ==
    ASSUME IInv, NEW c \in Changes, NEW to \in Outcome, Elsewhere(c, to)
    PROVE  IInv'
<1>1. /\ Moved([ledger EXCEPT ![c] = to]) /\ Spend /\ untold' = untold \cup {c}
      /\ UNCHANGED <<agent, wire, streaming, dirty, replies, rail, acts, view, outrun>>
    BY DEF Elsewhere, streamVars, railVars
<1>2. Advances(c, to) /\ to \in Statuses
    BY DEF Elsewhere, Moved, Advances, Outcome, Statuses
<1>3. WireInv'
    BY <1>1, <1>2, WireStands
<1>4. ActInv'
    BY <1>1, <1>2, ActsStand
<1>5. \A d \in Changes : d # c => ledger'[d] = ledger[d]
    BY <1>2, AdvanceEffect DEF IInv
<1>6. CardInv' /\ ToldInv'
  <2>1. ASSUME NEW d \in Changes \ {c}, News(d)
        PROVE  News(d)'
      BY <1>1, <1>5, <2>1 DEF News, Moves
  <2>2. QED
      BY <1>1, <1>2, <2>1, CardsStand
<1>7. ReadInv'
  <2>1. \A d \in Changes : RereadComes(d) => RereadComes(d)'
      BY <1>1 DEF RereadComes, Moves
  <2>2. QED
      BY <1>1, <1>2, <2>1, MovedReads DEF IInv
<1>8. TypeOK'
  <2>1. ledger' \in Ledgers /\ reads' \in [Resources -> Resource]
      BY <1>1, <1>2, MovedType DEF IInv
  <2>2. QED
      BY <1>1, <2>1, SpendOK DEF IInv, TypeOK
<1>9. QED
    BY <1>3, <1>4, <1>6, <1>7, <1>8 DEF IInv, RailInv

(***************************************************************************)
(* The buttons                                                             *)
(***************************************************************************)

\* One card of one reply is put in the place of another.
PutCard(rs, t, c, card) ==
    [rs EXCEPT ![t] = [rs[t] EXCEPT !.cards = [rs[t].cards EXCEPT ![c] = card]]]

\* Nothing but that card differs.
ButForCard(us, rs, t, c, card) ==
    /\ us \in Seq(Reply) /\ Len(us) = Len(rs) /\ DOMAIN us = DOMAIN rs
    /\ \A x \in DOMAIN rs :
         /\ us[x].ids = rs[x].ids /\ us[x].posed = rs[x].posed /\ us[x].stale = rs[x].stale
         /\ \A d \in Changes : us[x].cards[d] = IF x = t /\ d = c THEN card ELSE rs[x].cards[d]

LEMMA CardPut ==
    ASSUME NEW rs \in Seq(Reply), NEW t \in DOMAIN rs, NEW c \in Changes, NEW card \in Card
    PROVE  ButForCard(PutCard(rs, t, c, card), rs, t, c, card)
<1> DEFINE us == PutCard(rs, t, c, card)
<1>1. DOMAIN rs = 1..Len(rs) /\ Len(rs) \in Nat /\ \A x \in DOMAIN rs : rs[x] \in Reply
    OBVIOUS
<1> DEFINE cs == [rs[t].cards EXCEPT ![c] = card]
           new == [rs[t] EXCEPT !.cards = cs]
<1>2. /\ rs[t].cards \in [Changes -> Card] /\ rs[t].stale \in BOOLEAN
      /\ rs[t].ids \in SUBSET Changes /\ rs[t].posed \in SUBSET Changes
    BY <1>1 DEF Reply
<1>3. cs \in [Changes -> Card] /\ \A d \in Changes : cs[d] = IF d = c THEN card ELSE rs[t].cards[d]
    BY <1>2
<1> HIDE DEF cs
<1>4. new \in Reply /\ new.ids = rs[t].ids /\ new.posed = rs[t].posed /\ new.stale = rs[t].stale /\ new.cards = cs
    BY <1>1, <1>2, <1>3 DEF Reply
<1>5. us = [rs EXCEPT ![t] = new]
    BY DEF cs, PutCard
<1> HIDE DEF new, us
<1>6. us \in Seq(Reply) /\ Len(us) = Len(rs) /\ DOMAIN us = DOMAIN rs
    BY <1>1, <1>4, <1>5
<1>7. \A x \in DOMAIN rs : us[x] = IF x = t THEN new ELSE rs[x]
    BY <1>1, <1>5
<1>8. QED
    BY <1>3, <1>4, <1>6, <1>7 DEF ButForCard, us

\* A card's own state changes, and nothing else of the replies.
SetCard(rs, t, c, b, er) == [rs EXCEPT ![t].cards[c].busy = b, ![t].cards[c].error = er]

ButForBusy(us, rs, t, c, b) ==
    /\ us \in Seq(Reply) /\ Len(us) = Len(rs) /\ DOMAIN us = DOMAIN rs
    /\ \A x \in DOMAIN rs :
         /\ us[x].ids = rs[x].ids /\ us[x].posed = rs[x].posed /\ us[x].stale = rs[x].stale
         /\ \A d \in Changes :
              /\ us[x].cards[d].status = rs[x].cards[d].status
              /\ us[x].cards[d].busy = IF x = t /\ d = c THEN b ELSE rs[x].cards[d].busy

LEMMA OneCard ==
    ASSUME NEW rs \in Seq(Reply), NEW t \in DOMAIN rs, NEW c \in Changes, NEW b \in BOOLEAN, NEW er \in BOOLEAN
    PROVE  ButForBusy(SetCard(rs, t, c, b, er), rs, t, c, b)
<1> DEFINE us == SetCard(rs, t, c, b, er)
           once == [rs EXCEPT ![t].cards[c].busy = b]
           busy == [rs[t].cards[c] EXCEPT !.busy = b]
           both == [once[t].cards[c] EXCEPT !.error = er]
<1>1. us = [once EXCEPT ![t].cards[c].error = er]
    BY DEF SetCard
<1>2. rs[t] \in Reply
    OBVIOUS
<1>3. rs[t].cards[c] \in Card
    BY <1>2 DEF Reply
<1>4. busy \in Card /\ busy.status = rs[t].cards[c].status /\ busy.busy = b
    BY <1>3 DEF Card
<1>5. once = PutCard(rs, t, c, busy)
    BY DEF PutCard
<1> HIDE DEF once, busy, us
<1>6. ButForCard(once, rs, t, c, busy)
    BY <1>4, <1>5, CardPut
<1>7. t \in DOMAIN once /\ once \in Seq(Reply) /\ once[t].cards[c] = busy
    BY <1>6 DEF ButForCard
<1>8. both \in Card /\ both.status = rs[t].cards[c].status /\ both.busy = b
    BY <1>4, <1>7 DEF Card
<1>9. us = PutCard(once, t, c, both)
    BY <1>1 DEF PutCard
<1> HIDE DEF both
<1>10. ButForCard(us, once, t, c, both)
  <2>1. ButForCard(PutCard(once, t, c, both), once, t, c, both)
      BY ONLY <1>7, <1>8, CardPut, c \in Changes
  <2>2. QED
      BY ONLY <1>9, <2>1
<1>11. /\ us \in Seq(Reply) /\ Len(us) = Len(rs) /\ DOMAIN us = DOMAIN rs
       /\ \A x \in DOMAIN rs :
            /\ us[x].ids = rs[x].ids /\ us[x].posed = rs[x].posed /\ us[x].stale = rs[x].stale
            /\ \A d \in Changes : us[x].cards[d] = IF x = t /\ d = c THEN both ELSE rs[x].cards[d]
    BY ONLY <1>6, <1>10 DEF ButForCard
<1>12. ASSUME NEW x \in DOMAIN rs, NEW d \in Changes
       PROVE  /\ us[x].cards[d].status = rs[x].cards[d].status
              /\ us[x].cards[d].busy = IF x = t /\ d = c THEN b ELSE rs[x].cards[d].busy
  <2>1. CASE x = t /\ d = c
      BY ONLY <1>8, <1>11, <2>1, x \in DOMAIN rs, d \in Changes
  <2>2. CASE ~(x = t /\ d = c)
      BY ONLY <1>11, <2>2, x \in DOMAIN rs, d \in Changes
  <2>3. QED
      BY <2>1, <2>2
<1>13. QED
    BY <1>11, <1>12 DEF ButForBusy, us

LEMMA ActStep ==
    ASSUME IInv, NEW t \in DOMAIN replies, NEW c \in Changes, NEW to \in Outcome, Act(t, c, to)
    PROVE  IInv'
<1> DEFINE q == [turn |-> t, change |-> c, to |-> to, nth |-> spent,
                 rail |-> rail.nth, at |-> "asked", got |-> "absent"]
<1>0. replies' = SetCard(replies, t, c, TRUE, FALSE)
    BY DEF Act, SetCard
<1>1. /\ rail.open /\ Spend
      /\ acts' = acts \cup {q}
      /\ UNCHANGED <<ledger, agent, wire, streaming, dirty, rail, view, reads, untold, outrun>>
    BY DEF Act, PageRest, serviceVars, streamVars, historyVars, pageVars
<1>2. replies \in Seq(Reply) /\ DOMAIN replies = 1..Len(replies) /\ Len(replies) \in Nat /\ Len(replies) <= MaxTurns
    BY DEF IInv, TypeOK
<1>3. /\ replies' \in Seq(Reply) /\ Len(replies') = Len(replies) /\ DOMAIN replies' = DOMAIN replies
      /\ \A x \in DOMAIN replies :
           /\ replies'[x].ids = replies[x].ids /\ replies'[x].posed = replies[x].posed
           /\ replies'[x].stale = replies[x].stale
           /\ \A d \in Changes :
                /\ replies'[x].cards[d].status = replies[x].cards[d].status
                /\ replies'[x].cards[d].busy = IF x = t /\ d = c THEN TRUE ELSE replies[x].cards[d].busy
  <2>1. ButForBusy(replies', replies, t, c, TRUE)
      BY <1>0, <1>2, OneCard
  <2>2. QED
      BY <2>1 DEF ButForBusy
<1>4. q \in Request
    BY <1>2, PortalAssumption DEF IInv, TypeOK, Request
<1>5. q.turn = t /\ q.change = c /\ q.rail = rail.nth /\ q.got = "absent"
    OBVIOUS
<1> HIDE DEF q
<1>6. ActInv'
    BY <1>1, <1>3, <1>5 DEF IInv, RailInv, ActInv
<1>7. WireInv'
  <2>1. streaming' => replies' # << >>
      BY <1>1, <1>2, <1>3 DEF IInv, RailInv, WireInv
  <2>2. QED
      BY <1>1, <1>3, <2>1 DEF IInv, RailInv, WireInv
<1>8. CardInv'
  <2>1. SUFFICES ASSUME NEW x \in DOMAIN replies, NEW d \in Changes
                 PROVE  /\ (d \in replies'[x].ids) <=> Holds(replies'[x], d)
                        /\ Holds(replies'[x], d) => replies'[x].cards[d].status \in Past(ledger[d])
                        /\ d \in replies'[x].posed => d \in replies'[x].ids
                        /\ replies'[x].cards[d].busy =>
                             rail.open /\ \E p \in acts' : p.turn = x /\ p.change = d /\ p.rail = rail.nth
      BY <1>1, <1>3 DEF CardInv
  <2>2. /\ (d \in replies[x].ids) <=> Holds(replies[x], d)
        /\ Holds(replies[x], d) => replies[x].cards[d].status \in Past(ledger[d])
        /\ d \in replies[x].posed => d \in replies[x].ids
        /\ replies[x].cards[d].busy =>
             rail.open /\ \E p \in acts : p.turn = x /\ p.change = d /\ p.rail = rail.nth
      BY DEF IInv, RailInv, CardInv
  <2>3. Holds(replies'[x], d) <=> Holds(replies[x], d)
      BY <1>3 DEF Holds
  <2>4. replies'[x].cards[d].busy => \E p \in acts' : p.turn = x /\ p.change = d /\ p.rail = rail.nth
    <3>1. CASE x = t /\ d = c
        BY <1>1, <1>5, <3>1
    <3>2. CASE ~(x = t /\ d = c)
        BY <1>1, <1>3, <2>2, <3>2
    <3>3. QED
        BY <3>1, <3>2
  <2>5. QED
      BY <1>1, <1>3, <2>2, <2>3, <2>4
<1>9. ToldInv'
  <2>1. \A d \in Changes : News(d) => News(d)'
      BY <1>1 DEF News, Moves
  <2>2. QED
      BY <1>1, <1>3, <2>1 DEF IInv, RailInv, ToldInv, Holds, Exempt, Settled
<1>10. ReadInv'
  <2>1. \A d \in Changes : RereadComes(d) => RereadComes(d)'
      BY <1>1 DEF RereadComes, Moves
  <2>2. QED
      BY <1>1, <2>1, ReadsStand DEF IInv
<1>11. TypeOK'
    BY <1>1, <1>2, <1>3, <1>4, SpendOK DEF IInv, TypeOK
<1>12. QED
    BY <1>6, <1>7, <1>8, <1>9, <1>10, <1>11 DEF IInv, RailInv

LEMMA ServeActStep ==
    ASSUME IInv, NEW q \in acts, ServeAct(q)
    PROVE  IInv'
<1>1. /\ q.at = "asked"
      /\ UNCHANGED <<agent, wire, streaming, dirty, replies, rail, view, spent, untold, outrun>>
    BY DEF ServeAct, streamVars
<1>2. q \in Request
    BY DEF IInv, TypeOK
<1>3. q.got = "absent" /\ q.turn \in DOMAIN replies
    BY <1>1 DEF IInv, RailInv, ActInv
<1>4. CASE /\ ledger[q.change] = "staged"
           /\ Moved([ledger EXCEPT ![q.change] = q.to])
           /\ acts' = (acts \ {q}) \cup {[q EXCEPT !.at = "served", !.got = q.to]}
  <2> DEFINE p == [q EXCEPT !.at = "served", !.got = q.to]
             c == q.change
             to == q.to
  <2>1. /\ p \in Request /\ p.turn = q.turn /\ p.change = c /\ p.rail = q.rail
        /\ p.at = "served" /\ p.got = to /\ c \in Changes /\ to \in Outcome
      BY <1>2 DEF Request
  <2>2. Advances(c, to) /\ to \in Statuses
      BY <1>4, <2>1 DEF Moved, Advances, Outcome, Statuses
  <2>3. Moved([ledger EXCEPT ![c] = to]) /\ acts' = (acts \ {q}) \cup {p}
      BY <1>4
  <2> HIDE DEF p, c, to
  <2>4. /\ ledger'[c] = to /\ Resolved(to)
        /\ ~Resolved(ledger[c])
        /\ \A d \in Changes : d # c => ledger'[d] = ledger[d]
      BY <2>1, <2>2, AdvanceEffect DEF IInv, Outcome
  <2>5. WireInv'
      BY <1>1, <2>1, <2>2, WireStands
  <2>6. ActInv'
    <3>1. ASSUME NEW x \in acts, x # q
          PROVE  /\ x.turn \in DOMAIN replies
                 /\ x.at = "asked" => x.got = "absent"
                 /\ x.got # "absent" => x.got = ledger'[x.change]
      <4>1. x \in Request
          BY DEF IInv, TypeOK
      <4>2. x.change \in Changes /\ (x.got # "absent" => Resolved(x.got))
          BY <4>1 DEF Request, Outcome, Resolved
      <4>3. QED
          BY <2>4, <4>2 DEF IInv, RailInv, ActInv
    <3>2. QED
        BY <1>1, <1>3, <2>1, <2>3, <2>4, <3>1 DEF ActInv
  <2>7. CardInv' /\ ToldInv'
    <3>1. \A x \in acts : \E y \in acts' : y.turn = x.turn /\ y.change = x.change /\ y.rail = x.rail
      <4>1. ASSUME NEW x \in acts
            PROVE  \E y \in acts' : y.turn = x.turn /\ y.change = x.change /\ y.rail = x.rail
        <5>1. CASE x = q
            BY <2>1, <2>3, <5>1 DEF c
        <5>2. CASE x # q
            BY <2>3, <5>2
        <5>3. QED
            BY <5>1, <5>2
      <4>2. QED
          BY <4>1
    <3>2. News(c)'
        BY <2>1, <2>3, <2>4 DEF News
    <3>3. ASSUME NEW d \in Changes \ {c}, News(d)
          PROVE  News(d)'
        BY <1>1, <1>3, <2>1, <2>3, <2>4, <3>3 DEF News, Moves, c
    <3>4. QED
        BY <1>1, <2>1, <2>2, <3>1, <3>2, <3>3, CardsStand
  <2>8. ReadInv'
    <3>1. RereadComes(c)'
        BY <2>1, <2>3, <2>4 DEF RereadComes, Resolved
    <3>2. ASSUME NEW d \in Changes, RereadComes(d)
          PROVE  RereadComes(d)'
        BY <1>1, <1>3, <2>3, <3>2 DEF RereadComes, Moves
    <3>3. QED
        BY <1>1, <2>1, <2>2, <2>3, <3>1, <3>2, MovedReads DEF IInv
  <2>9. TypeOK'
    <3>1. ledger' \in Ledgers /\ reads' \in [Resources -> Resource]
        BY <2>1, <2>2, <2>3, MovedType DEF IInv
    <3>2. QED
        BY <1>1, <2>1, <2>3, <3>1 DEF IInv, TypeOK
  <2>10. QED
      BY <2>5, <2>6, <2>7, <2>8, <2>9 DEF IInv, RailInv
<1>5. CASE /\ acts' = (acts \ {q}) \cup {[q EXCEPT !.at = "served"]}
           /\ UNCHANGED <<ledger, reads>>
  <2> DEFINE p == [q EXCEPT !.at = "served"]
  <2>1. /\ p \in Request /\ p.turn = q.turn /\ p.change = q.change /\ p.rail = q.rail
        /\ p.at = "served" /\ p.got = "absent"
      BY <1>2, <1>3 DEF Request
  <2>2. acts' = (acts \ {q}) \cup {p} /\ UNCHANGED <<ledger, reads>>
      BY <1>5
  <2> HIDE DEF p
  <2>3. ActInv'
      BY <1>1, <1>3, <2>1, <2>2 DEF IInv, RailInv, ActInv
  <2>4. WireInv'
      BY <1>1, <2>2 DEF IInv, RailInv, WireInv
  <2>5. ASSUME NEW x \in acts
        PROVE  \E y \in acts' : y.turn = x.turn /\ y.change = x.change /\ y.rail = x.rail
    <3>1. CASE x = q
        BY <2>1, <2>2, <3>1
    <3>2. CASE x # q
        BY <2>2, <3>2
    <3>3. QED
        BY <3>1, <3>2
  <2>6. CardInv'
      BY <1>1, <2>2, <2>5 DEF IInv, RailInv, CardInv, Holds
  <2>7. ToldInv'
    <3>1. ASSUME NEW d \in Changes, News(d)
          PROVE  News(d)'
        BY <1>1, <1>3, <2>2, <3>1 DEF News, Moves, Resolved
    <3>2. QED
        BY <1>1, <2>2, <3>1 DEF IInv, RailInv, ToldInv, Holds, Exempt, Settled
  <2>8. ReadInv'
    <3>1. ASSUME NEW d \in Changes, RereadComes(d)
          PROVE  RereadComes(d)'
        BY <1>1, <1>3, <2>2, <3>1 DEF RereadComes, Moves
    <3>2. QED
        BY <1>1, <2>2, <3>1, ReadsStand DEF IInv
  <2>9. TypeOK'
      BY <1>1, <2>1, <2>2 DEF IInv, TypeOK
  <2>10. QED
      BY <2>3, <2>4, <2>6, <2>7, <2>8, <2>9 DEF IInv, RailInv
<1>6. QED
    BY <1>4, <1>5 DEF ServeAct

\* What an answer does to the cards: the change's cards are rewritten if it is told, and the
\* card whose button was pressed no longer waits.
LEMMA AnswerEffect ==
    ASSUME IInv, NEW q \in acts, NEW got \in {q.got, "absent"},
           replies' = Released(IF got = "absent" THEN replies ELSE ApplyChangeUpdate(replies, q.change, got), q, got)
    PROVE  /\ replies' \in Seq(Reply) /\ Len(replies') = Len(replies) /\ DOMAIN replies' = DOMAIN replies
           /\ got # "absent" => got = q.got /\ got = ledger[q.change] /\ Resolved(got)
           /\ \A x \in DOMAIN replies :
                /\ replies'[x].ids = replies[x].ids /\ replies'[x].posed = replies[x].posed
                /\ replies'[x].stale <=> replies[x].stale \/ (got # "absent" /\ q.change \in replies[x].ids)
                /\ \A d \in Changes :
                     /\ replies'[x].cards[d].status =
                          IF got # "absent" /\ d = q.change /\ Holds(replies[x], d) THEN got
                          ELSE replies[x].cards[d].status
                     /\ replies'[x].cards[d].busy =>
                          /\ replies[x].cards[d].busy
                          /\ ~(rail.open /\ q.rail = rail.nth /\ x = q.turn /\ d = q.change)
<1> DEFINE rs == IF got = "absent" THEN replies ELSE ApplyChangeUpdate(replies, q.change, got)
<1>1. q \in Request /\ q.turn \in DOMAIN replies /\ replies \in Seq(Reply)
    BY DEF IInv, TypeOK, RailInv, ActInv
<1>2. q.change \in Changes /\ q.got \in {"absent"} \cup Outcome
    BY <1>1 DEF Request
<1>3. got # "absent" => got = q.got /\ got = ledger[q.change] /\ Resolved(got) /\ got \in Statuses \ {"absent"}
    BY <1>2 DEF IInv, RailInv, ActInv, Outcome, Resolved, Statuses
<1>4. /\ rs \in Seq(Reply) /\ Len(rs) = Len(replies) /\ DOMAIN rs = DOMAIN replies
      /\ \A x \in DOMAIN replies :
           /\ rs[x].ids = replies[x].ids /\ rs[x].posed = replies[x].posed
           /\ rs[x].stale <=> replies[x].stale \/ (got # "absent" /\ q.change \in replies[x].ids)
           /\ \A d \in Changes :
                /\ rs[x].cards[d].busy = replies[x].cards[d].busy
                /\ rs[x].cards[d].status = IF got # "absent" /\ d = q.change /\ Holds(replies[x], d) THEN got
                                           ELSE replies[x].cards[d].status
  <2>1. CASE got = "absent"
    <3>1. rs = replies
        BY <2>1
    <3> HIDE DEF rs
    <3>2. \A x \in DOMAIN replies : replies[x].stale \in BOOLEAN
      <4>1. \A x \in DOMAIN replies : replies[x] \in Reply
          BY <1>1
      <4>2. QED
          BY <4>1 DEF Reply
    <3>3. QED
        BY <1>1, <2>1, <3>1, <3>2
  <2>2. CASE got # "absent"
    <3>1. Rewritten(rs, replies, q.change, got)
        BY <1>1, <1>2, <1>3, <2>2, UpdateEffect
    <3>2. \A x \in DOMAIN replies : Holds(replies[x], q.change) <=> q.change \in replies[x].ids
        BY <1>2 DEF IInv, RailInv, CardInv
    <3>3. got # "staged"
        BY <1>3, <2>2 DEF Resolved
    <3> HIDE DEF rs
    <3>4. QED
        BY <2>2, <3>1, <3>2, <3>3 DEF Rewritten
  <2>3. QED
      BY <2>1, <2>2
<1>5. replies' = Released(rs, q, got)
    OBVIOUS
<1> HIDE DEF rs
<1>6. CASE ~rail.open \/ q.rail # rail.nth
  <2>1. replies' = rs
      BY <1>5, <1>6 DEF Released
  <2>2. QED
      BY <1>3, <1>4, <1>6, <2>1
<1>7. CASE rail.open /\ q.rail = rail.nth
  <2>1. replies' = SetCard(rs, q.turn, q.change, FALSE, got = "absent")
      BY <1>5, <1>7 DEF Released, SetCard
  <2>2. ButForBusy(replies', rs, q.turn, q.change, FALSE)
    <3>1. (got = "absent") \in BOOLEAN
        OBVIOUS
    <3>2. QED
        BY <1>1, <1>2, <1>4, <2>1, <3>1, OneCard
  <2>3. /\ replies' \in Seq(Reply) /\ Len(replies') = Len(rs) /\ DOMAIN replies' = DOMAIN rs
        /\ \A x \in DOMAIN rs :
             /\ replies'[x].ids = rs[x].ids /\ replies'[x].posed = rs[x].posed /\ replies'[x].stale = rs[x].stale
             /\ \A d \in Changes :
                  /\ replies'[x].cards[d].status = rs[x].cards[d].status
                  /\ replies'[x].cards[d].busy = IF x = q.turn /\ d = q.change THEN FALSE ELSE rs[x].cards[d].busy
      BY ONLY <2>2 DEF ButForBusy
  <2>4. ASSUME NEW x \in DOMAIN replies
        PROVE  /\ replies'[x].ids = replies[x].ids /\ replies'[x].posed = replies[x].posed
               /\ replies'[x].stale <=> replies[x].stale \/ (got # "absent" /\ q.change \in replies[x].ids)
      BY ONLY <1>4, <2>3, x \in DOMAIN replies
  <2>5. ASSUME NEW x \in DOMAIN replies, NEW d \in Changes
        PROVE  /\ replies'[x].cards[d].status =
                    IF got # "absent" /\ d = q.change /\ Holds(replies[x], d) THEN got
                    ELSE replies[x].cards[d].status
               /\ replies'[x].cards[d].busy =>
                    /\ replies[x].cards[d].busy
                    /\ ~(rail.open /\ q.rail = rail.nth /\ x = q.turn /\ d = q.change)
    <3>1. /\ replies'[x].cards[d].status = rs[x].cards[d].status
          /\ replies'[x].cards[d].busy = IF x = q.turn /\ d = q.change THEN FALSE ELSE rs[x].cards[d].busy
      <4>1. x \in DOMAIN rs
          BY <1>4
      <4>2. QED
          BY ONLY <2>3, <4>1, d \in Changes, Zenon
    <3>2. /\ rs[x].cards[d].busy = replies[x].cards[d].busy
          /\ rs[x].cards[d].status = IF got # "absent" /\ d = q.change /\ Holds(replies[x], d) THEN got
                                     ELSE replies[x].cards[d].status
        BY ONLY <1>4, x \in DOMAIN replies, d \in Changes
    <3>3. CASE x = q.turn /\ d = q.change
        BY ONLY <3>1, <3>2, <3>3
    <3>4. CASE ~(x = q.turn /\ d = q.change)
        BY ONLY <3>1, <3>2, <3>4
    <3>5. QED
        BY <3>3, <3>4
  <2>6. QED
      BY <1>3, <1>4, <2>3, <2>4, <2>5
<1>8. QED
    BY <1>6, <1>7

LEMMA ActAnsweredStep ==
    ASSUME IInv, NEW q \in acts, ActAnswered(q)
    PROVE  IInv'
<1>1. PICK got \in {q.got, "absent"} :
        /\ replies' = Released(IF got = "absent" THEN replies ELSE ApplyChangeUpdate(replies, q.change, got), q, got)
        /\ reads' = IF got = "absent" THEN reads ELSE Refreshed
        /\ untold' = IF got = q.got THEN untold ELSE untold \cup {q.change}
    BY DEF ActAnswered
<1>2. /\ acts' = acts \ {q}
      /\ UNCHANGED <<ledger, agent, wire, streaming, dirty, rail, view, spent, outrun>>
    BY DEF ActAnswered, serviceVars, streamVars
<1>3. /\ replies' \in Seq(Reply) /\ Len(replies') = Len(replies) /\ DOMAIN replies' = DOMAIN replies
      /\ got # "absent" => got = q.got /\ got = ledger[q.change] /\ Resolved(got)
      /\ \A x \in DOMAIN replies :
           /\ replies'[x].ids = replies[x].ids /\ replies'[x].posed = replies[x].posed
           /\ replies'[x].stale <=> replies[x].stale \/ (got # "absent" /\ q.change \in replies[x].ids)
           /\ \A d \in Changes :
                /\ replies'[x].cards[d].status =
                     IF got # "absent" /\ d = q.change /\ Holds(replies[x], d) THEN got
                     ELSE replies[x].cards[d].status
                /\ replies'[x].cards[d].busy =>
                     /\ replies[x].cards[d].busy
                     /\ ~(rail.open /\ q.rail = rail.nth /\ x = q.turn /\ d = q.change)
    BY <1>1, AnswerEffect
<1>4. q.change \in Changes /\ untold' \subseteq Changes /\ untold \subseteq untold'
      /\ (got = "absent" /\ q.got # "absent" => q.change \in untold')
  <2>1. q \in Request
      BY DEF IInv, TypeOK
  <2>2. QED
      BY <1>1, <2>1 DEF IInv, TypeOK, Request
<1>5. reads' = IF got = "absent" THEN reads ELSE Refreshed
    BY <1>1
<1>6. ActInv'
    BY <1>2, <1>3 DEF IInv, RailInv, ActInv
<1>7. WireInv'
  <2>1. replies # << >> => replies' # << >>
    <3>1. replies \in Seq(Reply)
        BY DEF IInv, TypeOK
    <3>2. QED
        BY <1>3, <3>1
  <2>2. QED
      BY <1>2, <1>3, <2>1 DEF IInv, RailInv, WireInv
<1>8. CardInv'
  <2>1. SUFFICES ASSUME NEW x \in DOMAIN replies, NEW d \in Changes
                 PROVE  /\ (d \in replies'[x].ids) <=> Holds(replies'[x], d)
                        /\ Holds(replies'[x], d) => replies'[x].cards[d].status \in Past(ledger[d])
                        /\ d \in replies'[x].posed => d \in replies'[x].ids
                        /\ replies'[x].cards[d].busy =>
                             rail.open /\ \E p \in acts' : p.turn = x /\ p.change = d /\ p.rail = rail.nth
      BY <1>2, <1>3 DEF CardInv
  <2>2. /\ (d \in replies[x].ids) <=> Holds(replies[x], d)
        /\ Holds(replies[x], d) => replies[x].cards[d].status \in Past(ledger[d])
        /\ d \in replies[x].posed => d \in replies[x].ids
        /\ replies[x].cards[d].busy =>
             rail.open /\ \E p \in acts : p.turn = x /\ p.change = d /\ p.rail = rail.nth
      BY DEF IInv, RailInv, CardInv
  <2>3. Holds(replies'[x], d) <=> Holds(replies[x], d)
      BY <1>3 DEF Holds, Resolved
  <2>4. Holds(replies'[x], d) => replies'[x].cards[d].status \in Past(ledger[d])
      BY <1>3, <2>2, <2>3 DEF Past
  <2>5. QED
      BY <1>2, <1>3, <2>2, <2>3, <2>4
<1>9. ToldInv'
  <2>1. SUFFICES ASSUME NEW x \in DOMAIN replies, NEW d \in Changes, Holds(replies'[x], d)
                 PROVE  Exempt(x, d)' \/ Settled(x, d)' \/ News(d)'
      BY <1>3 DEF ToldInv
  <2>2. Holds(replies[x], d)
      BY <1>3, <2>1 DEF Holds
  <2>3. Exempt(x, d) \/ Settled(x, d) \/ News(d)
      BY <2>2 DEF IInv, RailInv, ToldInv
  <2>4. Exempt(x, d) => Exempt(x, d)'
      BY <1>2, <1>4 DEF Exempt
  <2>5. CASE got # "absent" /\ d = q.change
    <3>1. d \in replies[x].ids
        BY <2>2 DEF IInv, RailInv, CardInv
    <3>2. QED
        BY <1>2, <1>3, <2>2, <2>5, <3>1 DEF Settled
  <2>6. CASE got = "absent" /\ d = q.change /\ q.got # "absent"
      BY <1>4, <2>6 DEF Exempt
  <2>7. CASE d # q.change \/ (got = "absent" /\ q.got = "absent")
    <3>1. News(d) => News(d)'
        BY <1>2, <2>7 DEF News, Moves, Resolved
    <3>2. Settled(x, d) => Settled(x, d)'
        BY <1>2, <1>3, <2>7 DEF Settled
    <3>3. QED
        BY <2>3, <2>4, <3>1, <3>2
  <2>8. QED
      BY <2>5, <2>6, <2>7
<1>10. ReadInv'
  <2>1. CASE got = "absent"
    <3>1. ASSUME NEW d \in Changes \ untold', RereadComes(d)
          PROVE  RereadComes(d)'
        BY <1>2, <1>4, <2>1, <3>1 DEF RereadComes, Moves
    <3>2. QED
        BY <1>2, <1>4, <1>5, <2>1, <3>1, ReadsStand DEF IInv
  <2>2. CASE got # "absent"
      BY <1>2, <1>5, <2>2, RefreshedReads DEF IInv
  <2>3. QED
      BY <2>1, <2>2
<1>11. TypeOK'
  <2>1. reads' \in [Resources -> Resource]
      BY <1>5, RefreshedType DEF IInv, TypeOK
  <2>2. QED
      BY <1>2, <1>3, <1>4, <2>1 DEF IInv, TypeOK
<1>12. QED
    BY <1>6, <1>7, <1>8, <1>9, <1>10, <1>11 DEF IInv, RailInv

(***************************************************************************)
(* The stream                                                              *)
(***************************************************************************)

LEMMA TailEffect ==
    ASSUME NEW S, NEW w \in Seq(S), w # << >>
    PROVE  /\ Tail(w) \in Seq(S) /\ Head(w) = w[1] /\ 1 \in DOMAIN w
           /\ \A i \in DOMAIN Tail(w) : i + 1 \in DOMAIN w /\ i \in Nat \ {0} /\ Tail(w)[i] = w[i + 1]
           /\ \A i \in DOMAIN w \ {1} : i - 1 \in DOMAIN Tail(w) /\ Tail(w)[i - 1] = w[i]
           /\ DOMAIN w \subseteq Nat \ {0}
<1>1. Len(w) \in Nat \ {0} /\ DOMAIN w = 1..Len(w)
    OBVIOUS
<1>2. Tail(w) \in Seq(S) /\ Head(w) = w[1] /\ Len(Tail(w)) = Len(w) - 1
    OBVIOUS
<1>3. DOMAIN Tail(w) = 1..Len(w) - 1
    BY <1>1, <1>2
<1>4. \A i \in 1..Len(w) - 1 : Tail(w)[i] = w[i + 1]
    BY <1>1
<1>5. QED
    BY <1>1, <1>2, <1>3, <1>4

\* A preview: the newest reply lists the change, and its card shows it.
Present(rs, n, c, s) ==
    [rs EXCEPT ![n].ids = @ \cup {c},
               ![n].posed = IF Resolved(s) THEN @ ELSE @ \cup {c},
               ![n].cards[c].status = s]

Presented(us, rs, n, c, s) ==
    /\ us \in Seq(Reply) /\ Len(us) = Len(rs) /\ DOMAIN us = DOMAIN rs
    /\ \A t \in DOMAIN rs :
         /\ us[t].ids = IF t = n THEN rs[t].ids \cup {c} ELSE rs[t].ids
         /\ us[t].posed = IF t = n /\ ~Resolved(s) THEN rs[t].posed \cup {c} ELSE rs[t].posed
         /\ us[t].stale = rs[t].stale
         /\ \A d \in Changes :
              /\ us[t].cards[d].busy = rs[t].cards[d].busy
              /\ us[t].cards[d].status = IF t = n /\ d = c THEN s ELSE rs[t].cards[d].status

LEMMA PresentEffect ==
    ASSUME NEW rs \in Seq(Reply), NEW n \in DOMAIN rs, NEW c \in Changes, NEW s \in Statuses
    PROVE  Presented(Present(rs, n, c, s), rs, n, c, s)
<1> DEFINE us == Present(rs, n, c, s)
           x == rs[n]
           posed == IF Resolved(s) THEN x.posed ELSE x.posed \cup {c}
           card == [x.cards[c] EXCEPT !.status = s]
           cs == [x.cards EXCEPT ![c] = card]
           new == [cards |-> cs, ids |-> x.ids \cup {c}, posed |-> posed, stale |-> x.stale]
<1>1. DOMAIN rs = 1..Len(rs) /\ Len(rs) \in Nat /\ \A t \in DOMAIN rs : rs[t] \in Reply
    OBVIOUS
<1>2. /\ x \in Reply /\ x.cards \in [Changes -> Card] /\ x.stale \in BOOLEAN
      /\ x.ids \in SUBSET Changes /\ x.posed \in SUBSET Changes
    BY <1>1 DEF Reply
<1>3. us = [rs EXCEPT ![n] = new]
  <2> DEFINE one == [rs EXCEPT ![n].ids = @ \cup {c}]
             two == [one EXCEPT ![n].posed = IF Resolved(s) THEN @ ELSE @ \cup {c}]
             x1 == [x EXCEPT !.ids = @ \cup {c}]
             x2 == [x1 EXCEPT !.posed = posed]
  <2>1. us = [two EXCEPT ![n].cards[c].status = s]
      BY DEF Present
  <2>2. one = [rs EXCEPT ![n] = x1]
      OBVIOUS
  <2> DEFINE ids == x.ids \cup {c}
  <2>3. x1 = [cards |-> x.cards, ids |-> ids, posed |-> x.posed, stale |-> x.stale]
    <3>1. x1 = [x EXCEPT !.ids = ids]
        OBVIOUS
    <3> HIDE DEF x1, ids, x
    <3>2. QED
        BY <1>2, <3>1 DEF Reply
  <2>4. two = [one EXCEPT ![n].posed = IF Resolved(s) THEN one[n].posed ELSE one[n].posed \cup {c}]
      OBVIOUS
  <2> HIDE DEF one, x1, ids
  <2>5. DOMAIN one = DOMAIN rs /\ one[n] = x1 /\ one[n].posed = x.posed
      BY <2>2, <2>3
  <2>6. two = [one EXCEPT ![n] = x2]
      BY <2>4, <2>5
  <2> HIDE DEF two, posed
  <2>7. x2 = [cards |-> x.cards, ids |-> ids, posed |-> posed, stale |-> x.stale]
      BY <2>3
  <2> HIDE DEF x2
  <2>8. two[n] = x2 /\ DOMAIN two = DOMAIN rs /\ two[n].cards = x.cards
      BY <2>5, <2>6, <2>7
  <2>9. us = [two EXCEPT ![n] = [two[n] EXCEPT !.cards = [two[n].cards EXCEPT ![c] = [two[n].cards[c] EXCEPT !.status = s]]]]
      BY <2>1
  <2>10. us = [two EXCEPT ![n] = [x2 EXCEPT !.cards = cs]]
      BY <2>8, <2>9
  <2> HIDE DEF us, card, cs
  <2>11. [x2 EXCEPT !.cards = cs] = [cards |-> cs, ids |-> ids, posed |-> posed, stale |-> x.stale]
      BY <2>7
  <2>12. [x2 EXCEPT !.cards = cs] = new
      BY <2>11 DEF ids
  <2> HIDE DEF new
  <2>13. QED
      BY <2>2, <2>6, <2>10, <2>12
<1>4. card \in Card /\ card.status = s /\ card.busy = x.cards[c].busy
    BY <1>2 DEF Card
<1> HIDE DEF card
<1>5. cs \in [Changes -> Card] /\ \A d \in Changes : cs[d] = IF d = c THEN card ELSE x.cards[d]
    BY <1>2, <1>4
<1> HIDE DEF cs
<1>6. /\ new \in Reply /\ new.ids = x.ids \cup {c} /\ new.posed = posed /\ new.stale = x.stale /\ new.cards = cs
    BY <1>2, <1>5 DEF Reply
<1> HIDE DEF new, us
<1>7. us \in Seq(Reply) /\ Len(us) = Len(rs) /\ DOMAIN us = DOMAIN rs
    BY <1>1, <1>3, <1>6
<1>8. \A t \in DOMAIN rs : us[t] = IF t = n THEN new ELSE rs[t]
    BY <1>1, <1>3
<1>9. ASSUME NEW t \in DOMAIN rs
      PROVE  /\ us[t].ids = IF t = n THEN rs[t].ids \cup {c} ELSE rs[t].ids
             /\ us[t].posed = IF t = n /\ ~Resolved(s) THEN rs[t].posed \cup {c} ELSE rs[t].posed
             /\ us[t].stale = rs[t].stale
    BY <1>6, <1>8
<1>10. ASSUME NEW t \in DOMAIN rs, NEW d \in Changes
       PROVE  /\ us[t].cards[d].busy = rs[t].cards[d].busy
              /\ us[t].cards[d].status = IF t = n /\ d = c THEN s ELSE rs[t].cards[d].status
    BY <1>4, <1>5, <1>6, <1>8
<1>11. Presented(us, rs, n, c, s)
    BY <1>7, <1>9, <1>10 DEF Presented
<1>12. QED
    BY <1>11 DEF us

\* What both kinds of event find: the rest of the stream, and the page listening.
LEMMA HeadEffect ==
    ASSUME IInv, wire # << >>
    PROVE  /\ Head(wire) \in Message /\ Head(wire) = wire[1] /\ 1 \in DOMAIN wire
           /\ Tail(wire) \in Seq(Message)
           /\ \A i \in DOMAIN Tail(wire) : i + 1 \in DOMAIN wire /\ i \in Nat \ {0} /\ Tail(wire)[i] = wire[i + 1]
           /\ \A i \in DOMAIN wire \ {1} : i - 1 \in DOMAIN Tail(wire) /\ Tail(wire)[i - 1] = wire[i]
           /\ Len(replies) \in DOMAIN replies /\ streaming
           /\ Head(wire).status \in Past(ledger[Head(wire).change])
           /\ Head(wire).change \in Changes /\ Head(wire).status \in Statuses \ {"absent"}
<1>1. wire \in Seq(Message) /\ replies \in Seq(Reply)
    BY DEF IInv, TypeOK
<1>2. /\ Head(wire) = wire[1] /\ 1 \in DOMAIN wire
      /\ Tail(wire) \in Seq(Message)
      /\ \A i \in DOMAIN Tail(wire) : i + 1 \in DOMAIN wire /\ i \in Nat \ {0} /\ Tail(wire)[i] = wire[i + 1]
      /\ \A i \in DOMAIN wire \ {1} : i - 1 \in DOMAIN Tail(wire) /\ Tail(wire)[i - 1] = wire[i]
    BY <1>1, TailEffect
<1>3. Head(wire) \in Message
    BY <1>1, <1>2
<1>4. streaming /\ replies # << >>
    BY DEF IInv, RailInv, WireInv
<1>5. Len(replies) \in DOMAIN replies
    BY <1>1, <1>4
<1>6. Head(wire).status \in Past(ledger[Head(wire).change])
    BY <1>2 DEF IInv, RailInv, WireInv
<1>7. Head(wire).change \in Changes /\ Head(wire).status \in Statuses
    BY <1>3 DEF Message
<1>8. Head(wire).status # "absent"
    BY <1>6 DEF Past, Resolved
<1>9. QED
    BY <1>2, <1>3, <1>4, <1>5, <1>6, <1>7, <1>8

\* The rest of the stream is as well-formed as the whole.
LEMMA RestOfWire ==
    ASSUME IInv, wire # << >>, wire' = Tail(wire), UNCHANGED <<ledger, streaming>>,
           replies' \in Seq(Reply), DOMAIN replies' = DOMAIN replies,
           \A t \in DOMAIN replies : replies'[t].ids \subseteq replies[t].ids \cup {Head(wire).change}
    PROVE  WireInv'
<1>1. /\ Head(wire) = wire[1] /\ 1 \in DOMAIN wire /\ streaming /\ Len(replies) \in DOMAIN replies
      /\ \A i \in DOMAIN wire' : i + 1 \in DOMAIN wire /\ i \in Nat \ {0} /\ wire'[i] = wire[i + 1]
    BY HeadEffect
<1>2. replies' # << >>
    BY <1>1
<1>3. \A i \in DOMAIN wire' : wire'[i].status \in Past(ledger[wire'[i].change])
    BY <1>1 DEF IInv, RailInv, WireInv
<1>4. ASSUME NEW i \in DOMAIN wire', NEW j \in DOMAIN wire', i < j,
             wire'[j].type = "change_update", wire'[j].status = "staged"
      PROVE  wire'[i].change # wire'[j].change
  <2>1. i + 1 \in DOMAIN wire /\ j + 1 \in DOMAIN wire /\ i + 1 < j + 1
      BY <1>1, <1>4
  <2>2. QED
      BY <1>1, <1>4, <2>1 DEF IInv, RailInv, WireInv
<1>5. ASSUME NEW i \in DOMAIN wire', NEW t \in DOMAIN replies',
             wire'[i].type = "change_update", wire'[i].status = "staged"
      PROVE  wire'[i].change \notin replies'[t].ids
  <2>1. i + 1 \in DOMAIN wire /\ 1 < i + 1
      BY <1>1
  <2>2. wire'[i].change # wire[1].change
      BY <1>1, <1>5, <2>1 DEF IInv, RailInv, WireInv
  <2>3. wire'[i].change \notin replies[t].ids
      BY <1>1, <1>5, <2>1 DEF IInv, RailInv, WireInv
  <2>4. QED
      BY <1>1, <2>2, <2>3
<1>6. QED
    BY <1>1, <1>2, <1>3, <1>4, <1>5 DEF WireInv

LEMMA PreviewStep ==
    ASSUME IInv, Deliver, Head(wire).type = "ui"
    PROVE  IInv'
<1> DEFINE c == Head(wire).change
           s == Head(wire).status
           n == Len(replies)
<1>1. /\ wire # << >> /\ wire' = Tail(wire)
      /\ UNCHANGED <<ledger, agent, streaming, dirty, rail, acts, view, reads, spent, untold>>
      /\ replies' = Present(replies, n, c, s)
      /\ outrun' = IF s # ledger[c] /\ ~ToCome(c) THEN outrun \cup {<<n, c>>} ELSE outrun
    BY DEF Deliver, serviceVars, pageVars, Present
<1>2. /\ c \in Changes /\ s \in Statuses \ {"absent"} /\ n \in DOMAIN replies
      /\ s \in Past(ledger[c])
      /\ wire' \in Seq(Message)
      /\ Head(wire) = wire[1] /\ 1 \in DOMAIN wire
      /\ \A i \in DOMAIN wire \ {1} : i - 1 \in DOMAIN wire' /\ wire'[i - 1] = wire[i]
    BY <1>1, HeadEffect
<1> DEFINE type == Head(wire).type
<1>3. wire[1].type = "ui" /\ wire[1].change = c
    BY <1>2
<1> HIDE DEF c, s, n
<1>4. replies \in Seq(Reply) /\ DOMAIN replies = 1..Len(replies) /\ Len(replies) <= MaxTurns
    BY DEF IInv, TypeOK
<1>5. Presented(replies', replies, n, c, s)
    BY <1>1, <1>2, <1>4, PresentEffect
<1>6. /\ replies' \in Seq(Reply) /\ Len(replies') = Len(replies) /\ DOMAIN replies' = DOMAIN replies
      /\ \A t \in DOMAIN replies :
           /\ replies'[t].ids = IF t = n THEN replies[t].ids \cup {c} ELSE replies[t].ids
           /\ replies'[t].posed = IF t = n /\ ~Resolved(s) THEN replies[t].posed \cup {c} ELSE replies[t].posed
           /\ replies'[t].stale = replies[t].stale
           /\ \A d \in Changes :
                /\ replies'[t].cards[d].busy = replies[t].cards[d].busy
                /\ replies'[t].cards[d].status = IF t = n /\ d = c THEN s ELSE replies[t].cards[d].status
    BY <1>5 DEF Presented
<1>7. ActInv'
    BY <1>1, <1>6 DEF IInv, RailInv, ActInv
<1>8. WireInv'
    BY <1>1, <1>6, RestOfWire DEF c
<1>9. CardInv'
  <2>1. SUFFICES ASSUME NEW t \in DOMAIN replies, NEW d \in Changes
                 PROVE  /\ (d \in replies'[t].ids) <=> Holds(replies'[t], d)
                        /\ Holds(replies'[t], d) => replies'[t].cards[d].status \in Past(ledger[d])
                        /\ d \in replies'[t].posed => d \in replies'[t].ids
                        /\ replies'[t].cards[d].busy =>
                             rail.open /\ \E q \in acts : q.turn = t /\ q.change = d /\ q.rail = rail.nth
      BY <1>1, <1>6 DEF CardInv
  <2>2. /\ (d \in replies[t].ids) <=> Holds(replies[t], d)
        /\ Holds(replies[t], d) => replies[t].cards[d].status \in Past(ledger[d])
        /\ d \in replies[t].posed => d \in replies[t].ids
        /\ replies[t].cards[d].busy =>
             rail.open /\ \E q \in acts : q.turn = t /\ q.change = d /\ q.rail = rail.nth
      BY DEF IInv, RailInv, CardInv
  <2>3. replies'[t].cards[d].busy =>
             rail.open /\ \E q \in acts : q.turn = t /\ q.change = d /\ q.rail = rail.nth
    <3>1. replies'[t].cards[d].busy = replies[t].cards[d].busy
        BY <1>6
    <3>2. QED
        BY <2>2, <3>1, Zenon
  <2>4. CASE t = n /\ d = c
    <3>1. replies'[t].cards[d].status = s /\ s \in Past(ledger[d]) /\ s # "absent"
        BY <1>2, <1>6, <2>4
    <3>2. d \in replies'[t].ids
        BY <1>6, <2>4
    <3>3. QED
        BY <2>3, <3>1, <3>2 DEF Holds
  <2>5. CASE t # n \/ d # c
    <3>1. replies'[t].cards[d].status = replies[t].cards[d].status
        BY <1>6, <2>5
    <3>2. replies'[t].ids = IF t = n THEN replies[t].ids \cup {c} ELSE replies[t].ids
        BY <1>6
    <3>3. replies'[t].posed = IF t = n /\ ~Resolved(s) THEN replies[t].posed \cup {c} ELSE replies[t].posed
        BY <1>6
    <3>4. (d \in replies'[t].ids <=> d \in replies[t].ids) /\ (d \in replies'[t].posed => d \in replies[t].posed)
        BY <2>5, <3>2, <3>3
    <3>5. QED
        BY <2>2, <2>3, <3>1, <3>4 DEF Holds
  <2>6. QED
      BY <2>4, <2>5
<1>10. ASSUME NEW d \in Changes, News(d)
       PROVE  News(d)'
  <2>1. CASE \E i \in DOMAIN wire : Moves(i, d) /\ wire[i].status = ledger[d]
    <3>1. PICK i \in DOMAIN wire : Moves(i, d) /\ wire[i].status = ledger[d]
        BY <2>1
    <3>2. i # 1
        BY <1>3, <3>1 DEF Moves
    <3>3. i - 1 \in DOMAIN wire' /\ wire'[i - 1] = wire[i]
        BY <1>2, <3>2
    <3>4. QED
        BY <1>1, <1>10, <3>1, <3>3 DEF News, Moves
  <2>2. CASE \E q \in acts : q.change = d /\ q.got = ledger[d]
      BY <1>1, <1>10, <2>2 DEF News
  <2>3. QED
      BY <1>10, <2>1, <2>2 DEF News
<1>11. ASSUME Resolved(ledger[c]), s # ledger[c], ToCome(c)
       PROVE  News(c)
  <2>1. CASE \E i \in 2..Len(wire) : wire[i].type = "change_update" /\ wire[i].change = c
    <3>1. PICK i \in 2..Len(wire) : wire[i].type = "change_update" /\ wire[i].change = c
        BY <2>1
    <3>2. i \in DOMAIN wire /\ 1 < i
      <4>1. wire \in Seq(Message)
          BY DEF IInv, TypeOK
      <4>2. QED
          BY <4>1
    <3>3. wire[i].status \in Past(ledger[c])
        BY <3>1, <3>2 DEF IInv, RailInv, WireInv
    <3>4. wire[i].status # "staged"
        BY <1>2, <1>3, <3>1, <3>2 DEF IInv, RailInv, WireInv
    <3>5. QED
        BY <1>11, <3>1, <3>2, <3>3, <3>4 DEF News, Moves, Past
  <2>2. CASE \E q \in acts : q.change = c /\ Resolved(q.got)
      BY <1>11, <2>2 DEF News, IInv, RailInv, ActInv, Resolved
  <2>3. QED
      BY <1>11, <2>1, <2>2 DEF ToCome
<1>12. ToldInv'
  <2>1. SUFFICES ASSUME NEW t \in DOMAIN replies, NEW d \in Changes, Holds(replies'[t], d)
                 PROVE  Exempt(t, d)' \/ Settled(t, d)' \/ News(d)'
      BY <1>6 DEF ToldInv
  <2>2. Exempt(t, d) => Exempt(t, d)'
      BY <1>1 DEF Exempt
  <2>3. CASE t # n \/ d # c
    <3>1. Holds(replies[t], d)
        BY <1>6, <2>1, <2>3 DEF Holds
    <3>2. Exempt(t, d) \/ Settled(t, d) \/ News(d)
        BY <3>1 DEF IInv, RailInv, ToldInv
    <3>3. Settled(t, d) => Settled(t, d)'
        BY <1>1, <1>6, <2>3 DEF Settled
    <3>4. QED
        BY <1>10, <2>2, <3>2, <3>3
  <2>4. CASE t = n /\ d = c /\ s # ledger[c]
    <3>1. Resolved(ledger[c])
        BY <1>2, <2>4 DEF Past
    <3>2. CASE ToCome(c)
        BY <1>10, <1>11, <2>4, <3>1, <3>2
    <3>3. CASE ~ToCome(c)
        BY <1>1, <2>4, <3>3 DEF Exempt
    <3>4. QED
        BY <3>2, <3>3
  <2>5. CASE t = n /\ d = c /\ s = ledger[c] /\ c \in replies[t].posed
    <3>1. Holds(replies[t], c)
        BY <2>5 DEF IInv, RailInv, CardInv
    <3>2. Exempt(t, c) \/ Settled(t, c) \/ News(c)
        BY <2>5, <3>1 DEF IInv, RailInv, ToldInv
    <3>3. Settled(t, c) => Settled(t, d)'
      <4>1. replies'[t].cards[d].status = s /\ ledger' = ledger /\ d = c
          BY <1>1, <1>2, <1>6, <2>5
      <4>2. replies'[t].stale = replies[t].stale
          BY <1>6
      <4>3. QED
          BY <2>5, <4>1, <4>2 DEF Settled
    <3>4. d = c
        BY <2>5
    <3>5. News(c) => News(d)'
        BY <1>10, <3>4
    <3>6. Exempt(t, c) => Exempt(t, d)'
        BY <2>2, <3>4
    <3>7. QED
        BY <3>2, <3>3, <3>5, <3>6
  <2>6. CASE t = n /\ d = c /\ s = ledger[c] /\ c \notin replies[t].posed
      BY <1>1, <1>2, <1>6, <2>6 DEF Settled
  <2>7. QED
      BY <2>3, <2>4, <2>5, <2>6
<1>13. ReadInv'
  <2>1. ASSUME NEW d \in Changes, RereadComes(d)
        PROVE  RereadComes(d)'
    <3>1. CASE \E i \in DOMAIN wire : Moves(i, d)
      <4>1. PICK i \in DOMAIN wire : Moves(i, d)
          BY <3>1
      <4>2. i # 1
          BY <1>3, <4>1 DEF Moves
      <4>3. i - 1 \in DOMAIN wire' /\ wire'[i - 1] = wire[i]
          BY <1>2, <4>2
      <4>4. QED
          BY <4>1, <4>3 DEF RereadComes, Moves
    <3>2. CASE dirty \/ \E q \in acts : q.change = d /\ q.got # "absent"
        BY <1>1, <3>2 DEF RereadComes
    <3>3. QED
        BY <2>1, <3>1, <3>2 DEF RereadComes
  <2>2. QED
      BY <1>1, <2>1, ReadsStand DEF IInv
<1>14. TypeOK'
  <2>1. outrun' \subseteq (1..MaxTurns) \X Changes
      BY <1>1, <1>2, <1>4, PortalAssumption DEF IInv, TypeOK
  <2>2. QED
      BY <1>1, <1>2, <1>6, <2>1 DEF IInv, TypeOK
<1>15. QED
    BY <1>7, <1>8, <1>9, <1>12, <1>13, <1>14 DEF IInv, RailInv

LEMMA NewsStep ==
    ASSUME IInv, Deliver, Head(wire).type = "change_update"
    PROVE  IInv'
<1> DEFINE c == Head(wire).change
           s == Head(wire).status
<1>1. /\ wire # << >> /\ wire' = Tail(wire) /\ dirty' = TRUE
      /\ UNCHANGED <<ledger, agent, streaming, rail, acts, view, reads, spent, untold, outrun>>
      /\ replies' = ApplyChangeUpdate(replies, c, s)
    BY DEF Deliver, serviceVars, pageVars
<1>2. /\ c \in Changes /\ s \in Statuses \ {"absent"}
      /\ s \in Past(ledger[c])
      /\ wire' \in Seq(Message)
      /\ Head(wire) = wire[1] /\ 1 \in DOMAIN wire /\ streaming
      /\ \A i \in DOMAIN wire \ {1} : i - 1 \in DOMAIN wire' /\ wire'[i - 1] = wire[i]
    BY <1>1, HeadEffect
<1>3. wire[1].type = "change_update" /\ wire[1].change = c /\ wire[1].status = s
    BY <1>2
<1> HIDE DEF c, s
<1>4. replies \in Seq(Reply)
    BY DEF IInv, TypeOK
<1>5. Rewritten(replies', replies, c, s)
    BY <1>1, <1>2, <1>4, UpdateEffect
<1>6. s = "staged" => \A t \in DOMAIN replies : c \notin replies[t].ids
    BY <1>2, <1>3 DEF IInv, RailInv, WireInv
<1>7. s # "staged" => s = ledger[c] /\ Resolved(s)
    BY <1>2 DEF Past, Resolved, Statuses
<1>8. /\ replies' \in Seq(Reply) /\ Len(replies') = Len(replies) /\ DOMAIN replies' = DOMAIN replies
      /\ \A t \in DOMAIN replies :
           /\ replies'[t].ids = replies[t].ids
           /\ replies'[t].posed = replies[t].posed
           /\ replies'[t].stale <=> replies[t].stale \/ c \in replies[t].ids
           /\ \A d \in Changes :
                /\ replies'[t].cards[d].busy = replies[t].cards[d].busy
                /\ replies'[t].cards[d].status = IF d = c /\ Holds(replies[t], c)
                                                   THEN s ELSE replies[t].cards[d].status
  <2>1. \A t \in DOMAIN replies : c \in replies[t].ids <=> Holds(replies[t], c)
      BY <1>2 DEF IInv, RailInv, CardInv
  <2>2. QED
      BY <1>5, <1>6, <2>1 DEF Rewritten
<1>9. ActInv'
    BY <1>1, <1>8 DEF IInv, RailInv, ActInv
<1>10. WireInv'
    BY <1>1, <1>8, RestOfWire
<1>11. CardInv'
  <2>1. SUFFICES ASSUME NEW t \in DOMAIN replies, NEW d \in Changes
                 PROVE  /\ (d \in replies'[t].ids) <=> Holds(replies'[t], d)
                        /\ Holds(replies'[t], d) => replies'[t].cards[d].status \in Past(ledger[d])
                        /\ d \in replies'[t].posed => d \in replies'[t].ids
                        /\ replies'[t].cards[d].busy =>
                             rail.open /\ \E q \in acts : q.turn = t /\ q.change = d /\ q.rail = rail.nth
      BY <1>1, <1>8 DEF CardInv
  <2>2. /\ (d \in replies[t].ids) <=> Holds(replies[t], d)
        /\ Holds(replies[t], d) => replies[t].cards[d].status \in Past(ledger[d])
        /\ d \in replies[t].posed => d \in replies[t].ids
        /\ replies[t].cards[d].busy =>
             rail.open /\ \E q \in acts : q.turn = t /\ q.change = d /\ q.rail = rail.nth
      BY DEF IInv, RailInv, CardInv
  <2>3. QED
      BY <1>2, <1>8, <2>2 DEF Holds
<1>12. ToldInv'
  <2>1. SUFFICES ASSUME NEW t \in DOMAIN replies, NEW d \in Changes, Holds(replies'[t], d)
                 PROVE  Exempt(t, d)' \/ Settled(t, d)' \/ News(d)'
      BY <1>8 DEF ToldInv
  <2>2. Holds(replies[t], d)
      BY <1>8, <2>1 DEF Holds
  <2>3. CASE d = c
    <3>1. c \in replies[t].ids
        BY <2>2, <2>3 DEF IInv, RailInv, CardInv
    <3>2. s = ledger[c]
        BY <1>6, <1>7, <3>1
    <3>3. QED
        BY <1>1, <1>8, <2>2, <2>3, <3>1, <3>2 DEF Settled
  <2>4. CASE d # c
    <3>1. Exempt(t, d) \/ Settled(t, d) \/ News(d)
        BY <2>2 DEF IInv, RailInv, ToldInv
    <3>2. Exempt(t, d) => Exempt(t, d)'
        BY <1>1 DEF Exempt
    <3>3. Settled(t, d) => Settled(t, d)'
        BY <1>1, <1>8, <2>4 DEF Settled
    <3>4. ASSUME News(d) PROVE News(d)'
      <4>1. CASE \E i \in DOMAIN wire : Moves(i, d) /\ wire[i].status = ledger[d]
        <5>1. PICK i \in DOMAIN wire : Moves(i, d) /\ wire[i].status = ledger[d]
            BY <4>1
        <5>2. i # 1
            BY <1>3, <2>4, <5>1 DEF Moves
        <5>3. i - 1 \in DOMAIN wire' /\ wire'[i - 1] = wire[i]
            BY <1>2, <5>2
        <5>4. QED
            BY <1>1, <3>4, <5>1, <5>3 DEF News, Moves
      <4>2. CASE \E q \in acts : q.change = d /\ q.got = ledger[d]
          BY <1>1, <3>4, <4>2 DEF News
      <4>3. QED
          BY <3>4, <4>1, <4>2 DEF News
    <3>5. QED
        BY <3>1, <3>2, <3>3, <3>4
  <2>5. QED
      BY <2>3, <2>4
<1>13. ReadInv'
  <2>1. \A d \in Changes : RereadComes(d)'
      BY <1>1 DEF RereadComes
  <2>2. QED
      BY <1>1, <2>1, ReadsStand DEF IInv
<1>14. TypeOK'
    BY <1>1, <1>2, <1>8 DEF IInv, TypeOK
<1>15. QED
    BY <1>9, <1>10, <1>11, <1>12, <1>13, <1>14 DEF IInv, RailInv

LEMMA EndTurnStep ==
    ASSUME IInv, EndTurn
    PROVE  IInv'
<1>1. /\ wire = << >> /\ streaming' = FALSE /\ dirty' = FALSE /\ agent' = FALSE
      /\ reads' = IF dirty THEN Refreshed ELSE reads
      /\ UNCHANGED <<ledger, wire, replies, rail, acts, view, spent, untold, outrun>>
    BY DEF EndTurn, TurnEnd, railVars, historyVars
<1>2. ActInv'
    BY <1>1 DEF IInv, RailInv, ActInv
<1>3. WireInv'
    BY <1>1 DEF IInv, RailInv, WireInv
<1>4. CardInv'
    BY <1>1 DEF IInv, RailInv, CardInv, Holds
<1>5. ToldInv'
    BY <1>1 DEF IInv, RailInv, ToldInv, Holds, Exempt, Settled, News, Moves
<1>6. ReadInv'
  <2>1. CASE dirty
      BY <1>1, <2>1, RefreshedReads DEF IInv
  <2>2. CASE ~dirty
    <3>1. \A d \in Changes : RereadComes(d) => RereadComes(d)'
        BY <1>1, <2>2 DEF RereadComes, Moves
    <3>2. QED
        BY <1>1, <2>2, <3>1, ReadsStand DEF IInv
  <2>3. QED
      BY <2>1, <2>2
<1>7. TypeOK'
  <2>1. reads' \in [Resources -> Resource]
      BY <1>1, RefreshedType DEF IInv, TypeOK
  <2>2. QED
      BY <1>1, <2>1 DEF IInv, TypeOK
<1>8. QED
    BY <1>2, <1>3, <1>4, <1>5, <1>6, <1>7 DEF IInv, RailInv

LEMMA BreakStep ==
    ASSUME IInv, Break
    PROVE  IInv'
<1> DEFINE lost == {wire[i].change : i \in {j \in 1..Len(wire) : wire[j].type = "change_update"}}
<1>1. /\ wire' = << >> /\ streaming' = FALSE /\ dirty' = FALSE /\ Spend
      /\ reads' = IF dirty THEN Refreshed ELSE reads
      /\ untold' = untold \cup lost
      /\ UNCHANGED <<ledger, agent, replies, rail, acts, view, outrun>>
    BY DEF Break, TurnEnd, serviceVars, railVars
<1>2. wire \in Seq(Message) /\ DOMAIN wire = 1..Len(wire) /\ \A i \in DOMAIN wire : wire[i].change \in Changes
  <2>1. wire \in Seq(Message)
      BY DEF IInv, TypeOK
  <2>2. \A i \in DOMAIN wire : wire[i] \in Message
      BY <2>1
  <2>3. QED
      BY <2>1, <2>2 DEF Message
<1>3. untold' \subseteq Changes /\ untold \subseteq untold'
    BY <1>1, <1>2 DEF IInv, TypeOK
<1>4. \A i \in DOMAIN wire, d \in Changes : Moves(i, d) => d \in untold'
    BY <1>1, <1>2 DEF Moves
<1> HIDE DEF lost
<1>5. ActInv'
    BY <1>1 DEF IInv, RailInv, ActInv
<1>6. WireInv'
    BY <1>1, EmptySeq DEF WireInv
<1>7. CardInv'
    BY <1>1 DEF IInv, RailInv, CardInv, Holds
<1>8. ToldInv'
  <2>1. \A d \in Changes : News(d) => d \in untold' \/ News(d)'
      BY <1>1, <1>4 DEF News
  <2>2. QED
      BY <1>1, <1>3, <2>1 DEF IInv, RailInv, ToldInv, Holds, Exempt, Settled
<1>9. ReadInv'
  <2>1. CASE dirty
      BY <1>1, <2>1, RefreshedReads DEF IInv
  <2>2. CASE ~dirty
    <3>1. \A d \in Changes \ untold' : RereadComes(d) => RereadComes(d)'
        BY <1>1, <1>4, <2>2 DEF RereadComes
    <3>2. QED
        BY <1>1, <1>3, <2>2, <3>1, ReadsStand DEF IInv
  <2>3. QED
      BY <2>1, <2>2
<1>10. TypeOK'
  <2>1. reads' \in [Resources -> Resource]
      BY <1>1, RefreshedType DEF IInv, TypeOK
  <2>2. wire' \in Seq(Message)
      BY <1>1
  <2>3. {agent', streaming', dirty'} \subseteq BOOLEAN
    <3>1. agent \in BOOLEAN
        BY DEF IInv, TypeOK
    <3>2. agent' = agent /\ streaming' = FALSE /\ dirty' = FALSE
        BY <1>1
    <3>3. QED
        BY <3>1, <3>2
  <2>4. spent' \in 0..MaxSpent
      BY <1>1, SpendOK DEF IInv
  <2>5. QED
      BY <1>1, <1>3, <2>1, <2>2, <2>3, <2>4 DEF IInv, TypeOK
<1>11. QED
    BY <1>5, <1>6, <1>7, <1>8, <1>9, <1>10 DEF IInv, RailInv

(***************************************************************************)
(* The theorems                                                            *)
(***************************************************************************)

LEMMA StepKeeps ==
    ASSUME IInv, [Next]_vars
    PROVE  IInv'
<1>1. CASE UNCHANGED vars
  <2>1. UNCHANGED <<serviceVars, streamVars, railVars, pageVars, spent, historyVars>>
      BY <1>1 DEF vars
  <2>2. UNCHANGED <<ledger, view, reads, spent, untold, dirty, wire, acts>>
      BY <2>1 DEF serviceVars, streamVars, railVars, pageVars, historyVars
  <2>3. ReadInv'
      BY <2>2, ReadsStand DEF IInv, RereadComes, Moves
  <2>4. QED
      BY <2>1, <2>2, <2>3, ReadStep DEF IInv, TypeOK
<1>2. CASE \E r \in Resources : ReadAnswered(r) \/ ReadFails(r) \/ LateAnswered(r)
    BY <1>2, ReadAnsweredStep, ReadFailsStep, LateAnsweredStep
<1>3. CASE \E c \in Changes : AgentStages(c) \/ AgentDiscards(c) \/ AgentPresents(c)
  <2>1. ASSUME NEW c \in Changes, AgentStages(c) PROVE IInv'
      BY <2>1, AgentMovesStep DEF AgentStages
  <2>2. ASSUME NEW c \in Changes, AgentDiscards(c) PROVE IInv'
      BY <2>2, AgentMovesStep DEF AgentDiscards, Outcome
  <2>3. QED
      BY <1>3, <2>1, <2>2, AgentPresentsStep
<1>4. CASE Deliver
    BY <1>4, PreviewStep, NewsStep DEF Deliver
<1>5. CASE \E t \in DOMAIN replies, c \in Changes, to \in Outcome : Act(t, c, to)
    BY <1>5, ActStep
<1>6. CASE \E q \in acts : ServeAct(q) \/ ActAnswered(q)
    BY <1>6, ServeActStep, ActAnsweredStep
<1>7. CASE \E c \in Changes, to \in Outcome : Elsewhere(c, to)
    BY <1>7, ElsewhereStep
<1>8. CASE \E v \in Views : Navigate(v)
    BY <1>8, NavigateStep
<1>9. QED
    BY <1>1, <1>2, <1>3, <1>4, <1>5, <1>6, <1>7, <1>8, SessionStartsStep, CloseRailStep, OpenRailStep,
       SendStep, EndTurnStep, BreakStep DEF Next

\* No order of events, answers, gestures and moves gives the page a value it has no case for.
THEOREM TypeCorrect == Spec => []TypeOK
<1>1. IInv => TypeOK
    BY DEF IInv
<1>2. QED
    BY <1>1, InitInvariant, StepKeeps, PTL DEF Spec

\* Once all is quiet, every card of every reply says what the ledger says and can be pressed,
\* unless the page was never told (applyChangeUpdate, actOnChange, useChangeActions).
THEOREM CardsTold == Spec => []CardsTellTheLedger
<1>1. IInv => CardsTellTheLedger
  <2>1. SUFFICES ASSUME IInv, ~streaming, acts = {}, NEW t \in DOMAIN replies, NEW c \in Changes,
                        Holds(replies[t], c)
                 PROVE  /\ ~replies[t].cards[c].busy
                        /\ Exempt(t, c) \/ Settled(t, c)
      BY DEF CardsTellTheLedger, Exempt, Settled
  <2>2. wire = << >>
      BY <2>1 DEF IInv, RailInv, WireInv
  <2>3. ~News(c)
      BY <2>1, <2>2, EmptySeq DEF News
  <2>4. QED
      BY <2>1, <2>3 DEF IInv, RailInv, CardInv, ToldInv
<1>2. QED
    BY <1>1, InitInvariant, StepKeeps, PTL DEF Spec

\* What the page waits for is all there is to come.
LEMMA NothingToCome ==
    ASSUME IInv, AtRest
    PROVE  wire = << >> /\ \A c \in Changes : ~RereadComes(c)
<1>1. wire = << >> /\ ~dirty /\ acts = {}
    BY DEF AtRest, IInv, RailInv, WireInv
<1>2. QED
    BY <1>1, EmptySeq DEF RereadComes

\* Once all is quiet a mounted view has read the store as it is, but for a failed read and for
\* changes the page was not told of (useResource, refreshKey).
LEMMA ViewsAreCurrent ==
    ASSUME IInv, AtRest, NEW r \in Mounted
    PROVE  Current(r) /\ (reads[r].failed \/ Shown(r) \in Ledgers)
<1>1. r \in Resources /\ reads[r].out = {}
    BY MountedReads DEF AtRest
<1>2. \A c \in Changes \ untold : ReadsRight(r, c)
    BY NothingToCome DEF IInv, ReadInv
<1>3. QED
    BY <1>1, <1>2 DEF ReadsRight, Current, IInv, ReadInv

(***************************************************************************)
(* Sequences of the pages                                                  *)
(*                                                                         *)
(* A filter and a concatenation are one recursive function, FlattenSeq:    *)
(* that there is one, what it holds and how long it is are by induction    *)
(* on the sequences, and that by a least element of the numbers.           *)
(***************************************************************************)

Below == {p \in Nat \X Nat : p[1] < p[2]}

LEMMA Least ==
    ASSUME NEW T, T \subseteq Nat, T # {}
    PROVE  \E x \in T : \A y \in T : x <= y
<1>1. IsWellFoundedOn(Below, Nat)
  <2>1. OpToRel(<, Nat) = Below
      BY DEF OpToRel, Below
  <2>2. QED
      BY <2>1, NatLessThanWellFounded
<1>2. PICK x \in T : \A y \in T : ~(<<y, x>> \in Below)
    BY <1>1, WFMin
<1>3. x \in Nat /\ \A y \in T : y \in Nat
    OBVIOUS
<1>4. \A y \in T : ~(y < x)
    BY <1>2, <1>3 DEF Below
<1>5. QED
    BY <1>3, <1>4

LEMMA NumberInduction ==
    ASSUME NEW S, 0 \in S, \A n \in Nat : n \in S => n + 1 \in S
    PROVE  Nat \subseteq S
<1> DEFINE T == Nat \ S
<1>1. SUFFICES ASSUME T # {} PROVE FALSE
    OBVIOUS
<1>2. PICK x \in T : \A y \in T : x <= y
    BY <1>1, Least
<1>3. x # 0
    OBVIOUS
<1>4. x - 1 \in Nat /\ x - 1 \notin T
    BY <1>2, <1>3
<1>5. QED
    BY <1>4

\* A set with the empty sequence, and with every sequence that is one longer than one of
\* its own, has all sequences.
LEMMA SequenceInduction ==
    ASSUME NEW S, NEW T, << >> \in T,
           \A s \in Seq(S), e \in S : s \in T => Append(s, e) \in T
    PROVE  Seq(S) \subseteq T
<1> DEFINE N == {n \in Nat : \A s \in Seq(S) : Len(s) = n => s \in T}
<1>1. 0 \in N
  <2>1. \A s \in Seq(S) : Len(s) = 0 => s = << >>
      BY EmptySeq
  <2>2. QED
      BY <2>1
<1>2. ASSUME NEW n \in Nat, n \in N PROVE n + 1 \in N
  <2>1. SUFFICES ASSUME NEW s \in Seq(S), Len(s) = n + 1 PROVE s \in T
      OBVIOUS
  <2> DEFINE front == SubSeq(s, 1, n)
  <2>2. \A i \in 1..n : s[i] \in S
      BY <2>1, ElementOfSeq
  <2>3. front \in Seq(S) /\ Len(front) = n /\ \A i \in 1..n : front[i] = s[i]
      BY <2>1, <2>2, SubSeqProperties
  <2> HIDE DEF front
  <2>4. s[n + 1] \in S
      BY <2>1, ElementOfSeq
  <2>5. s = Append(front, s[n + 1])
    <3> DEFINE t == Append(front, s[n + 1])
    <3>1. t \in Seq(S) /\ Len(t) = n + 1 /\ t[n + 1] = s[n + 1] /\ \A i \in 1..n : t[i] = front[i]
        BY <2>3, <2>4, AppendProperties
    <3> HIDE DEF t
    <3>2. \A i \in 1..(n + 1) : s[i] = t[i]
        BY <2>3, <3>1
    <3>3. s = t
        BY <2>1, <3>1, <3>2, SeqEqual
    <3>4. QED
        BY <3>3 DEF t
  <2>6. front \in T
      BY <1>2, <2>3
  <2>7. QED
      BY <2>3, <2>4, <2>5, <2>6
<1>3. Nat \subseteq N
  <2> HIDE DEF N
  <2>1. QED
      BY <1>1, <1>2, NumberInduction
<1>4. QED
    BY <1>3, LenProperties

\* f[k] is the first k parts in a row, for k up to n.
Flattens(f, parts, n) ==
    f = [k \in 1..n |-> IF k = 1 THEN parts[k] ELSE f[k - 1] \o parts[k]]

LEMMA FlattenExists ==
    ASSUME NEW parts
    PROVE  \A n \in Nat : \E f : Flattens(f, parts, n)
<1> DEFINE S == {n \in Nat : \E f : Flattens(f, parts, n)}
<1>1. 0 \in S
  <2>1. Flattens([k \in 1..0 |-> << >>], parts, 0)
      BY DEF Flattens
  <2>2. QED
      BY <2>1
<1>2. ASSUME NEW n \in Nat, n \in S PROVE n + 1 \in S
  <2>1. PICK f : Flattens(f, parts, n)
      BY <1>2
  <2> DEFINE last == IF n = 0 THEN parts[n + 1] ELSE f[n] \o parts[n + 1]
             g == [k \in 1..(n + 1) |-> IF k = n + 1 THEN last ELSE f[k]]
  <2>2. \A k \in 1..n : g[k] = f[k]
      OBVIOUS
  <2>3. ASSUME NEW k \in 1..(n + 1)
        PROVE  g[k] = IF k = 1 THEN parts[k] ELSE g[k - 1] \o parts[k]
    <3>1. CASE k = n + 1
      <4>1. k - 1 = n /\ g[k] = last /\ (k = 1 <=> n = 0) /\ (n # 0 => n \in 1..n)
          BY <3>1
      <4> HIDE DEF g
      <4>2. QED
          BY <2>2, <3>1, <4>1
    <3>2. CASE k # n + 1
      <4>1. k \in 1..n /\ (k # 1 => k - 1 \in 1..n)
          BY <3>2
      <4>2. f[k] = IF k = 1 THEN parts[k] ELSE f[k - 1] \o parts[k]
          BY <2>1, <4>1 DEF Flattens
      <4> HIDE DEF g, last
      <4>3. QED
          BY <2>2, <4>1, <4>2
    <3>3. QED
        BY <3>1, <3>2
  <2>4. Flattens(g, parts, n + 1)
    <3>1. g = [k \in 1..(n + 1) |-> g[k]]
        OBVIOUS
    <3> HIDE DEF g
    <3>2. QED
        BY <2>3, <3>1 DEF Flattens
  <2>5. QED
      BY <2>4
<1> HIDE DEF S
<1>3. Nat \subseteq S
    BY <1>1, <1>2, NumberInduction
<1>4. QED
    BY <1>3 DEF S

Agree(a, b, n) == \A k \in 1..n : a[k] = b[k]

LEMMA FlattensAgree ==
    ASSUME NEW a, NEW b, NEW m \in Nat, NEW n \in Nat, m <= n, Agree(a, b, m),
           NEW f, Flattens(f, a, m), NEW g, Flattens(g, b, n), NEW j \in 1..m
    PROVE  f[j] = g[j]
<1> DEFINE S == {k \in Nat : k \in 1..m => f[k] = g[k]}
<1>1. 0 \in S
    OBVIOUS
<1>2. ASSUME NEW k \in Nat, k \in S PROVE k + 1 \in S
  <2>1. SUFFICES ASSUME k + 1 <= m PROVE f[k + 1] = g[k + 1]
      OBVIOUS
  <2>2. /\ k + 1 \in 1..m /\ k + 1 \in 1..n /\ (k + 1) - 1 = k
        /\ k + 1 # 1 => k \in 1..m
      BY <2>1
  <2>3. k + 1 # 1 => f[k] = g[k]
      BY <1>2, <2>2
  <2>4. f[k + 1] = IF k + 1 = 1 THEN a[k + 1] ELSE f[(k + 1) - 1] \o a[k + 1]
      BY <2>2 DEF Flattens
  <2>5. g[k + 1] = IF k + 1 = 1 THEN b[k + 1] ELSE g[(k + 1) - 1] \o b[k + 1]
      BY <2>2 DEF Flattens
  <2>6. a[k + 1] = b[k + 1]
      BY <2>2 DEF Agree
  <2>7. QED
      BY <2>2, <2>3, <2>4, <2>5, <2>6
<1> HIDE DEF S
<1>3. Nat \subseteq S
    BY <1>1, <1>2, NumberInduction
<1>4. j \in S
    BY <1>3
<1>5. QED
    BY <1>4 DEF S

LEMMA FlattenBuilt ==
    ASSUME NEW parts, NEW n \in Nat, n # 0, Len(parts) = n, NEW f, Flattens(f, parts, n)
    PROVE  FlattenSeq(parts) = f[n]
<1> DEFINE g == CHOOSE h : Flattens(h, parts, n)
<1>1. Flattens(g, parts, n)
    BY FlattenExists
<1>2. FlattenSeq(parts) = g[n]
    BY DEF FlattenSeq, Flattens
<1> HIDE DEF g
<1>3. n \in 1..n /\ n <= n /\ Agree(parts, parts, n)
    BY DEF Agree
<1>4. g[n] = f[n]
    BY <1>1, <1>3, FlattensAgree
<1>5. QED
    BY <1>2, <1>4

\* One more part is put behind the rest.
LEMMA FlattenOneMore ==
    ASSUME NEW parts, NEW more, NEW n \in Nat, Len(parts) = n, Len(more) = n + 1,
           \A k \in 1..n : parts[k] = more[k]
    PROVE  FlattenSeq(more) = IF n = 0 THEN more[n + 1] ELSE FlattenSeq(parts) \o more[n + 1]
<1>1. /\ n + 1 \in Nat /\ n + 1 # 0 /\ n + 1 \in 1..(n + 1) /\ (n + 1) - 1 = n /\ n <= n + 1
      /\ Agree(parts, more, n)
    BY DEF Agree
<1>2. PICK f : Flattens(f, parts, n)
    BY FlattenExists
<1>3. PICK g : Flattens(g, more, n + 1)
    BY <1>1, FlattenExists
<1>4. FlattenSeq(more) = g[n + 1]
    BY <1>1, <1>3, FlattenBuilt
<1>5. g[n + 1] = IF n + 1 = 1 THEN more[n + 1] ELSE g[(n + 1) - 1] \o more[n + 1]
    BY <1>1, <1>3 DEF Flattens
<1>6. CASE n = 0
    BY <1>4, <1>5, <1>6
<1>7. CASE n # 0
  <2>1. FlattenSeq(parts) = f[n]
      BY <1>2, <1>7, FlattenBuilt
  <2>2. n \in 1..n /\ n + 1 # 1
      BY <1>7
  <2>3. f[n] = g[n]
      BY <1>1, <1>2, <1>3, <2>2, FlattensAgree
  <2>4. QED
      BY <1>1, <1>4, <1>5, <1>7, <2>1, <2>2, <2>3
<1>8. QED
    BY <1>6, <1>7

LEMMA FlattenLonger ==
    ASSUME NEW S, NEW parts \in Seq(Seq(S)), NEW x \in Seq(S)
    PROVE  FlattenSeq(Append(parts, x)) = FlattenSeq(parts) \o x
<1> DEFINE n == Len(parts)
           more == Append(parts, x)
<1>1. /\ n \in Nat /\ Len(more) = n + 1 /\ more[n + 1] = x
      /\ \A k \in 1..n : parts[k] = more[k]
    BY AppendProperties
<1>2. n = 0 => FlattenSeq(parts) = << >>
    BY EmptySeq DEF FlattenSeq
<1> HIDE DEF n, more
<1>3. FlattenSeq(more) = IF n = 0 THEN more[n + 1] ELSE FlattenSeq(parts) \o more[n + 1]
    BY <1>1, FlattenOneMore DEF n
<1>4. << >> \o x = x
    BY ConcatEmptySeq
<1>5. QED
    BY <1>1, <1>2, <1>3, <1>4 DEF more

LEMMA ElemsOfConcat ==
    ASSUME NEW S, NEW s \in Seq(S), NEW t \in Seq(S)
    PROVE  /\ s \o t \in Seq(S) /\ Len(s \o t) = Len(s) + Len(t)
           /\ Elems(s \o t) = Elems(s) \cup Elems(t)
<1> DEFINE st == s \o t
<1>1. /\ st \in Seq(S) /\ Len(st) = Len(s) + Len(t) /\ Len(s) \in Nat /\ Len(t) \in Nat
      /\ \A i \in 1..Len(st) : st[i] = IF i <= Len(s) THEN s[i] ELSE t[i - Len(s)]
    BY ConcatProperties, LenProperties
<1> HIDE DEF st
<1>2. ASSUME NEW x \in Elems(st) PROVE x \in Elems(s) \cup Elems(t)
  <2>1. PICK i \in 1..Len(st) : x = st[i]
      BY DEF Elems
  <2>2. CASE i <= Len(s)
    <3>1. i \in 1..Len(s) /\ x = s[i]
        BY <1>1, <2>1, <2>2
    <3>2. QED
        BY <3>1 DEF Elems
  <2>3. CASE ~(i <= Len(s))
    <3>1. i - Len(s) \in 1..Len(t) /\ x = t[i - Len(s)]
        BY <1>1, <2>1, <2>3
    <3>2. QED
        BY <3>1 DEF Elems
  <2>4. QED
      BY <2>2, <2>3
<1>3. ASSUME NEW i \in 1..Len(s) PROVE s[i] \in Elems(st)
  <2>1. i \in 1..Len(st) /\ st[i] = s[i]
      BY <1>1
  <2>2. QED
      BY <2>1 DEF Elems
<1>4. ASSUME NEW i \in 1..Len(t) PROVE t[i] \in Elems(st)
  <2>1. i + Len(s) \in 1..Len(st) /\ ~(i + Len(s) <= Len(s)) /\ (i + Len(s)) - Len(s) = i
      BY <1>1
  <2>2. st[i + Len(s)] = t[i]
      BY <1>1, <2>1
  <2>3. QED
      BY <2>1, <2>2 DEF Elems
<1>5. Elems(s) \cup Elems(t) \subseteq Elems(st)
    BY <1>3, <1>4 DEF Elems
<1>6. QED
    BY <1>1, <1>2, <1>5 DEF st

LEMMA ElemsFacts ==
    /\ Elems(<< >>) = {}
    /\ \A x : Elems(<<x>>) = {x}
    /\ \A S : \A s \in Seq(S) : Elems(s) \subseteq S
    /\ \A S : \A s \in Seq(S), x \in S : Elems(Append(s, x)) = Elems(s) \cup {x}
<1>1. Elems(<< >>) = {} /\ \A x : Elems(<<x>>) = {x}
    BY DEF Elems
<1>2. \A S : \A s \in Seq(S) : Elems(s) \subseteq S
    BY ElementOfSeq DEF Elems
<1>3. ASSUME NEW S, NEW s \in Seq(S), NEW x \in S
      PROVE  Elems(Append(s, x)) = Elems(s) \cup {x}
  <2>1. <<x>> \in Seq(S) /\ Append(s, x) = s \o <<x>>
      BY AppendIsConcat
  <2>2. Elems(s \o <<x>>) = Elems(s) \cup Elems(<<x>>)
      BY <2>1, ElemsOfConcat
  <2>3. Elems(<<x>>) = {x}
      BY <1>1
  <2> HIDE DEF Elems
  <2>4. QED
      BY <2>1, <2>2, <2>3
<1>4. QED
    BY <1>1, <1>2, <1>3

\* What the parts hold is what they hold in a row.
LEMMA FlattenType ==
    ASSUME NEW S
    PROVE  \A parts \in Seq(Seq(S)) :
              /\ FlattenSeq(parts) \in Seq(S)
              /\ Elems(FlattenSeq(parts)) = UNION {Elems(parts[i]) : i \in 1..Len(parts)}
<1> DEFINE All(parts) == UNION {Elems(parts[i]) : i \in 1..Len(parts)}
           T == {parts \in Seq(Seq(S)) : FlattenSeq(parts) \in Seq(S) /\ Elems(FlattenSeq(parts)) = All(parts)}
<1>1. << >> \in T
  <2>1. FlattenSeq(<< >>) = << >> /\ << >> \in Seq(S) /\ << >> \in Seq(Seq(S)) /\ Len(<< >>) = 0
      BY EmptySeq DEF FlattenSeq
  <2>2. All(<< >>) = {}
      BY <2>1
  <2> HIDE DEF All
  <2>3. QED
      BY <2>1, <2>2, ElemsFacts
<1>2. ASSUME NEW parts \in Seq(Seq(S)), NEW x \in Seq(S), parts \in T
      PROVE  Append(parts, x) \in T
  <2> DEFINE more == Append(parts, x)
  <2>1. /\ more \in Seq(Seq(S)) /\ Len(more) = Len(parts) + 1 /\ Len(parts) \in Nat
        /\ more[Len(parts) + 1] = x /\ \A i \in 1..Len(parts) : more[i] = parts[i]
      BY AppendProperties, LenProperties
  <2>2. FlattenSeq(more) = FlattenSeq(parts) \o x
      BY FlattenLonger
  <2> HIDE DEF more
  <2>3. All(more) = All(parts) \cup Elems(x)
    <3>1. \A i \in 1..Len(more) : i = Len(parts) + 1 \/ i \in 1..Len(parts)
        BY <2>1
    <3>2. 1..Len(parts) \subseteq 1..Len(more) /\ Len(parts) + 1 \in 1..Len(more)
        BY <2>1
    <3>3. \A y : y \in All(more) => y \in All(parts) \cup Elems(x)
      <4>1. SUFFICES ASSUME NEW i \in 1..Len(more), NEW y \in Elems(more[i])
                     PROVE  y \in All(parts) \cup Elems(x)
          OBVIOUS
      <4>2. CASE i = Len(parts) + 1
          BY <2>1, <4>2
      <4>3. CASE i \in 1..Len(parts)
          BY <2>1, <4>3
      <4>4. QED
          BY <3>1, <4>2, <4>3
    <3>4. \A y \in All(parts) : y \in All(more)
      <4>1. SUFFICES ASSUME NEW i \in 1..Len(parts), NEW y \in Elems(parts[i])
                     PROVE  y \in All(more)
          OBVIOUS
      <4>2. i \in 1..Len(more) /\ y \in Elems(more[i])
          BY <2>1, <3>2
      <4>3. QED
          BY <4>2
    <3>5. \A y \in Elems(x) : y \in All(more)
        BY <2>1, <3>2
    <3> HIDE DEF All
    <3>6. QED
        BY <3>3, <3>4, <3>5
  <2>4. FlattenSeq(parts) \in Seq(S) /\ Elems(FlattenSeq(parts)) = All(parts)
      BY <1>2
  <2> HIDE DEF All
  <2>5. FlattenSeq(more) \in Seq(S) /\ Elems(FlattenSeq(more)) = All(more)
      BY <2>2, <2>3, <2>4, ElemsOfConcat
  <2>6. QED
      BY <2>1, <2>5 DEF more
<1> HIDE DEF T, All
<1>3. Seq(Seq(S)) \subseteq T
    BY <1>1, <1>2, SequenceInduction
<1>4. QED
    BY <1>3 DEF T, All

\* A filter takes a longer sequence as it took the shorter one.
LEMMA AmongLonger ==
    ASSUME NEW S, NEW s \in Seq(S), NEW e \in S, NEW T
    PROVE  Among(Append(s, e), T) = Among(s, T) \o (IF e \in T THEN <<e>> ELSE << >>)
<1> DEFINE Part(x) == IF x \in T THEN <<x>> ELSE << >>
           parts == [i \in 1..Len(s) |-> Part(s[i])]
           more == Append(s, e)
<1>1. \A x \in S : Part(x) \in Seq(S)
    BY EmptySeq
<1>2. /\ Len(more) = Len(s) + 1 /\ Len(s) \in Nat /\ more[Len(s) + 1] = e
      /\ \A i \in 1..Len(s) : more[i] = s[i] /\ s[i] \in S
    BY AppendProperties, ElementOfSeq, LenProperties
<1> HIDE DEF Part, more
<1>3. parts \in Seq(Seq(S)) /\ Len(parts) = Len(s)
  <2>1. \A i \in 1..Len(s) : Part(s[i]) \in Seq(S)
      BY <1>1, <1>2
  <2>2. parts \in [1..Len(s) -> Seq(S)]
      BY <2>1
  <2> HIDE DEF parts
  <2>3. QED
      BY <1>2, <2>2
<1>4. Append(parts, Part(e)) = [i \in 1..Len(more) |-> Part(more[i])]
  <2> DEFINE a == Append(parts, Part(e))
             b == [i \in 1..Len(more) |-> Part(more[i])]
  <2>1. /\ a \in Seq(Seq(S)) /\ Len(a) = Len(s) + 1 /\ a[Len(s) + 1] = Part(e)
        /\ \A i \in 1..Len(s) : a[i] = parts[i]
      BY <1>1, <1>3, AppendProperties
  <2>2. \A i \in 1..Len(s) : parts[i] = Part(s[i])
      OBVIOUS
  <2>3. a = [i \in 1..(Len(s) + 1) |-> a[i]]
    <3>1. DOMAIN a = 1..(Len(s) + 1)
        BY <2>1, LenProperties
    <3>2. a \in [1..(Len(s) + 1) -> Seq(S)]
        BY <2>1, LenProperties
    <3> HIDE DEF a
    <3>3. QED
        BY <3>2
  <2> HIDE DEF a, parts
  <2>4. \A i \in 1..(Len(s) + 1) : a[i] = Part(more[i])
    <3>1. SUFFICES ASSUME NEW i \in 1..(Len(s) + 1) PROVE a[i] = Part(more[i])
        OBVIOUS
    <3>2. CASE i = Len(s) + 1
        BY <1>2, <2>1, <3>2
    <3>3. CASE i # Len(s) + 1
      <4>1. i \in 1..Len(s)
          BY <1>2, <3>3
      <4>2. QED
          BY <1>2, <2>1, <2>2, <4>1
    <3>4. QED
        BY <3>2, <3>3
  <2>5. QED
      BY <1>2, <2>3, <2>4 DEF a
<1>5. FlattenSeq(Append(parts, Part(e))) = FlattenSeq(parts) \o Part(e)
    BY <1>1, <1>3, FlattenLonger
<1>6. Among(more, T) = FlattenSeq([i \in 1..Len(more) |-> Part(more[i])])
    BY DEF Among, Part
<1>7. Among(s, T) = FlattenSeq(parts)
    BY DEF Among, Part
<1>8. QED
    BY <1>4, <1>5, <1>6, <1>7 DEF Part, more

LEMMA AmongNothing ==
    ASSUME NEW T
    PROVE  Among(<< >>, T) = << >>
<1>1. Len([i \in 1..Len(<< >>) |-> IF << >>[i] \in T THEN <<<< >>[i]>> ELSE << >>]) = 0
    OBVIOUS
<1>2. [i \in 1..Len(<< >>) |-> IF << >>[i] \in T THEN <<<< >>[i]>> ELSE << >>] = << >>
    OBVIOUS
<1>3. QED
    BY <1>1, <1>2 DEF Among, FlattenSeq

\* A filter's items are those of the sequence that are in the set.
LEMMA AmongType ==
    ASSUME NEW S, NEW T
    PROVE  \A s \in Seq(S) : Among(s, T) \in Seq(S) /\ Elems(Among(s, T)) = Elems(s) \cap T
<1> DEFINE D == {s \in Seq(S) : Among(s, T) \in Seq(S) /\ Elems(Among(s, T)) = Elems(s) \cap T}
<1>1. << >> \in D
    BY AmongNothing, ElemsFacts, EmptySeq
<1>2. ASSUME NEW s \in Seq(S), NEW e \in S, s \in D PROVE Append(s, e) \in D
  <2> DEFINE last == IF e \in T THEN <<e>> ELSE << >>
  <2>1. last \in Seq(S) /\ Elems(last) = {e} \cap T
      BY ElemsFacts, EmptySeq
  <2>2. Among(Append(s, e), T) = Among(s, T) \o last
      BY AmongLonger
  <2> HIDE DEF last
  <2>3. /\ Among(s, T) \o last \in Seq(S)
        /\ Elems(Among(s, T) \o last) = (Elems(s) \cap T) \cup ({e} \cap T)
      BY <1>2, <2>1, ElemsOfConcat
  <2>4. Append(s, e) \in Seq(S) /\ Elems(Append(s, e)) = Elems(s) \cup {e}
      BY AppendProperties, ElemsFacts
  <2>5. QED
      BY <2>2, <2>3, <2>4
<1> HIDE DEF D
<1>3. Seq(S) \subseteq D
    BY <1>1, <1>2, SequenceInduction
<1>4. QED
    BY <1>3 DEF D

\* Two filters that share nothing take as many items as one that takes what either does.
LEMMA AmongEither ==
    ASSUME NEW S, NEW A, NEW B, A \cap B = {}
    PROVE  \A s \in Seq(S) : Len(Among(s, A \cup B)) = Len(Among(s, A)) + Len(Among(s, B))
<1> DEFINE D == {s \in Seq(S) : Len(Among(s, A \cup B)) = Len(Among(s, A)) + Len(Among(s, B))}
           Part(e, T) == IF e \in T THEN <<e>> ELSE << >>
<1>1. << >> \in D
    BY AmongNothing, EmptySeq
<1>2. ASSUME NEW s \in Seq(S), NEW e \in S, s \in D PROVE Append(s, e) \in D
  <2>1. \A T : /\ Part(e, T) \in Seq(S)
               /\ Len(Part(e, T)) = IF e \in T THEN 1 ELSE 0
      BY EmptySeq
  <2>2. ASSUME NEW T
        PROVE  /\ Len(Among(Append(s, e), T)) = Len(Among(s, T)) + (IF e \in T THEN 1 ELSE 0)
               /\ Len(Among(s, T)) \in Nat
    <3>1. Among(Append(s, e), T) = Among(s, T) \o Part(e, T)
        BY AmongLonger
    <3>2. Among(s, T) \in Seq(S)
        BY AmongType
    <3>3. Part(e, T) \in Seq(S) /\ Len(Part(e, T)) = IF e \in T THEN 1 ELSE 0
        BY <2>1
    <3> HIDE DEF Part
    <3>4. Len(Among(s, T) \o Part(e, T)) = Len(Among(s, T)) + Len(Part(e, T))
        BY <3>2, <3>3, ElemsOfConcat
    <3>5. QED
        BY <3>1, <3>2, <3>3, <3>4, LenProperties
  <2>3. Len(Among(s, A \cup B)) = Len(Among(s, A)) + Len(Among(s, B))
      BY <1>2
  <2>4. Len(Among(Append(s, e), A \cup B)) = Len(Among(Append(s, e), A)) + Len(Among(Append(s, e), B))
    <3>1. CASE e \in A
      <4>1. e \in A \cup B /\ e \notin B
          BY <3>1
      <4>2. QED
          BY <2>2, <2>3, <3>1, <4>1
    <3>2. CASE e \in B
      <4>1. e \in A \cup B /\ e \notin A
          BY <3>2
      <4>2. QED
          BY <2>2, <2>3, <3>2, <4>1
    <3>3. CASE e \notin A /\ e \notin B
      <4>1. e \notin A \cup B
          BY <3>3
      <4>2. QED
          BY <2>2, <2>3, <3>3, <4>1
    <3>4. QED
        BY <3>1, <3>2, <3>3
  <2>5. QED
      BY <2>4, AppendProperties
<1> HIDE DEF D
<1>3. Seq(S) \subseteq D
    BY <1>1, <1>2, SequenceInduction
<1>4. QED
    BY <1>3 DEF D

\* A filter that keeps everything.
LEMMA AmongAll ==
    ASSUME NEW S, NEW T
    PROVE  \A s \in Seq(S) : Elems(s) \subseteq T => Among(s, T) = s
<1> DEFINE D == {s \in Seq(S) : Elems(s) \subseteq T => Among(s, T) = s}
<1>1. << >> \in D
    BY AmongNothing, EmptySeq
<1>2. ASSUME NEW s \in Seq(S), NEW e \in S, s \in D PROVE Append(s, e) \in D
  <2>1. SUFFICES ASSUME Elems(Append(s, e)) \subseteq T PROVE Among(Append(s, e), T) = Append(s, e)
      BY AppendProperties
  <2>2. Elems(s) \subseteq T /\ e \in T
      BY <2>1, ElemsFacts
  <2>3. Among(Append(s, e), T) = s \o <<e>>
      BY <1>2, <2>2, AmongLonger
  <2>4. QED
      BY <2>3, AppendIsConcat
<1> HIDE DEF D
<1>3. Seq(S) \subseteq D
    BY <1>1, <1>2, SequenceInduction
<1>4. QED
    BY <1>3 DEF D

LEMMA AmongNone ==
    ASSUME NEW S, NEW s \in Seq(S)
    PROVE  Len(Among(s, {})) = 0
<1> DEFINE a == Among(s, {})
<1>1. a \in Seq(S) /\ Elems(a) = Elems(s) \cap {}
    BY AmongType
<1> HIDE DEF a
<1>2. Elems(a) = {} /\ Len(a) \in Nat
    BY <1>1, LenProperties
<1>3. ~(1 \in 1..Len(a))
    BY <1>2 DEF Elems
<1>4. Len(a) = 0
    BY <1>2, <1>3
<1>5. QED
    BY <1>4 DEF a

\* Sets that share nothing.
Apart(T, K) == \A i, j \in 1..K : i # j => T[i] \cap T[j] = {}

\* What several filters take, one after the other.
LEMMA AmongManyType ==
    ASSUME NEW S, NEW s \in Seq(S), NEW K \in Nat, NEW T
    PROVE  /\ FlattenSeq([i \in 1..K |-> Among(s, T[i])]) \in Seq(S)
           /\ Elems(FlattenSeq([i \in 1..K |-> Among(s, T[i])])) = Elems(s) \cap UNION {T[i] : i \in 1..K}
<1> DEFINE parts == [i \in 1..K |-> Among(s, T[i])]
<1>1. \A i \in 1..K : Among(s, T[i]) \in Seq(S) /\ Elems(Among(s, T[i])) = Elems(s) \cap T[i]
    BY AmongType
<1>2. parts \in Seq(Seq(S)) /\ Len(parts) = K
  <2>1. parts \in [1..K -> Seq(S)]
      BY <1>1
  <2> HIDE DEF parts
  <2>2. QED
      BY <2>1
<1>3. \A i \in 1..K : Elems(parts[i]) = Elems(s) \cap T[i]
    BY <1>1
<1> HIDE DEF parts
<1>4. /\ FlattenSeq(parts) \in Seq(S)
      /\ Elems(FlattenSeq(parts)) = UNION {Elems(parts[i]) : i \in 1..K}
    BY <1>2, FlattenType
<1>5. UNION {Elems(parts[i]) : i \in 1..K} = Elems(s) \cap UNION {T[i] : i \in 1..K}
    BY <1>3
<1>6. QED
    BY <1>4, <1>5 DEF parts

LEMMA AmongMany ==
    ASSUME NEW S, NEW s \in Seq(S), NEW K \in Nat, NEW T, Apart(T, K)
    PROVE  Len(FlattenSeq([i \in 1..K |-> Among(s, T[i])])) = Len(Among(s, UNION {T[i] : i \in 1..K}))
<1> DEFINE Up(k) == UNION {T[i] : i \in 1..k}
           Parts(k) == [i \in 1..k |-> Among(s, T[i])]
           N == {k \in Nat : k <= K => Len(FlattenSeq(Parts(k))) = Len(Among(s, Up(k)))}
<1>1. Len(FlattenSeq(Parts(0))) = 0
  <2>1. Len(Parts(0)) = 0 /\ Parts(0) = << >>
      OBVIOUS
  <2>2. QED
      BY <2>1, EmptySeq DEF FlattenSeq
<1>2. \A A : Among(s, A) \in Seq(S) /\ Len(Among(s, A)) \in Nat
    BY AmongType, LenProperties
<1>3. 0 \in N
  <2>1. Up(0) = {}
      OBVIOUS
  <2> HIDE DEF Up, Parts
  <2>2. QED
      BY <1>1, <2>1, AmongNone
<1>4. ASSUME NEW k \in Nat, k \in N PROVE k + 1 \in N
  <2>1. SUFFICES ASSUME k + 1 <= K
                 PROVE  Len(FlattenSeq(Parts(k + 1))) = Len(Among(s, Up(k + 1)))
      OBVIOUS
  <2>2. Len(FlattenSeq(Parts(k))) = Len(Among(s, Up(k)))
      BY <1>4, <2>1
  <2>3. /\ k + 1 \in 1..K /\ k + 1 \in Nat
        /\ \A i \in 1..k : i \in 1..K /\ i # k + 1
        /\ \A i \in 1..(k + 1) : i = k + 1 \/ i \in 1..k
        /\ \A i \in 1..k : i \in 1..(k + 1)
        /\ k + 1 \in 1..(k + 1)
      BY <2>1
  <2>4. Up(k + 1) = Up(k) \cup T[k + 1]
      BY <2>3
  <2>5. Up(k) \cap T[k + 1] = {}
      BY <2>3 DEF Apart
  <2>6. Len(Among(s, Up(k) \cup T[k + 1])) = Len(Among(s, Up(k))) + Len(Among(s, T[k + 1]))
    <3> DEFINE A == Up(k)
    <3>1. A \cap T[k + 1] = {}
        BY <2>5
    <3> HIDE DEF A
    <3>2. Len(Among(s, A \cup T[k + 1])) = Len(Among(s, A)) + Len(Among(s, T[k + 1]))
        BY <3>1, AmongEither
    <3>3. QED
        BY <3>2 DEF A
  <2>7. /\ Len(Parts(k)) = k /\ Len(Parts(k + 1)) = k + 1
        /\ \A i \in 1..k : Parts(k)[i] = Parts(k + 1)[i]
        /\ Parts(k + 1)[k + 1] = Among(s, T[k + 1])
      BY <2>3
  <2>8. FlattenSeq(Parts(k)) \in Seq(S)
      BY AmongManyType
  <2> DEFINE a == Parts(k)
             b == Parts(k + 1)
  <2> HIDE DEF Up, Parts
  <2>9. FlattenSeq(b) = IF k = 0 THEN Among(s, T[k + 1]) ELSE FlattenSeq(a) \o Among(s, T[k + 1])
    <3>1. Len(a) = k /\ Len(b) = k + 1 /\ (\A i \in 1..k : a[i] = b[i]) /\ b[k + 1] = Among(s, T[k + 1])
        BY <2>7
    <3> HIDE DEF a, b
    <3>2. FlattenSeq(b) = IF k = 0 THEN b[k + 1] ELSE FlattenSeq(a) \o b[k + 1]
        BY <3>1, FlattenOneMore
    <3>3. QED
        BY <3>1, <3>2
  <2>10. Len(FlattenSeq(b)) = Len(FlattenSeq(a)) + Len(Among(s, T[k + 1]))
    <3>1. CASE k = 0
      <4>1. Len(FlattenSeq(a)) = 0
          BY <1>1, <3>1
      <4>2. QED
          BY <1>2, <2>9, <3>1, <4>1
    <3>2. CASE k # 0
        BY <1>2, <2>8, <2>9, <3>2, ElemsOfConcat
    <3>3. QED
        BY <3>1, <3>2
  <2>11. QED
      BY <2>2, <2>4, <2>6, <2>10
<1>5. K \in N
  <2> HIDE DEF N
  <2>1. QED
      BY <1>3, <1>4, NumberInduction
<1> HIDE DEF Parts, Up
<1>6. Len(FlattenSeq(Parts(K))) = Len(Among(s, Up(K)))
    BY <1>5
<1>7. QED
    BY <1>6 DEF Parts, Up

(***************************************************************************)
(* The pages                                                               *)
(***************************************************************************)

LEMMA FirstFacts ==
    ASSUME NEW S, NEW s \in Seq(S), NEW n \in Nat
    PROVE  /\ First(s, n) \in Seq(S)
           /\ Len(First(s, n)) = (IF n < Len(s) THEN n ELSE Len(s))
           /\ \A i \in 1..Len(First(s, n)) : i \in 1..Len(s) /\ First(s, n)[i] = s[i]
           /\ Elems(First(s, n)) \subseteq Elems(s)
<1> DEFINE m == IF n < Len(s) THEN n ELSE Len(s)
           a == SubSeq(s, 1, m)
<1>1. m \in Nat /\ m <= Len(s) /\ Len(s) \in Nat
    BY LenProperties
<1> HIDE DEF m
<1>2. \A i \in 1..m : i \in 1..Len(s) /\ s[i] \in S
    BY <1>1, ElementOfSeq
<1>3. /\ a \in Seq(S) /\ Len(a) = (IF 1 <= m THEN m - 1 + 1 ELSE 0)
      /\ \A i \in 1..m - 1 + 1 : a[i] = s[1 + i - 1]
    BY <1>1, <1>2, SubSeqProperties
<1>4. m - 1 + 1 = m /\ (IF 1 <= m THEN m - 1 + 1 ELSE 0) = m /\ \A i \in 1..m : 1 + i - 1 = i
    BY <1>1
<1>5. Len(a) = m /\ \A i \in 1..m : a[i] = s[i]
    BY <1>3, <1>4
<1>6. First(s, n) = a
    BY DEF First, m
<1> HIDE DEF a
<1>7. Elems(a) \subseteq Elems(s)
    BY <1>2, <1>5 DEF Elems
<1>8. QED
    BY <1>2, <1>3, <1>5, <1>6, <1>7 DEF m

LEMMA AfterFacts ==
    ASSUME NEW S, NEW s \in Seq(S), NEW n \in Nat
    PROVE  /\ After(s, n) \in Seq(S)
           /\ Len(After(s, n)) = (IF n < Len(s) THEN Len(s) - n ELSE 0)
           /\ Elems(After(s, n)) \subseteq Elems(s)
<1> DEFINE a == SubSeq(s, n + 1, Len(s))
<1>1. Len(s) \in Nat /\ n + 1 \in Int /\ Len(s) \in Int
    BY LenProperties
<1>2. \A i \in n + 1..Len(s) : i \in 1..Len(s) /\ s[i] \in S
    BY <1>1, ElementOfSeq
<1>3. /\ a \in Seq(S) /\ Len(a) = (IF n + 1 <= Len(s) THEN Len(s) - (n + 1) + 1 ELSE 0)
      /\ \A i \in 1..Len(s) - (n + 1) + 1 : a[i] = s[(n + 1) + i - 1]
    BY <1>1, <1>2, SubSeqProperties
<1>4. Len(a) = (IF n < Len(s) THEN Len(s) - n ELSE 0)
    BY <1>1, <1>3
<1>5. \A i \in 1..Len(a) : i \in 1..Len(s) - (n + 1) + 1 /\ (n + 1) + i - 1 \in 1..Len(s)
    BY <1>1, <1>4
<1>6. After(s, n) = a
    BY DEF After
<1> HIDE DEF a
<1>7. Elems(a) \subseteq Elems(s)
    BY <1>3, <1>5 DEF Elems
<1>8. QED
    BY <1>3, <1>4, <1>6, <1>7

AlertSet == [kind : {"low_stock", "slow_mover"}, id : Elems(Listings), out : BOOLEAN, visible : BOOLEAN]

\* An alert of a listing; a slow mover is not sold out.
Sound(a) == a \in AlertSet /\ (a.kind = "slow_mover" => ~a.out)
Sounds == {a \in AlertSet : Sound(a)}

LEMMA AlertsSound ==
    ASSUME NEW done
    PROVE  InventoryAlerts(done) \in Seq(Sounds)
<1>1. ASSUME NEW l \in Elems(Listings) PROVE AlertsOf(l, done) \in Seq(Sounds)
  <2>1. \A kind \in {"low_stock", "slow_mover"} : Alert(kind, l, done) \in AlertSet
      BY DEF Alert, AlertSet
  <2>2. Alert("low_stock", l, done) \in Sounds
      BY <2>1 DEF Sounds, Sound, Alert
  <2>3. l \in Having("slow", done) \ Having("sold_out", done) => Alert("slow_mover", l, done) \in Sounds
      BY <2>1 DEF Sounds, Sound, Alert
  <2> DEFINE low == <<Alert("low_stock", l, done)>>
             slow == IF l \in Having("slow", done) \ Having("sold_out", done) THEN <<Alert("slow_mover", l, done)>> ELSE << >>
  <2>4. low \in Seq(Sounds) /\ slow \in Seq(Sounds)
      BY <2>2, <2>3, EmptySeq
  <2>5. AlertsOf(l, done) = IF l \notin Having("low", done) THEN << >> ELSE low \o slow
      BY DEF AlertsOf
  <2> HIDE DEF low, slow
  <2>6. QED
      BY <2>4, <2>5, EmptySeq, ElemsOfConcat
<1> DEFINE parts == [i \in 1..Len(Skus) |-> AlertsOf(Skus[i], done)]
<1>2. parts \in Seq(Seq(Sounds))
  <2>1. Len(Skus) \in Nat
      BY PagesAssumption, LenProperties
  <2>2. \A i \in 1..Len(Skus) : Skus[i] \in Elems(Listings)
      BY PagesAssumption, ElementOfSeq
  <2>3. \A i \in 1..Len(Skus) : AlertsOf(Skus[i], done) \in Seq(Sounds)
      BY <1>1, <2>2
  <2>4. parts \in [1..Len(Skus) -> Seq(Sounds)]
      BY <2>3
  <2> HIDE DEF parts
  <2>5. QED
      BY <2>1, <2>4
<1>3. FlattenSeq(parts) \in Seq(Sounds)
    BY <1>2, FlattenType
<1>4. QED
    BY <1>3, FirstFacts, PagesAssumption DEF InventoryAlerts

\* The low-stock list, by days of cover, leaves no alert out and takes none twice.
LEMMA LowStockCounts ==
    ASSUME NEW al \in Seq(Sounds)
    PROVE  /\ LowStock(al) \in Seq(Sounds) /\ Elems(LowStock(al)) = Lows(al)
           /\ Len(LowStock(al)) = Number(al, Lows(al))
<1> DEFINE T == [n \in 1..LongCover |-> {a \in Lows(al) : Cover[a.id] = n - 1}]
<1>1. LongCover \in Nat
    BY PagesAssumption
<1>2. UNION {T[n] : n \in 1..LongCover} = Lows(al)
  <2>1. ASSUME NEW a \in Lows(al) PROVE \E n \in 1..LongCover : a \in T[n]
    <3>1. a \in Sounds
        BY ElemsFacts DEF Lows
    <3>2. a.id \in Elems(Listings)
        BY <3>1 DEF Sounds, AlertSet
    <3>3. Cover[a.id] \in 0..LongCover - 1
        BY <3>2, PagesAssumption
    <3>4. Cover[a.id] + 1 \in 1..LongCover /\ Cover[a.id] = (Cover[a.id] + 1) - 1
        BY <1>1, <3>3
    <3>5. a \in T[Cover[a.id] + 1]
        BY <3>4
    <3>6. QED
        BY <3>4, <3>5
  <2>2. \A n \in 1..LongCover : T[n] \subseteq Lows(al)
      OBVIOUS
  <2> HIDE DEF T
  <2>3. QED
      BY <2>1, <2>2
<1>3. Apart(T, LongCover)
  <2>1. ASSUME NEW i \in 1..LongCover, NEW j \in 1..LongCover, i # j, NEW a \in T[i], a \in T[j] PROVE FALSE
    <3>1. Cover[a.id] = i - 1 /\ Cover[a.id] = j - 1
        BY <2>1
    <3>2. QED
        BY <1>1, <2>1, <3>1
  <2> HIDE DEF T
  <2>2. QED
      BY <2>1 DEF Apart
<1> DEFINE low == FlattenSeq([n \in 1..LongCover |-> Among(al, T[n])])
<1>4. LowStock(al) = low
    BY DEF LowStock
<1> HIDE DEF T
<1> DEFINE all == UNION {T[n] : n \in 1..LongCover}
<1>5. low \in Seq(Sounds) /\ Elems(low) = Elems(al) \cap all
    BY ONLY <1>1, al \in Seq(Sounds), AmongManyType
<1>6. Len(low) = Len(Among(al, all))
    BY ONLY <1>1, <1>3, al \in Seq(Sounds), AmongMany
<1> HIDE DEF all
<1> HIDE DEF low
<1>7. QED
    BY <1>2, <1>4, <1>5, <1>6 DEF Number, Lows, all

LEMMA SlowMoversCount ==
    ASSUME NEW al \in Seq(Sounds)
    PROVE  /\ SlowMovers(al) \in Seq(Sounds) /\ Elems(SlowMovers(al)) = Slows(al)
           /\ Len(SlowMovers(al)) = Number(al, Slows(al))
    BY AmongType DEF SlowMovers, Number, Slows

IssueSet == [kind : {"issue"}, id : Elems(Issues)]
RowSet == Sounds \cup IssueSet

LEMMA OverviewFacts ==
    ASSUME NEW done
    PROVE  /\ Overview(done).inventory \in Seq(Sounds)
           /\ Elems(Overview(done).inventory) \subseteq Elems(InventoryAlerts(done))
           /\ Overview(done).issues \in Seq(IssueSet)
           /\ Elems(Overview(done).issues) \subseteq Elems(IssueRows)
<1>1. InventoryAlerts(done) \in Seq(Sounds)
    BY AlertsSound
<1>2. IssueRows \in Seq(IssueSet)
  <2>1. Len(Issues) \in Nat
      BY PagesAssumption, LenProperties
  <2>2. \A i \in 1..Len(Issues) : Issue(Issues[i]) \in IssueSet
      BY DEF Elems, Issue, IssueSet
  <2>3. IssueRows \in [1..Len(Issues) -> IssueSet]
      BY <2>2 DEF IssueRows
  <2>4. QED
      BY <2>1, <2>3
<1>3. /\ Overview(done).inventory = First(InventoryAlerts(done), OverviewCap)
      /\ Overview(done).issues = First(IssueRows, OverviewCap)
    BY DEF Overview
<1>4. OverviewCap \in Nat
    BY PagesAssumption
<1>5. QED
    BY <1>1, <1>2, <1>3, <1>4, FirstFacts

\* Four blocks in a row.
InBlocks(b, F, I, A, B) ==
    /\ Len(b) = Len(F) + Len(I) + Len(A) + Len(B)
    /\ Elems(b) = Elems(F) \cup Elems(I) \cup Elems(A) \cup Elems(B)
    /\ \A i \in 1..Len(F) + Len(I) : i > Len(F) => b[i] \in Elems(I)
    /\ \A i \in 1..Len(b) : i > Len(F) + Len(I) => b[i] \in Elems(A) \cup Elems(B)

LEMMA Blocks ==
    ASSUME NEW S, NEW F \in Seq(S), NEW I \in Seq(S), NEW A \in Seq(S), NEW B \in Seq(S)
    PROVE  /\ F \o I \o A \o B \in Seq(S)
           /\ InBlocks(F \o I \o A \o B, F, I, A, B)
<1> DEFINE f == F \o I
           a == f \o A
           b == a \o B
<1>1. f \in Seq(S) /\ Len(f) = Len(F) + Len(I) /\ Elems(f) = Elems(F) \cup Elems(I)
    BY ElemsOfConcat
<1>2. \A i \in 1..Len(F) + Len(I) : f[i] = IF i <= Len(F) THEN F[i] ELSE I[i - Len(F)]
    BY ConcatProperties
<1>3. /\ Len(F) \in Nat /\ Len(I) \in Nat /\ Len(A) \in Nat /\ Len(B) \in Nat
    BY LenProperties
<1> HIDE DEF f
<1>4. a \in Seq(S) /\ Len(a) = Len(f) + Len(A) /\ Elems(a) = Elems(f) \cup Elems(A)
  <2>1. f \in Seq(S)
      BY <1>1
  <2>2. QED
      BY ONLY <2>1, A \in Seq(S), ElemsOfConcat
<1>5. \A i \in 1..Len(f) + Len(A) : a[i] = IF i <= Len(f) THEN f[i] ELSE A[i - Len(f)]
    BY <1>1, ConcatProperties
<1> HIDE DEF a
<1>6. b \in Seq(S) /\ Len(b) = Len(a) + Len(B) /\ Elems(b) = Elems(a) \cup Elems(B)
  <2>1. a \in Seq(S)
      BY <1>4
  <2>2. QED
      BY ONLY <2>1, B \in Seq(S), ElemsOfConcat
<1>7. \A i \in 1..Len(a) + Len(B) : b[i] = IF i <= Len(a) THEN a[i] ELSE B[i - Len(a)]
    BY <1>4, ConcatProperties
<1> HIDE DEF b
<1>8. ASSUME NEW i \in 1..Len(F) + Len(I), i > Len(F) PROVE b[i] \in Elems(I)
  <2>1. i - Len(F) \in 1..Len(I) /\ i \in 1..Len(f) + Len(A) /\ i \in 1..Len(a) + Len(B)
        /\ i <= Len(f) /\ i <= Len(a) /\ ~(i <= Len(F))
      BY <1>1, <1>3, <1>4, <1>8
  <2>2. b[i] = I[i - Len(F)]
      BY <1>2, <1>5, <1>7, <2>1
  <2>3. QED
      BY <2>1, <2>2 DEF Elems
<1>9. ASSUME NEW i \in 1..Len(b), i > Len(F) + Len(I) PROVE b[i] \in Elems(A) \cup Elems(B)
  <2>1. CASE i <= Len(a)
    <3>1. b[i] = A[i - Len(f)] /\ i - Len(f) \in 1..Len(A)
        BY <1>1, <1>3, <1>4, <1>5, <1>6, <1>7, <1>9, <2>1
    <3>2. QED
        BY <3>1 DEF Elems
  <2>2. CASE ~(i <= Len(a))
    <3>1. b[i] = B[i - Len(a)] /\ i - Len(a) \in 1..Len(B)
        BY <1>1, <1>3, <1>4, <1>6, <1>7, <1>9, <2>2
    <3>2. QED
        BY <3>1 DEF Elems
  <2>3. QED
      BY <2>1, <2>2
<1>10. F \o I \o A \o B = b
    BY DEF f, a, b
<1>11. Elems(b) = Elems(F) \cup Elems(I) \cup Elems(A) \cup Elems(B)
    BY <1>1, <1>4, <1>6
<1>12. InBlocks(b, F, I, A, B)
    BY <1>1, <1>3, <1>4, <1>6, <1>8, <1>9, <1>11 DEF InBlocks
<1>13. QED
    BY <1>6, <1>10, <1>12

\* The queue: its counts, and what each row is.
LEMMA QueueFacts ==
    ASSUME NEW done, NEW filter \in HomeFilters
    PROVE  /\ HomeCount(Overview(done), filter) = Len(HomeRows(Overview(done), filter))
           /\ Len(HomeRows(Overview(done), filter)) \in Nat
           /\ \A i \in 1..Len(HomeRows(Overview(done), filter)) :
                HomeRows(Overview(done), filter)[i]
                  \in Lows(Overview(done).inventory) \cup Slows(Overview(done).inventory)
                      \cup Elems(Overview(done).issues)
           /\ \A i, j \in 1..Len(HomeRows(Overview(done), filter)) :
                /\ 1 < j /\ j < i
                /\ HomeRows(Overview(done), filter)[i].kind = "issue"
                => HomeRows(Overview(done), filter)[j].kind = "issue"
<1> DEFINE al == Overview(done).inventory
           issues == Overview(done).issues
           low == LowStock(al)
           slow == SlowMovers(al)
           rows == HomeRows(Overview(done), filter)
           kinds(s) == \A x \in Elems(s) : x.kind # "issue"
<1>1. /\ al \in Seq(Sounds) /\ issues \in Seq(IssueSet) /\ issues \in Seq(RowSet)
      /\ Len(issues) \in Nat
  <2>1. IssueSet \subseteq RowSet
      BY DEF RowSet
  <2>2. al \in Seq(Sounds) /\ issues \in Seq(IssueSet)
      BY OverviewFacts
  <2> HIDE DEF al, issues
  <2>3. QED
      BY <2>1, <2>2, SeqMonotonic, LenProperties
<1>2. HomeCount(Overview(done), filter) =
        IF filter = "all" THEN Len(issues) + Number(al, Lows(al)) + Number(al, Slows(al))
        ELSE IF filter = "orders" THEN Len(issues)
        ELSE IF filter = "stock" THEN Number(al, Lows(al)) ELSE Number(al, Slows(al))
    BY DEF HomeCount, HomeCounts, HomeFilters
<1>3. rows = IF filter = "all" THEN First(low, 1) \o issues \o After(low, 1) \o slow
             ELSE IF filter = "orders" THEN issues
             ELSE IF filter = "stock" THEN low ELSE slow
    BY DEF HomeRows, HomeFilters
<1> HIDE DEF al, issues, rows
<1>4. /\ low \in Seq(Sounds) /\ Elems(low) = Lows(al) /\ Len(low) = Number(al, Lows(al))
      /\ slow \in Seq(Sounds) /\ Elems(slow) = Slows(al) /\ Len(slow) = Number(al, Slows(al))
    BY <1>1, LowStockCounts, SlowMoversCount
<1> HIDE DEF low, slow
<1>5. low \in Seq(RowSet) /\ slow \in Seq(RowSet) /\ Len(low) \in Nat /\ Len(slow) \in Nat
  <2>1. Sounds \subseteq RowSet
      BY DEF RowSet
  <2>2. QED
      BY <1>4, <2>1, SeqMonotonic, LenProperties
<1>6. (\A x \in Sounds : x.kind # "issue") /\ (\A x \in IssueSet : x.kind = "issue")
    BY DEF Sounds, AlertSet, IssueSet
<1>7. kinds(low) /\ kinds(slow) /\ \A x \in Elems(issues) : x.kind = "issue"
    BY <1>1, <1>4, <1>6, ElemsFacts
<1>8. \A s \in Seq(RowSet), i \in Nat : i \in 1..Len(s) => s[i] \in Elems(s)
    BY DEF Elems
<1>9. /\ HomeCount(Overview(done), filter) = Len(rows) /\ Len(rows) \in Nat
      /\ \A i \in 1..Len(rows) : rows[i] \in Lows(al) \cup Slows(al) \cup Elems(issues)
      /\ \A i, j \in 1..Len(rows) : 1 < j /\ j < i /\ rows[i].kind = "issue" => rows[j].kind = "issue"
  <2>1. CASE filter = "all"
    <3> DEFINE F == First(low, 1)
               A == After(low, 1)
    <3>1. /\ F \in Seq(RowSet) /\ Elems(F) \subseteq Lows(al) /\ Len(F) = (IF 1 < Len(low) THEN 1 ELSE Len(low))
          /\ A \in Seq(RowSet) /\ Elems(A) \subseteq Lows(al) /\ Len(A) = (IF 1 < Len(low) THEN Len(low) - 1 ELSE 0)
      <4>1. low \in Seq(RowSet) /\ 1 \in Nat
          BY <1>5
      <4>2. /\ F \in Seq(RowSet) /\ Len(F) = (IF 1 < Len(low) THEN 1 ELSE Len(low))
            /\ Elems(F) \subseteq Elems(low)
          BY ONLY <4>1, FirstFacts
      <4>3. /\ A \in Seq(RowSet) /\ Len(A) = (IF 1 < Len(low) THEN Len(low) - 1 ELSE 0)
            /\ Elems(A) \subseteq Elems(low)
          BY ONLY <4>1, AfterFacts
      <4>4. QED
          BY <1>4, <4>2, <4>3
    <3>2. rows = F \o issues \o A \o slow
        BY <1>3, <2>1
    <3> HIDE DEF F, A
    <3>3. /\ rows \in Seq(RowSet) /\ Len(rows) = Len(F) + Len(issues) + Len(A) + Len(slow)
          /\ Elems(rows) = Elems(F) \cup Elems(issues) \cup Elems(A) \cup Elems(slow)
          /\ \A i \in 1..Len(F) + Len(issues) : i > Len(F) => rows[i] \in Elems(issues)
          /\ \A i \in 1..Len(rows) : i > Len(F) + Len(issues) => rows[i] \in Elems(A) \cup Elems(slow)
      <4>1. F \in Seq(RowSet) /\ issues \in Seq(RowSet) /\ A \in Seq(RowSet) /\ slow \in Seq(RowSet)
          BY <1>1, <1>5, <3>1
      <4>2. rows \in Seq(RowSet) /\ InBlocks(rows, F, issues, A, slow)
          BY ONLY <4>1, <3>2, Blocks
      <4>3. QED
          BY <4>2 DEF InBlocks
    <3>4. Len(rows) = Len(issues) + Len(low) + Len(slow) /\ Len(rows) \in Nat /\ Len(F) \in Nat /\ Len(F) <= 1
      <4>1. Len(rows) = Len(F) + Len(issues) + Len(A) + Len(slow)
          BY <3>3
      <4>2. Len(F) + Len(A) = Len(low) /\ Len(F) <= 1 /\ Len(A) \in Nat /\ Len(F) \in Nat
        <5>1. /\ Len(F) = (IF 1 < Len(low) THEN 1 ELSE Len(low))
              /\ Len(A) = (IF 1 < Len(low) THEN Len(low) - 1 ELSE 0)
            BY <3>1
        <5>2. Len(low) \in Nat /\ Len(F) \in Nat /\ Len(A) \in Nat
            BY <1>5, <3>1, LenProperties
        <5>3. QED
            BY ONLY <5>1, <5>2
      <4>3. Len(issues) \in Nat /\ Len(low) \in Nat /\ Len(slow) \in Nat
          BY <1>1, <1>5
      <4>4. QED
          BY ONLY <4>1, <4>2, <4>3
    <3>5. \A i \in 1..Len(rows) : rows[i] \in Elems(rows)
        BY DEF Elems
    <3>6. ASSUME NEW i \in 1..Len(rows), NEW j \in 1..Len(rows), 1 < j, j < i, rows[i].kind = "issue"
          PROVE  rows[j].kind = "issue"
      <4>1. ~(i > Len(F) + Len(issues))
          BY <1>4, <1>7, <3>1, <3>3, <3>6
      <4>2. Len(issues) \in Nat /\ i \in Nat /\ j \in Nat
          BY <1>1, <3>4
      <4>3. j \in 1..Len(F) + Len(issues) /\ j > Len(F)
        <5>1. Len(F) \in Nat /\ Len(F) <= 1 /\ 1 < j /\ j < i
            BY <3>4, <3>6
        <5>2. QED
            BY ONLY <4>1, <4>2, <5>1
      <4>4. QED
          BY <1>7, <3>3, <4>3
    <3>7. QED
        BY <1>2, <1>4, <2>1, <3>1, <3>3, <3>4, <3>5, <3>6
  <2>2. CASE filter = "orders"
      BY <1>1, <1>2, <1>3, <1>7, <2>2 DEF Elems
  <2>3. CASE filter = "stock"
    <3>1. rows = low /\ HomeCount(Overview(done), filter) = Number(al, Lows(al))
        BY <1>2, <1>3, <2>3
    <3>2. \A i \in 1..Len(low) : low[i] \in Elems(low)
        BY DEF Elems
    <3>3. QED
        BY <1>4, <1>5, <1>7, <3>1, <3>2
  <2>4. CASE filter = "slow"
    <3>1. rows = slow /\ HomeCount(Overview(done), filter) = Number(al, Slows(al))
        BY <1>2, <1>3, <2>4
    <3>2. \A i \in 1..Len(slow) : slow[i] \in Elems(slow)
        BY DEF Elems
    <3>3. QED
        BY <1>4, <1>5, <1>7, <3>1, <3>2
  <2>5. QED
      BY <2>1, <2>2, <2>3, <2>4 DEF HomeFilters
<1>10. QED
    BY <1>9 DEF al, issues, rows

\* The home page's counts, its "See all" and its rows' marks.
HomeTells(done, filter) ==
    /\ HomeCount(Overview(done), filter) = Len(HomeRows(Overview(done), filter))
    /\ QueueOverflow(HomeRows(Overview(done), filter)) > 0 =>
         HomeRows(Overview(done), filter)[RowCap + 1]
           \in ListedOn(OverflowView(HomeRows(Overview(done), filter)), InventoryAlerts(done))
    /\ \A a \in Elems(Overview(done).inventory) : InventoryRow(a) = AlertRow(a)

LEMMA HomeAgrees ==
    ASSUME NEW done, NEW filter \in HomeFilters
    PROVE  HomeTells(done, filter)
<1> DEFINE all == InventoryAlerts(done)
           al == Overview(done).inventory
           issues == Overview(done).issues
           rows == HomeRows(Overview(done), filter)
<1>1. /\ HomeCount(Overview(done), filter) = Len(rows) /\ Len(rows) \in Nat
      /\ \A i \in 1..Len(rows) : rows[i] \in Lows(al) \cup Slows(al) \cup Elems(issues)
      /\ \A i, j \in 1..Len(rows) : 1 < j /\ j < i /\ rows[i].kind = "issue" => rows[j].kind = "issue"
    BY QueueFacts
<1>2. /\ al \in Seq(Sounds) /\ Elems(al) \subseteq Elems(all)
      /\ issues \in Seq(IssueSet) /\ Elems(issues) \subseteq Elems(IssueRows)
    BY OverviewFacts
<1>3. all \in Seq(Sounds)
    BY AlertsSound
<1> HIDE DEF all, al, issues, rows
<1>4. (\A x \in Elems(al) : x \in Sounds) /\ (\A x \in Elems(issues) : x.kind = "issue")
  <2>1. Elems(al) \subseteq Sounds /\ Elems(issues) \subseteq IssueSet
      BY <1>2, ElemsFacts
  <2>2. \A x \in IssueSet : x.kind = "issue"
      BY DEF IssueSet
  <2>3. QED
      BY <2>1, <2>2
<1>5. ASSUME QueueOverflow(rows) > 0 PROVE rows[RowCap + 1] \in ListedOn(OverflowView(rows), all)
  <2>1. RowCap \in Nat /\ RowCap > 0
      BY PagesAssumption
  <2>2. RowCap + 1 \in 1..Len(rows) /\ 1 < RowCap + 1 /\ RowCap + 1 \in RowCap + 1..Len(rows)
      BY <1>1, <1>5, <2>1 DEF QueueOverflow
  <2> DEFINE x == rows[RowCap + 1]
  <2>3. x \in Lows(al) \cup Slows(al) \cup Elems(issues)
      BY <1>1, <2>2
  <2>4. CASE x.kind = "issue"
    <3>1. OverflowView(rows) = "orders"
        BY <2>2, <2>4 DEF OverflowView
    <3>2. x \in Elems(issues)
        BY <1>4, <2>3, <2>4 DEF Lows, Slows, Low
    <3>3. QED
        BY <1>2, <3>1, <3>2 DEF ListedOn, OrdersPage
  <2>5. CASE x.kind # "issue"
    <3>1. ASSUME NEW i \in RowCap + 1..Len(rows), rows[i].kind = "issue" PROVE FALSE
      <4>1. i \in 1..Len(rows) /\ (i = RowCap + 1 \/ RowCap + 1 < i)
          BY <1>1, <2>1
      <4>2. CASE i = RowCap + 1
          BY <2>5, <3>1, <4>2
      <4>3. CASE RowCap + 1 < i
          BY <1>1, <2>2, <2>5, <3>1, <4>1, <4>3
      <4>4. QED
          BY <4>1, <4>2, <4>3
    <3>2. OverflowView(rows) = "inventory"
        BY <3>1 DEF OverflowView
    <3>3. x \in Lows(al) \cup Slows(al)
        BY <1>4, <2>3, <2>5
    <3>4. x \in Lows(all) \cup Slows(all)
        BY <1>2, <3>3 DEF Lows, Slows
    <3>5. /\ LowStock(all) \in Seq(Sounds) /\ Elems(LowStock(all)) = Lows(all)
          /\ SlowMovers(all) \in Seq(Sounds) /\ Elems(SlowMovers(all)) = Slows(all)
        BY <1>3, LowStockCounts, SlowMoversCount
    <3>6. Elems(InventoryPage(all)) = Lows(all) \cup Slows(all)
        BY <3>5, ElemsOfConcat DEF InventoryPage
    <3>7. QED
        BY <3>2, <3>4, <3>6 DEF ListedOn
  <2>6. QED
      BY <2>4, <2>5
<1>6. ASSUME NEW a \in Elems(al) PROVE InventoryRow(a) = AlertRow(a)
  <2>1. a \in AlertSet /\ (a.kind = "slow_mover" => ~a.out)
      BY <1>4 DEF Sounds, Sound
  <2>2. a.kind \in {"low_stock", "slow_mover"} /\ a.out \in BOOLEAN
      BY <2>1 DEF AlertSet
  <2>3. (Low(a) /\ a.out) <=> a.out
      BY <2>1, <2>2 DEF Low
  <2>4. QED
      BY <2>3 DEF InventoryRow, AlertRow
<1>7. QED
    BY <1>1, <1>5, <1>6 DEF HomeTells, all, al, rows

\* The catalogue's count, and which of its rows are under attention.
CatalogTells(done, al, filter) ==
    LET page == CatalogPage(done, al, filter, Elems(Listings))
    IN  /\ CatalogCount(done, al, filter) = Len(page.attention) + Len(page.rest)
        /\ \A l \in Elems(page.attention) : Marked(ListingRow(l, done, al))
        /\ \A l \in Elems(page.rest) : ~Marked(ListingRow(l, done, al))

LEMMA AttentionIsMarked ==
    ASSUME NEW l, NEW done, NEW al
    PROVE  /\ AttentionRank(l, done, al) \in 0..5
           /\ (AttentionRank(l, done, al) # 5) <=> Marked(ListingRow(l, done, al))
<1> DEFINE row == ListingRow(l, done, al)
           sold == l \in Having("sold_out", done)
           kind == AlertKind(l, al)
           poor == l \in Having("poor", done)
           status == Status(l, done)
<1>1. status # "active" <=> (status = "paused" \/ (status = "out_of_stock" /\ sold))
    BY DEF Status
<1>2. row.stock # "plain" <=> (sold \/ kind = "low_stock")
    BY DEF ListingRow, StockCell
<1>3. (row.slow <=> kind = "slow_mover") /\ row.status = status /\ (row.poor <=> poor)
    BY DEF ListingRow
<1>4. AttentionRank(l, done, al) =
        CASE sold -> 0 [] kind = "low_stock" -> 1 [] poor -> 2 [] status = "paused" -> 3
          [] kind = "slow_mover" -> 4 [] OTHER -> 5
    BY DEF AttentionRank
<1> HIDE DEF row, sold, kind, poor, status
<1>5. AttentionRank(l, done, al) \in 0..5
    BY <1>4
<1>6. AttentionRank(l, done, al) # 5 <=>
        (sold \/ kind = "low_stock" \/ poor \/ status = "paused" \/ kind = "slow_mover")
    BY <1>4
<1>7. Marked(row) <=> (sold \/ kind = "low_stock" \/ poor \/ status = "paused" \/ kind = "slow_mover")
    BY <1>1, <1>2, <1>3 DEF Marked
<1>8. QED
    BY <1>5, <1>6, <1>7 DEF row

LEMMA CatalogAgrees ==
    ASSUME NEW done, NEW al, NEW filter
    PROVE  CatalogTells(done, al, filter)
<1> DEFINE S == Elems(Listings)
           rank(l) == AttentionRank(l, done, al)
           kept == Filtered(filter, done, al)
           visible == Among(Listings, kept)
           R(n) == {l \in Elems(visible) : rank(l) = n}
           T == [n \in 1..5 |-> R(n - 1)]
           attention == FlattenSeq([n \in 1..5 |-> Among(visible, T[n])])
           rest == Among(visible, R(5))
           page == CatalogPage(done, al, filter, S)
<1>1. Listings \in Seq(S)
    BY PagesAssumption
<1>2. kept \cap S = kept
    BY DEF Filtered
<1>3. page.attention = attention /\ page.rest = rest
  <2>1. \A n \in 1..5 : Ranked(visible, n - 1, done, al) = Among(visible, T[n])
      BY DEF Ranked
  <2>2. Ranked(visible, 5, done, al) = rest
      BY DEF Ranked
  <2>3. page = [attention |-> FlattenSeq([n \in 1..5 |-> Ranked(visible, n - 1, done, al)]),
                rest |-> Ranked(visible, 5, done, al)]
      BY <1>2 DEF CatalogPage
  <2> HIDE DEF T, R, visible, page
  <2>4. [n \in 1..5 |-> Ranked(visible, n - 1, done, al)] = [n \in 1..5 |-> Among(visible, T[n])]
      BY <2>1
  <2>5. QED
      BY <2>2, <2>3, <2>4
<1>4. CatalogCount(done, al, filter) = Len(visible)
    BY DEF CatalogCount, Number
<1> HIDE DEF kept
<1>5. visible \in Seq(S)
    BY <1>1, AmongType
<1> HIDE DEF visible, page
<1>6. \A l : rank(l) \in 0..5
    BY AttentionIsMarked
<1> HIDE DEF rank
<1> DEFINE all == UNION {T[n] : n \in 1..5}
<1>7. all = {l \in Elems(visible) : rank(l) # 5}
  <2>1. ASSUME NEW l \in all PROVE l \in Elems(visible) /\ rank(l) # 5
      OBVIOUS
  <2>2. ASSUME NEW l \in Elems(visible), rank(l) # 5 PROVE l \in all
    <3>1. rank(l) + 1 \in 1..5 /\ (rank(l) + 1) - 1 = rank(l)
        BY <1>6, <2>2
    <3>2. l \in T[rank(l) + 1]
        BY <3>1
    <3>3. QED
        BY <3>1, <3>2
  <2> HIDE DEF all
  <2>3. QED
      BY <2>1, <2>2
<1>8. Apart(T, 5)
  <2>1. ASSUME NEW i \in 1..5, NEW j \in 1..5, i # j, NEW l \in T[i], l \in T[j] PROVE FALSE
    <3>1. rank(l) = i - 1 /\ rank(l) = j - 1
        BY <2>1
    <3>2. QED
        BY <2>1, <3>1
  <2> HIDE DEF T
  <2>2. QED
      BY <2>1 DEF Apart
<1>9. R(5) = {l \in Elems(visible) : rank(l) = 5}
    OBVIOUS
<1> HIDE DEF T
<1>10. attention \in Seq(S) /\ Elems(attention) = Elems(visible) \cap all /\ Len(attention) = Len(Among(visible, all))
  <2> DEFINE five == 5
             some == FlattenSeq([n \in 1..five |-> Among(visible, T[n])])
             them == UNION {T[n] : n \in 1..five}
  <2>1. five \in Nat
      OBVIOUS
  <2>2. Apart(T, five)
      BY <1>8
  <2>3. some = attention /\ them = all
      OBVIOUS
  <2> HIDE DEF five
  <2>4. some \in Seq(S) /\ Elems(some) = Elems(visible) \cap them
      BY ONLY <2>1, <1>5, AmongManyType
  <2>5. Len(some) = Len(Among(visible, them))
      BY ONLY <2>1, <2>2, <1>5, AmongMany
  <2> HIDE DEF some, them, attention, all
  <2>6. QED
      BY <2>3, <2>4, <2>5
<1>11. rest \in Seq(S) /\ Elems(rest) = Elems(visible) \cap R(5)
    BY <1>5, AmongType
<1> HIDE DEF attention, all
<1>12. Len(visible) = Len(Among(visible, all)) + Len(rest)
  <2> DEFINE last == R(5)
  <2>1. all \cap last = {} /\ Elems(visible) \subseteq all \cup last
      BY <1>7
  <2> HIDE DEF last
  <2>2. Len(Among(visible, all \cup last)) = Len(Among(visible, all)) + Len(Among(visible, last))
      BY <1>5, <2>1, AmongEither
  <2>3. Among(visible, all \cup last) = visible
      BY <1>5, <2>1, AmongAll
  <2>4. QED
      BY <2>2, <2>3 DEF last
<1>13. \A l \in Elems(attention) : Marked(ListingRow(l, done, al))
    BY <1>7, <1>10, AttentionIsMarked DEF rank
<1>14. \A l \in Elems(rest) : ~Marked(ListingRow(l, done, al))
    BY <1>11, AttentionIsMarked DEF rank
<1>15. QED
    BY <1>3, <1>4, <1>10, <1>12, <1>13, <1>14 DEF CatalogTells, page

\* A card that is not exempt is, once all is quiet, as the ledger is.
LEMMA CardsAtRest ==
    ASSUME IInv, AtRest, NEW t \in DOMAIN replies, NEW c \in Changes, Holds(replies[t], c), ~Exempt(t, c)
    PROVE  ~replies[t].cards[c].busy /\ replies[t].cards[c].status = ledger[c]
<1>1. wire = << >> /\ acts = {}
    BY NothingToCome DEF AtRest
<1>2. ~News(c)
    BY <1>1, EmptySeq DEF News
<1>3. QED
    BY <1>1, <1>2 DEF IInv, RailInv, CardInv, ToldInv, Settled

LEMMA OverviewMounted ==
    ASSUME IInv, Shown("overview") # Nothing
    PROVE  "overview" \in Mounted
<1>1. view # NoView
    BY DEF IInv, ReadInv, Shown, Unmounted, Resources
<1>2. QED
    BY <1>1 DEF Mounted

\* A card can be approved exactly while the home page lists its change as waiting.
LEMMA CardsMeetHome ==
    ASSUME IInv, AtRest, Shown("overview") # Nothing, ~reads["overview"].failed,
           NEW t \in DOMAIN replies, NEW c \in Changes, Holds(replies[t], c), ~Exempt(t, c)
    PROVE  /\ Preview(replies[t].cards[c]).buttons # {} <=> c \in Pending(Shown("overview"))
           /\ c \in DOMAIN RecentChanges(Shown("overview")) =>
                RecentChanges(Shown("overview"))[c] = Preview(replies[t].cards[c]).pill
<1> DEFINE card == replies[t].cards[c]
           seen == Shown("overview")
<1>1. ~card.busy /\ card.status = ledger[c]
    BY CardsAtRest
<1>2. seen[c] = ledger[c]
    BY OverviewMounted, ViewsAreCurrent DEF Current, Exempt
<1> HIDE DEF card, seen
<1>3. Preview(card).pill = Pill(ledger[c]) /\ (Preview(card).buttons # {} <=> ledger[c] = "staged")
    BY <1>1 DEF Preview, Buttons, Outcome
<1>4. c \in Pending(seen) <=> ledger[c] = "staged"
    BY <1>2 DEF Pending
<1>5. c \in DOMAIN RecentChanges(seen) => RecentChanges(seen)[c] = Pill(ledger[c])
    BY <1>2 DEF RecentChanges
<1>6. QED
    BY <1>3, <1>4, <1>5 DEF card, seen

\* The count beside "Inventory" is what the inventory page lists.
LEMMA NavMeetsPage ==
    ASSUME IInv, AtRest, view = "inventory", untold = {}, \A r \in Mounted : ~reads[r].failed
    PROVE  NavCounts(AppliedIn(Shown("overview"))).inventory = Len(InventoryPage(Alerts("alerts")))
<1>1. "overview" \in Mounted /\ "alerts" \in Mounted
    BY DEF Mounted, OfView, NoView
<1>2. \A r \in {"overview", "alerts"}, c \in Changes : Shown(r)[c] = ledger[c]
  <2>1. \A r \in {"overview", "alerts"} : Current(r) /\ ~reads[r].failed
      BY <1>1, ViewsAreCurrent
  <2>2. QED
      BY <2>1 DEF Current
<1>3. AppliedIn(Shown("overview")) = AppliedIn(ledger) /\ AppliedIn(Shown("alerts")) = AppliedIn(ledger)
    BY <1>2 DEF AppliedIn
<1> DEFINE al == InventoryAlerts(AppliedIn(ledger))
<1>4. al \in Seq(Sounds)
    BY AlertsSound
<1>5. NavCounts(AppliedIn(ledger)).inventory = Number(al, Lows(al)) + Number(al, Slows(al))
    BY DEF NavCounts
<1>6. Alerts("alerts") = al
    BY <1>3 DEF Alerts
<1> HIDE DEF al
<1>7. Len(InventoryPage(al)) = Number(al, Lows(al)) + Number(al, Slows(al))
    BY <1>4, LowStockCounts, SlowMoversCount, ElemsOfConcat DEF InventoryPage
<1>8. QED
    BY <1>3, <1>5, <1>6, <1>7

\* Once all is quiet every mounted view shows the store as it is, but for a failed read and
\* changes the page was not told of, and the pages agree: their counts with their rows, the
\* cards with the home page, a row with its mark (useResource, refreshKey, HomeView,
\* CatalogView, InventoryView).
THEOREM PagesAgree == Spec => []PagesAreCurrent
<1>1. IInv => PagesAreCurrent
  <2>1. SUFFICES ASSUME IInv, AtRest PROVE CountsAgree /\ \A r \in Mounted : Current(r)
      BY DEF PagesAreCurrent
  <2>2. \A r \in Mounted : Current(r)
      BY <2>1, ViewsAreCurrent
  <2>3. \A filter \in HomeFilters : HomeTells(AppliedIn(Shown("overview")), filter)
      BY HomeAgrees
  <2>4. \A filter \in CatalogFilters : CatalogTells(AppliedIn(Shown("listings")), Alerts("alerts"), filter)
      BY CatalogAgrees
  <2>5. ASSUME Shown("overview") # Nothing, ~reads["overview"].failed,
               NEW t \in DOMAIN replies, NEW c \in Changes,
               Holds(replies[t], c), c \notin untold, <<t, c>> \notin outrun
        PROVE  /\ Preview(replies[t].cards[c]).buttons # {} <=> c \in Pending(Shown("overview"))
               /\ c \in DOMAIN RecentChanges(Shown("overview")) =>
                    RecentChanges(Shown("overview"))[c] = Preview(replies[t].cards[c]).pill
    <3>1. ~Exempt(t, c)
        BY <2>5 DEF Exempt
    <3>2. QED
        BY <2>1, <2>5, <3>1, CardsMeetHome
  <2>6. view = "inventory" /\ untold = {} /\ (\A r \in Mounted : ~reads[r].failed) =>
          NavCounts(AppliedIn(Shown("overview"))).inventory = Len(InventoryPage(Alerts("alerts")))
      BY <2>1, NavMeetsPage
  <2>7. CountsAgree
    <3>1. \A filter \in HomeFilters :
            LET overview == Overview(AppliedIn(Shown("overview")))
                rows == HomeRows(overview, filter)
            IN  /\ HomeCount(overview, filter) = Len(rows)
                /\ QueueOverflow(rows) > 0 => rows[RowCap + 1] \in ListedOn(OverflowView(rows), Alerts("overview"))
                /\ \A a \in Elems(overview.inventory) : InventoryRow(a) = AlertRow(a)
        BY <2>3 DEF HomeTells, Alerts
    <3>2. \A filter \in CatalogFilters :
            LET done == AppliedIn(Shown("listings"))
                page == CatalogPage(done, Alerts("alerts"), filter, Elems(Listings))
                marked(l) == Marked(ListingRow(l, done, Alerts("alerts")))
            IN  /\ CatalogCount(done, Alerts("alerts"), filter) = Len(page.attention) + Len(page.rest)
                /\ \A l \in Elems(page.attention) : marked(l)
                /\ \A l \in Elems(page.rest) : ~marked(l)
        BY <2>4 DEF CatalogTells
    <3>3. QED
        BY <2>5, <2>6, <3>1, <3>2 DEF CountsAgree
  <2>8. QED
      BY <2>2, <2>7
<1>2. QED
    BY <1>1, InitInvariant, StepKeeps, PTL DEF Spec
==============================================================================
