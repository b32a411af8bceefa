---------------------------- MODULE BackendProofs ----------------------------
(***************************************************************************)
(* Proofs about the two parts of the service's backends that race for one  *)
(* object of the platform's.                                               *)
(*                                                                         *)
(* Carts, for any number of carts and requests: type correctness, that a   *)
(* shopper has one Active cart unless two requests made one at once, that  *)
(* an acknowledged add is kept as long as its cart is, and that no request *)
(* is served in two carts.                                                 *)
(*                                                                         *)
(* ReferenceCache, for any tasks and any number of changes of the source:  *)
(* type correctness, that racing tasks load a key once, that answers never *)
(* go back in time, and that only a load that crossed an invalidation      *)
(* leaves a stale entry.                                                   *)
(***************************************************************************)
EXTENDS Carts, ReferenceCache, SequenceTheorems, TLAPS

(***************************************************************************)
(* Carts                                                                   *)
(***************************************************************************)

\* No two updates carry the same version: what is stored or was read is not newer than now.
Clocked ==
    /\ \A c \in CartIds : carts[c].version <= now
    /\ \A r \in Requests : found[r].version <= now

LEMMA AfterFindType ==
    \A k, lines : AfterFind(k, lines) \in {"ok", "nocart", "paying", "updating"}
  BY DEF AfterFind

LEMMA AfterMissType == \A k : AfterMiss(k) \in {"creating", "ok", "nocart"}
  BY DEF AfterMiss

LEMMA NewLinesType ==
    ASSUME TypeOK, NEW r \in Requests, NEW lines \in SUBSET Requests
    PROVE  NewLines(r, lines) \in SUBSET Requests
  BY DEF NewLines

LEMMA SnapshotType ==
    ASSUME TypeOK, NEW c \in CartIds
    PROVE  Snapshot(c) \in Found /\ Snapshot(c).id = c /\ Snapshot(c).version = carts[c].version
           /\ Snapshot(c).lines = carts[c].lines
  BY DEF TypeOK, Snapshot, Found, Cart

\* What an update makes of the carts.
LEMMA ModifyType ==
    ASSUME TypeOK, Clocked, NEW r \in Requests, found[r].id \in CartIds, Modify(r)
    PROVE  /\ carts' \in [CartIds -> Cart]
           /\ now' = now + 1
           /\ gone' \in SUBSET Requests
           /\ \A c \in CartIds \ {found[r].id} : carts'[c] = carts[c]
           /\ carts'[found[r].id].state = carts[found[r].id].state
           /\ carts'[found[r].id].version = now + 1
           /\ carts'[found[r].id].lines = NewLines(r, carts[found[r].id].lines)
<1>. DEFINE id == found[r].id
            new == NewLines(r, carts[id].lines)
            changed == [state |-> carts[id].state, version |-> now + 1, lines |-> new]
<1>1. carts[id] \in Cart /\ now \in Nat
  BY DEF TypeOK
<1>2. changed \in Cart
  <2>1. carts[id].state \in {"none", "Active", "Frozen", "Ordered", "Deleted"}
        /\ carts[id].lines \in SUBSET Requests
    BY <1>1 DEF Cart
  <2>2. new \in SUBSET Requests
    BY <2>1, NewLinesType
  <2>. HIDE DEF new
  <2>. QED
    BY <1>1, <2>1, <2>2 DEF Cart
<1>4. carts' = [carts EXCEPT ![id] = changed]
  BY DEF Modify, Modified
<1>5. now' = now + 1 /\ gone' \in SUBSET Requests
  BY DEF Modify, TypeOK, Found
<1>6. \A c \in CartIds \ {id} : carts'[c] = carts[c]
  BY <1>4 DEF TypeOK
<1>7. /\ carts'[id].state = carts[id].state
      /\ carts'[id].version = now + 1
      /\ carts'[id].lines = new
  <2>1. carts'[id] = changed
    BY <1>4 DEF TypeOK
  <2>. HIDE DEF new
  <2>. QED
    BY <2>1
<1>8. carts' \in [CartIds -> Cart]
  <2>. HIDE DEF changed
  <2>. QED
    BY <1>2, <1>4 DEF TypeOK
<1>. QED
  BY <1>5, <1>6, <1>7, <1>8

\* One step of one request keeps every type, and the clock ahead of everything.
LEMMA StepType ==
    ASSUME TypeOK, Clocked, NEW r \in Requests, Step(r)
    PROVE  TypeOK' /\ Clocked'
<1>. USE DEF InFlight, Finished
<1>0. now \in Nat /\ found[r] \in Found /\ job[r] \in Jobs
  BY DEF TypeOK
<1>1. CASE Find(r)
  <2>1. CASE \E c \in CartIds :
                /\ IsLatest(c)
                /\ found' = [found EXCEPT ![r] = Snapshot(c)]
                /\ pc' = [pc EXCEPT ![r] = AfterFind(job[r], carts[c].lines)]
    <3>1. PICK c \in CartIds :
             /\ found' = [found EXCEPT ![r] = Snapshot(c)]
             /\ pc' = [pc EXCEPT ![r] = AfterFind(job[r], carts[c].lines)]
      BY <2>1
    <3>2. found' \in [Requests -> Found] /\ found'[r].id = c /\ found'[r].version = carts[c].version
      BY <3>1, SnapshotType DEF TypeOK
    <3>3. pc' \in [Requests -> {"idle"} \cup InFlight \cup Finished]
      BY <3>1, AfterFindType DEF TypeOK
    <3>4. \A q \in Requests \ {r} : found'[q] = found[q] /\ pc'[q] = pc[q]
      BY <3>1 DEF TypeOK
    <3>5. UNCHANGED <<carts, now, job, sessions, gone, raced>>
      BY <1>1 DEF Find
    <3>6. TypeOK'
      BY <3>2, <3>3, <3>4, <3>5 DEF TypeOK
    <3>. QED
      BY <3>2, <3>4, <3>5, <3>6 DEF Clocked
  <2>2. CASE Visible = {} /\ pc' = [pc EXCEPT ![r] = AfterMiss(job[r])] /\ UNCHANGED found
    BY <1>1, <2>2, AfterMissType DEF Find, TypeOK, Clocked
  <2>. QED
    BY <1>1, <2>1, <2>2 DEF Find
<1>2. CASE Create(r)
  <2>1. PICK c \in CartIds :
           /\ carts' = [carts EXCEPT ![c] = [state |-> "Active", version |-> now + 1, lines |-> {}]]
           /\ found' = [found EXCEPT ![r].id = c]
    BY <1>2 DEF Create, Modified
  <2>2. [state |-> "Active", version |-> now + 1, lines |-> {}] \in Cart
    BY <1>0 DEF Cart
  <2>3. [found[r] EXCEPT !.id = c] \in Found
    BY <1>0 DEF Found
  <2>4. carts' \in [CartIds -> Cart]
    BY <2>1, <2>2 DEF TypeOK
  <2>5. /\ found' \in [Requests -> Found] /\ found'[r].id = c
        /\ \A q \in Requests : found'[q].version = found[q].version
        /\ \A q \in Requests \ {r} : found'[q] = found[q]
    BY <1>0, <2>1, <2>3 DEF TypeOK, Found
  <2>6. raced' \in BOOLEAN
    BY <1>2, Zenon DEF TypeOK, Create
  <2>7. pc' \in [Requests -> {"idle"} \cup InFlight \cup Finished]
        /\ \A q \in Requests \ {r} : pc'[q] = pc[q]
    BY <1>2 DEF TypeOK, Create
  <2>8. TypeOK'
    BY <1>0, <1>2, <2>4, <2>5, <2>6, <2>7 DEF TypeOK, Create
  <2>9. now' = now + 1 /\ \A d \in CartIds : carts'[d].version <= now + 1
    BY <1>0, <1>2, <2>1 DEF Create, TypeOK, Clocked, Cart
  <2>10. \A q \in Requests : found[q].version \in Nat
    BY DEF TypeOK, Found
  <2>. QED
    BY <1>0, <2>5, <2>8, <2>9, <2>10 DEF Clocked
<1>3. CASE ReadCreated(r)
  <2>1. found[r].id \in CartIds
    BY <1>3 DEF ReadCreated, TypeOK
  <2>2. found' \in [Requests -> Found] /\ found'[r].id = found[r].id
        /\ found'[r].version = carts[found[r].id].version
        /\ \A q \in Requests \ {r} : found'[q] = found[q]
    BY <1>3, <2>1, SnapshotType DEF ReadCreated, TypeOK
  <2>3. TypeOK'
    BY <1>3, <2>1, <2>2 DEF ReadCreated, TypeOK
  <2>. QED
    BY <1>3, <2>1, <2>2, <2>3 DEF ReadCreated, Clocked
<1>4. CASE Update(r)
  <2>1. found[r].id \in CartIds /\ Modify(r)
    BY <1>4 DEF Update, TypeOK
  <2>2. TypeOK'
    <3>1. carts' \in [CartIds -> Cart] /\ now' = now + 1 /\ gone' \in SUBSET Requests
      BY <2>1, ModifyType
    <3>2. UNCHANGED <<job, found, sessions, raced>>
          /\ pc' \in [Requests -> {"idle"} \cup InFlight \cup Finished]
          /\ \A q \in Requests \ {r} : pc'[q] = pc[q]
      BY <1>4 DEF Update, TypeOK
    <3>. QED
      BY <1>0, <2>1, <3>1, <3>2 DEF TypeOK
  <2>3. \A c \in CartIds : carts'[c].version <= now + 1
    <3>1. \A c \in CartIds : carts[c].version \in Nat /\ carts[c].version <= now
      BY DEF TypeOK, Cart, Clocked
    <3>2. \A c \in CartIds \ {found[r].id} : carts'[c] = carts[c]
      BY <2>1, ModifyType
    <3>3. carts'[found[r].id].version = now + 1
      BY <2>1, ModifyType
    <3>. QED
      BY <1>0, <3>1, <3>2, <3>3
  <2>4. \A q \in Requests : found[q].version \in Nat
    BY DEF TypeOK, Found
  <2>5. now' = now + 1 /\ found' = found
    BY <1>4, <2>1, ModifyType DEF Update
  <2>. QED
    BY <1>0, <2>2, <2>3, <2>4, <2>5 DEF Clocked
<1>5. CASE UpdateRefused(r) \/ UpdateMissed(r) \/ CallFails(r) \/ Answer(r)
  BY <1>5 DEF UpdateRefused, UpdateMissed, CallFails, Answer, TypeOK, Clocked
<1>6. CASE CreateSession(r)
  BY <1>6 DEF CreateSession, TypeOK, Clocked
<1>. QED
  BY <1>1, <1>2, <1>3, <1>4, <1>5, <1>6 DEF Step

\* A cart leaves the shopper's hands by being closed or deleted.
Shut(c) == Close(c) \/ Delete(c)

\* What that leaves of it.
LEMMA CloseType ==
    ASSUME TypeOK, NEW c \in CartIds, Shut(c)
    PROVE  /\ carts' \in [CartIds -> Cart]
           /\ now' = now + 1
           /\ \A d \in CartIds : carts'[d].lines = carts[d].lines
           /\ \A d \in CartIds \ {c} : carts'[d] = carts[d]
           /\ carts'[c].version = now + 1
           /\ carts'[c].state \in {"Frozen", "Ordered", "Deleted"}
           /\ carts[c].state = "Deleted" => FALSE
<1>0. carts[c].state # "Deleted"
  BY DEF Shut, Close, Delete
<1>1. PICK s \in {"Frozen", "Ordered", "Deleted"} :
         carts' = [carts EXCEPT ![c] = Modified(s, @.lines)]
  BY DEF Shut, Close, Delete
<1>. DEFINE closed == [state |-> s, version |-> now + 1, lines |-> carts[c].lines]
<1>2. carts[c] \in Cart /\ now \in Nat
  BY DEF TypeOK
<1>3. closed \in Cart /\ closed.lines = carts[c].lines /\ closed.version = now + 1
      /\ closed.state \in {"Frozen", "Ordered", "Deleted"}
  BY <1>2 DEF Cart
<1>4. carts' = [carts EXCEPT ![c] = closed]
  BY <1>1 DEF Modified
<1>5. now' = now + 1
  BY DEF Shut, Close, Delete
<1>. HIDE DEF closed
<1>. QED
  BY <1>0, <1>3, <1>4, <1>5 DEF TypeOK

LEMMA CloseKeeps ==
    ASSUME TypeOK, Clocked, NEW c \in CartIds, Shut(c)
    PROVE  TypeOK' /\ Clocked'
<1>1. UNCHANGED <<pc, job, found, sessions, gone, raced>>
  BY DEF Shut, Close, Delete
<1>2. /\ now \in Nat
      /\ \A d \in CartIds : carts[d].version \in Nat
      /\ \A q \in Requests : found[q].version \in Nat
  BY DEF TypeOK, Cart, Found
<1>3. TypeOK'
  BY <1>1, <1>2, CloseType DEF TypeOK
<1>4. Clocked'
  BY <1>1, <1>2, CloseType DEF Clocked
<1>. QED
  BY <1>3, <1>4

LEMMA InitType == Init => TypeOK /\ Clocked
<1>. SUFFICES ASSUME Init PROVE TypeOK /\ Clocked
  OBVIOUS
<1>. USE DEF Init
<1>1. carts \in [CartIds -> Cart] /\ found \in [Requests -> Found] /\ now \in Nat
  BY DEF Cart, Found
<1>2. raced \in BOOLEAN
  BY Zenon
<1>3. pc \in [Requests -> {"idle"} \cup InFlight \cup Finished]
  OBVIOUS
<1>4. TypeOK
  BY <1>1, <1>2, <1>3 DEF TypeOK
<1>. QED
  BY <1>4 DEF Clocked

LEMMA TypesStep == TypeOK /\ Clocked /\ [Next]_vars => TypeOK' /\ Clocked'
<1>. SUFFICES ASSUME TypeOK, Clocked, [Next]_vars PROVE TypeOK' /\ Clocked'
  OBVIOUS
<1>1. CASE \E r \in Requests : Step(r)
  BY <1>1, StepType
<1>2. CASE \E c \in CartIds : Shut(c)
  BY <1>2, CloseKeeps
<1>3. CASE UNCHANGED vars
  BY <1>3 DEF vars, TypeOK, Clocked
<1>. QED
  BY <1>1, <1>2, <1>3 DEF Next, Shut

\* Type correctness: no interleaving of requests, failures and closed carts takes a variable
\* out of its shape, and no request updates or pays a cart it does not have.
THEOREM CartTypes == Spec => []TypeOK
<1>. QED
  BY InitType, TypesStep, PTL DEF Spec

-----------------------------------------------------------------------------
\* A request's step leaves every other request where it is, and every job what it is.
LEMMA OthersStay ==
    ASSUME TypeOK, NEW r \in Requests, Step(r)
    PROVE  /\ job' = job
           /\ \A q \in Requests \ {r} : pc'[q] = pc[q] /\ found'[q] = found[q]
  BY DEF TypeOK, Step, Find, Create, ReadCreated, Update, UpdateRefused, UpdateMissed, CallFails,
         CreateSession, Answer

\* Only making and updating a cart change the carts.
LEMMA OnlyTwoChange ==
    ASSUME NEW r \in Requests, Step(r), ~Create(r), ~Update(r)
    PROVE  UNCHANGED <<carts, now, gone, raced>>
  BY DEF Step, Find, ReadCreated, UpdateRefused, UpdateMissed, CallFails, CreateSession, Answer

\* A cart that is made takes a free id and is empty.
LEMMA CreateMakes ==
    ASSUME TypeOK, NEW r \in Requests, Create(r)
    PROVE  \E c \in CartIds :
              /\ carts[c].state = "none"
              /\ carts'[c].state = "Active" /\ carts'[c].version = now + 1 /\ carts'[c].lines = {}
              /\ \A d \in CartIds \ {c} : carts'[d] = carts[d]
<1>1. PICK c \in CartIds :
         /\ carts[c].state = "none"
         /\ carts' = [carts EXCEPT ![c] = [state |-> "Active", version |-> now + 1, lines |-> {}]]
  BY DEF Create, Modified
<1>2. \A d \in CartIds \ {c} : carts'[d] = carts[d]
  BY <1>1 DEF TypeOK
<1>3. carts'[c].state = "Active" /\ carts'[c].version = now + 1 /\ carts'[c].lines = {}
  BY <1>1 DEF TypeOK
<1>. QED
  BY <1>1, <1>2, <1>3

LEMMA UpdateHasCart ==
    ASSUME TypeOK, NEW r \in Requests, Update(r)
    PROVE  found[r].id \in CartIds /\ Modify(r)
  BY DEF Update, TypeOK

-----------------------------------------------------------------------------
\* While no two requests have made a cart at once, a request comes to make one only as long
\* as there is none.
MakesTheOnlyOne == ~raced => \A r \in Requests : pc[r] = "creating" => Visible = {}

LEMMA StepOnlyOne ==
    ASSUME TypeOK, Clocked, MakesTheOnlyOne, OneActiveCart, NEW r \in Requests, Step(r)
    PROVE  MakesTheOnlyOne' /\ OneActiveCart'
<1>1. CASE Create(r)
  <2>. SUFFICES ASSUME ~raced'
                PROVE  /\ \A q \in Requests : pc'[q] = "creating" => Visible' = {}
                       /\ \A c, d \in Visible' : c = d
    BY DEF MakesTheOnlyOne, OneActiveCart
  <2>1. ~raced /\ \A q \in Requests \ {r} : pc[q] # "creating"
    BY <1>1 DEF Create
  <2>2. Visible = {}
    BY <1>1, <2>1 DEF Create, MakesTheOnlyOne
  <2>3. PICK c \in CartIds : \A d \in CartIds \ {c} : carts'[d] = carts[d]
    BY <1>1, CreateMakes
  <2>4. Visible' \subseteq {c}
    BY <2>2, <2>3 DEF Visible
  <2>5. \A q \in Requests : pc'[q] # "creating"
    BY <1>1, <2>1 DEF Create, TypeOK
  <2>. QED
    BY <2>4, <2>5
<1>2. CASE Update(r)
  <2>1. /\ carts'[found[r].id].state = carts[found[r].id].state
        /\ \A c \in CartIds \ {found[r].id} : carts'[c] = carts[c]
    BY <1>2, UpdateHasCart, ModifyType
  <2>2. Visible' = Visible
    BY <2>1 DEF Visible
  <2>3. raced' = raced /\ \A q \in Requests : pc'[q] = "creating" => pc[q] = "creating"
    BY <1>2 DEF Update, TypeOK
  <2>. QED
    BY <2>2, <2>3 DEF MakesTheOnlyOne, OneActiveCart
<1>3. CASE ~Create(r) /\ ~Update(r)
  <2>1. carts' = carts /\ raced' = raced
    BY <1>3, OnlyTwoChange
  <2>2. \A q \in Requests : pc'[q] = "creating" => pc[q] = "creating" \/ Visible = {}
    BY <1>3, AfterFindType DEF TypeOK, Step, Find, ReadCreated, UpdateRefused, UpdateMissed, CallFails,
       CreateSession, Answer
  <2>. QED
    BY <2>1, <2>2 DEF MakesTheOnlyOne, OneActiveCart, Visible
<1>. QED
  BY <1>1, <1>2, <1>3

\* A shopper has one Active cart, unless two requests made one at once.
THEOREM OneCart == Spec => []OneActiveCart
<1>. DEFINE IInv == TypeOK /\ Clocked /\ MakesTheOnlyOne /\ OneActiveCart
<1>1. Init => IInv
  <2>1. Init => MakesTheOnlyOne /\ OneActiveCart
    BY DEF Init, MakesTheOnlyOne, OneActiveCart, Visible
  <2>. QED
    BY <2>1, InitType
<1>2. IInv /\ [Next]_vars => IInv'
  <2>. SUFFICES ASSUME IInv, [Next]_vars PROVE MakesTheOnlyOne' /\ OneActiveCart'
    BY TypesStep
  <2>1. CASE \E r \in Requests : Step(r)
    BY <2>1, StepOnlyOne
  <2>2. CASE \E c \in CartIds : Shut(c)
    <3>1. PICK c \in CartIds : Shut(c)
      BY <2>2
    <3>2. Visible' \subseteq Visible
      BY <3>1, CloseType DEF Visible
    <3>3. pc' = pc /\ raced' = raced
      BY <3>1 DEF Shut, Close, Delete
    <3>. QED
      BY <3>2, <3>3 DEF MakesTheOnlyOne, OneActiveCart
  <2>3. CASE UNCHANGED vars
    BY <2>3 DEF vars, MakesTheOnlyOne, OneActiveCart, Visible
  <2>. QED
    BY <2>1, <2>2, <2>3 DEF Next, Shut
<1>. QED
  BY <1>1, <1>2, PTL DEF Spec

-----------------------------------------------------------------------------
\* A snapshot whose version is still the cart's shows the cart's lines.
SnapshotTrue ==
    \A r \in Requests :
        (pc[r] = "updating" /\ carts[found[r].id].version = found[r].version) =>
            carts[found[r].id].lines = found[r].lines

\* An add that is answered is in a cart, or was replaced by a request that had seen it, or
\* its cart is deleted.
AddedThere ==
    \A r \in Requests :
        (pc[r] \in {"answering", "ok", "refused"} /\ job[r] = "add") =>
            \/ r \in gone
            \/ \E c \in CartIds : r \in carts[c].lines
            \/ found[r].id \in Deleted

\* A modified cart's version is newer than any that was read.
LEMMA NewerThanRead ==
    ASSUME TypeOK, Clocked, NEW q \in Requests
    PROVE  found[q].version # now + 1
  BY DEF TypeOK, Clocked, Found

LEMMA StepSnapshot ==
    ASSUME TypeOK, Clocked, SnapshotTrue, NEW r \in Requests, Step(r)
    PROVE  SnapshotTrue'
<1>. SUFFICES ASSUME NEW q \in Requests, pc'[q] = "updating",
                     carts'[found'[q].id].version = found'[q].version
              PROVE  carts'[found'[q].id].lines = found'[q].lines
  BY DEF SnapshotTrue
<1>1. CASE Create(r)
  <2>1. q # r /\ pc[q] = "updating" /\ found'[q] = found[q]
    BY <1>1, OthersStay DEF Create, TypeOK
  <2>2. PICK c \in CartIds :
           /\ carts'[c].version = now + 1
           /\ \A d \in CartIds \ {c} : carts'[d] = carts[d]
    BY <1>1, CreateMakes
  <2>3. found[q].id \in CartIds /\ found[q].id # c
    BY <2>1, <2>2, NewerThanRead DEF TypeOK
  <2>. QED
    BY <2>1, <2>2, <2>3 DEF SnapshotTrue
<1>2. CASE Update(r)
  <2>1. q # r /\ pc[q] = "updating" /\ found'[q] = found[q]
    BY <1>2, OthersStay DEF Update, TypeOK
  <2>2. carts'[found[r].id].version = now + 1
    BY <1>2, UpdateHasCart, ModifyType
  <2>3. \A c \in CartIds \ {found[r].id} : carts'[c] = carts[c]
    BY <1>2, UpdateHasCart, ModifyType
  <2>4. found[q].id \in CartIds /\ found[q].id # found[r].id
    BY <2>1, <2>2, NewerThanRead DEF TypeOK
  <2>. QED
    BY <2>1, <2>3, <2>4 DEF SnapshotTrue
<1>3. CASE Find(r) \/ ReadCreated(r)
  <2>0. carts' = carts
    BY <1>3 DEF Find, ReadCreated
  <2>1. CASE q # r
    BY <2>0, <2>1, OthersStay DEF SnapshotTrue
  <2>2. CASE q = r
    <3>1. \E c \in CartIds : found'[r] = Snapshot(c)
      BY <1>3, <2>2, AfterMissType DEF Find, ReadCreated, TypeOK
    <3>. QED
      BY <2>0, <2>2, <3>1, SnapshotType
  <2>. QED
    BY <2>1, <2>2
<1>4. CASE UpdateRefused(r) \/ UpdateMissed(r) \/ CallFails(r) \/ CreateSession(r) \/ Answer(r)
  <2>1. carts' = carts /\ found' = found /\ pc[q] = "updating"
    BY <1>4 DEF UpdateRefused, UpdateMissed, CallFails, CreateSession, Answer, TypeOK
  <2>. QED
    BY <2>1 DEF SnapshotTrue
<1>. QED
  BY <1>1, <1>2, <1>3, <1>4 DEF Step

\* A cart nobody has made yet is empty.
UnmadeEmpty == \A c \in CartIds : carts[c].state = "none" => carts[c].lines = {}

LEMMA StepUnmade ==
    ASSUME TypeOK, Clocked, UnmadeEmpty, NEW r \in Requests, Step(r)
    PROVE  UnmadeEmpty'
<1>1. CASE Create(r)
  BY <1>1, CreateMakes DEF UnmadeEmpty
<1>2. CASE Update(r)
  <2>1. /\ carts'[found[r].id].state = carts[found[r].id].state
        /\ carts[found[r].id].state = "Active"
    BY <1>2, UpdateHasCart, ModifyType DEF Update
  <2>2. \A c \in CartIds \ {found[r].id} : carts'[c] = carts[c]
    BY <1>2, UpdateHasCart, ModifyType
  <2>. QED
    BY <2>1, <2>2 DEF UnmadeEmpty
<1>3. CASE ~Create(r) /\ ~Update(r)
  BY <1>3, OnlyTwoChange DEF UnmadeEmpty
<1>. QED
  BY <1>1, <1>2, <1>3

\* Only a request to pay comes to make a Checkout session.
PayersPay == \A r \in Requests : pc[r] = "paying" => job[r] = "pay"

LEMMA StepPayers ==
    ASSUME TypeOK, PayersPay, NEW r \in Requests, Step(r)
    PROVE  PayersPay'
<1>1. job' = job /\ \A q \in Requests \ {r} : pc'[q] = pc[q]
  BY OthersStay
<1>2. pc'[r] = "paying" => job[r] = "pay"
  BY DEF TypeOK, Step, Find, AfterFind, AfterMiss, Create, ReadCreated, Update, UpdateRefused,
         UpdateMissed, CallFails, CreateSession, Answer
<1>. QED
  BY <1>1, <1>2 DEF PayersPay

LEMMA StepAdded ==
    ASSUME TypeOK, Clocked, SnapshotTrue, UnmadeEmpty, PayersPay, AddedThere,
           NEW r \in Requests, Step(r)
    PROVE  AddedThere'
<1>. DEFINE There(q) == q \in gone \/ \E c \in CartIds : q \in carts[c].lines
<1>1. \A q \in Requests : There(q) => There(q)'
  <2>1. CASE Create(r)
    <3>1. PICK c \in CartIds :
             /\ carts[c].state = "none"
             /\ \A d \in CartIds \ {c} : carts'[d] = carts[d]
      BY <2>1, CreateMakes
    <3>2. carts[c].lines = {} /\ gone' = gone
      BY <2>1, <3>1 DEF UnmadeEmpty, Create
    <3>. QED
      BY <3>1, <3>2
  <2>2. CASE Update(r)
    <3>. DEFINE id == found[r].id
    <3>1. id \in CartIds /\ Modify(r)
      BY <2>2, UpdateHasCart
    <3>2. \A c \in CartIds \ {id} : carts'[c] = carts[c]
      BY <3>1, ModifyType
    <3>3. carts'[id].lines = NewLines(r, carts[id].lines)
      BY <3>1, ModifyType
    <3>4. gone \subseteq gone'
      BY <3>1 DEF Modify
    <3>5. carts[id].lines \subseteq gone' \cup carts'[id].lines
      <4>1. CASE job[r] \in {"set", "remove"}
        <5>1. carts[id].lines = found[r].lines
          BY <2>2 DEF Update, SnapshotTrue
        <5>2. gone' = gone \cup found[r].lines
          BY <3>1, <4>1 DEF Modify
        <5>. QED
          BY <5>1, <5>2
      <4>2. CASE job[r] \notin {"set", "remove"}
        BY <3>3, <4>2 DEF NewLines
      <4>. QED
        BY <4>1, <4>2
    <3>. QED
      BY <3>1, <3>2, <3>4, <3>5
  <2>3. CASE ~Create(r) /\ ~Update(r)
    BY <2>3, OnlyTwoChange
  <2>. QED
    BY <2>1, <2>2, <2>3
\* A deleted cart stays deleted: requests only change carts that are free or Active.
<1>3. Deleted \subseteq Deleted'
  <2>1. CASE Create(r)
    BY <2>1, CreateMakes DEF Deleted
  <2>2. CASE Update(r)
    <3>1. \A c \in CartIds \ {found[r].id} : carts'[c] = carts[c]
      BY <2>2, UpdateHasCart, ModifyType
    <3>2. carts[found[r].id].state = "Active"
      BY <2>2 DEF Update
    <3>. QED
      BY <3>1, <3>2 DEF Deleted
  <2>3. CASE ~Create(r) /\ ~Update(r)
    BY <2>3, OnlyTwoChange DEF Deleted
  <2>. QED
    BY <2>1, <2>2, <2>3
<1>2. (pc'[r] \in {"answering", "ok", "refused"} /\ job'[r] = "add")
         => There(r)' \/ found'[r].id \in Deleted'
  <2>1. CASE Update(r)
    <3>1. found[r].id \in CartIds
      BY <2>1, UpdateHasCart
    <3>2. carts'[found[r].id].lines = NewLines(r, carts[found[r].id].lines)
      BY <2>1, UpdateHasCart, ModifyType
    <3>3. job'[r] = "add" => r \in carts'[found[r].id].lines
      BY <2>1, <3>2, OthersStay DEF NewLines
    <3>. QED
      BY <3>1, <3>3
  <2>2. CASE Answer(r)
    <3>1. pc[r] = "answering" /\ job' = job /\ found' = found
      BY <2>2 DEF Answer
    <3>. QED
      BY <1>1, <1>3, <3>1 DEF AddedThere
  <2>3. CASE Find(r)
    <3>1. job'[r] = "add" => pc'[r] \in {"updating", "creating"}
      BY <2>3 DEF Find, AfterFind, AfterMiss, TypeOK
    <3>. QED
      BY <3>1
  <2>6. CASE UpdateMissed(r)
    <3>1. found[r].id \in Deleted /\ found' = found
      BY <2>6 DEF UpdateMissed
    <3>. QED
      BY <1>3, <3>1
  <2>4. CASE Create(r) \/ ReadCreated(r) \/ UpdateRefused(r) \/ CallFails(r)
    BY <2>4 DEF Create, ReadCreated, UpdateRefused, CallFails, TypeOK
  <2>5. CASE CreateSession(r)
    BY <2>5, OthersStay DEF CreateSession, PayersPay
  <2>. QED
    BY <2>1, <2>2, <2>3, <2>4, <2>5, <2>6 DEF Step
<1>. QED
  BY <1>1, <1>2, <1>3, OthersStay DEF AddedThere

\* What was added and acknowledged stays until a request that had seen it takes it away, or
\* its cart is deleted.
THEOREM AddsAreKept == Spec => []AddKept
<1>. DEFINE IInv == /\ TypeOK /\ Clocked
                    /\ SnapshotTrue /\ UnmadeEmpty /\ PayersPay /\ AddedThere
<1>1. Init => IInv
  <2>1. Init => SnapshotTrue /\ UnmadeEmpty /\ PayersPay /\ AddedThere
    BY DEF Init, SnapshotTrue, UnmadeEmpty, PayersPay, AddedThere
  <2>. QED
    BY <2>1, InitType
<1>2. IInv /\ [Next]_vars => IInv'
  <2>. SUFFICES ASSUME IInv, [Next]_vars
                PROVE  SnapshotTrue' /\ UnmadeEmpty' /\ PayersPay' /\ AddedThere'
    BY TypesStep
  <2>1. CASE \E r \in Requests : Step(r)
    BY <2>1, StepSnapshot, StepUnmade, StepPayers, StepAdded
  <2>2. CASE \E c \in CartIds : Shut(c)
    <3>1. PICK c \in CartIds : Shut(c)
      BY <2>2
    <3>2. UNCHANGED <<pc, job, found, gone>>
      BY <3>1 DEF Shut, Close, Delete
    <3>3. /\ \A d \in CartIds : carts'[d].lines = carts[d].lines
          /\ \A d \in CartIds \ {c} : carts'[d] = carts[d]
          /\ carts'[c].version = now + 1
      BY <3>1, CloseType
    <3>4. SnapshotTrue'
      <4>. SUFFICES ASSUME NEW q \in Requests, pc[q] = "updating",
                           carts'[found[q].id].version = found[q].version
                    PROVE  carts'[found[q].id].lines = found[q].lines
        BY <3>2 DEF SnapshotTrue
      <4>1. found[q].id \in CartIds /\ found[q].id # c
        BY <3>3, NewerThanRead DEF TypeOK
      <4>. QED
        BY <3>3, <4>1 DEF SnapshotTrue
    <3>5. UnmadeEmpty'
      <4>1. carts'[c].state # "none"
        BY <3>1, CloseType
      <4>. QED
        BY <3>3, <4>1 DEF UnmadeEmpty
    <3>6. Deleted \subseteq Deleted'
      BY <3>1, <3>3, CloseType DEF Deleted
    <3>7. PayersPay' /\ AddedThere'
      BY <3>2, <3>3, <3>6 DEF PayersPay, AddedThere
    <3>. QED
      BY <3>4, <3>5, <3>7
  <2>3. CASE UNCHANGED vars
    BY <2>3 DEF vars, SnapshotTrue, UnmadeEmpty, PayersPay, AddedThere, Deleted
  <2>. QED
    BY <2>1, <2>2, <2>3 DEF Next, Shut
<1>3. IInv => AddKept
  BY DEF AddedThere, AddKept
<1>. QED
  BY <1>1, <1>2, <1>3, PTL DEF Spec

-----------------------------------------------------------------------------
\* A request is in a cart only once it has updated one.
InPlace ==
    \A r \in Requests, c \in CartIds :
        r \in carts[c].lines => pc[r] \in {"answering"} \cup Finished

LEMMA StepOnce ==
    ASSUME TypeOK, Clocked, InPlace, OneCartPerAdd, NEW r \in Requests, Step(r)
    PROVE  InPlace' /\ OneCartPerAdd'
<1>. USE DEF Finished
<1>1. pc[r] \in {"answering"} \cup Finished => pc'[r] \in {"answering"} \cup Finished
  BY DEF TypeOK, Step, Find, Create, ReadCreated, Update, UpdateRefused, UpdateMissed, CallFails,
         CreateSession, Answer
<1>2. CASE Create(r)
  <2>1. PICK c \in CartIds :
           /\ carts'[c].lines = {}
           /\ \A d \in CartIds \ {c} : carts'[d] = carts[d]
    BY <1>2, CreateMakes
  <2>2. \A d \in CartIds : carts'[d].lines \subseteq carts[d].lines
    BY <2>1
  <2>. QED
    BY <1>1, <2>2, OthersStay DEF InPlace, OneCartPerAdd
<1>3. CASE Update(r)
  <2>. DEFINE id == found[r].id
  <2>1. id \in CartIds
    BY <1>3, UpdateHasCart
  <2>2. \A c \in CartIds \ {id} : carts'[c] = carts[c]
    BY <1>3, UpdateHasCart, ModifyType
  <2>3. carts'[id].lines \subseteq carts[id].lines \cup {r}
    <3>1. carts'[id].lines = NewLines(r, carts[id].lines)
      BY <1>3, UpdateHasCart, ModifyType
    <3>. QED
      BY <3>1 DEF NewLines
  <2>4. \A c \in CartIds : r \notin carts[c].lines
    BY <1>3 DEF Update, InPlace
  <2>5. pc'[r] \in {"answering"} \cup Finished
    BY <1>3 DEF Update, TypeOK
  <2>6. InPlace'
    BY <2>1, <2>2, <2>3, <2>5, OthersStay DEF InPlace
  <2>7. OneCartPerAdd'
    BY <2>1, <2>2, <2>3, <2>4 DEF OneCartPerAdd
  <2>. QED
    BY <2>6, <2>7
<1>4. CASE ~Create(r) /\ ~Update(r)
  BY <1>1, <1>4, OnlyTwoChange, OthersStay DEF InPlace, OneCartPerAdd
<1>. QED
  BY <1>2, <1>3, <1>4

\* No request is served in two carts, whatever answers are lost and carts closed.
THEOREM ServedOnce == Spec => []OneCartPerAdd
<1>. DEFINE IInv == TypeOK /\ Clocked /\ InPlace /\ OneCartPerAdd
<1>1. Init => IInv
  <2>1. Init => InPlace /\ OneCartPerAdd
    BY DEF Init, InPlace, OneCartPerAdd
  <2>. QED
    BY <2>1, InitType
<1>2. IInv /\ [Next]_vars => IInv'
  <2>. SUFFICES ASSUME IInv, [Next]_vars PROVE InPlace' /\ OneCartPerAdd'
    BY TypesStep
  <2>1. CASE \E r \in Requests : Step(r)
    BY <2>1, StepOnce
  <2>2. CASE \E c \in CartIds : Shut(c)
    <3>1. PICK c \in CartIds : Shut(c)
      BY <2>2
    <3>2. pc' = pc /\ \A d \in CartIds : carts'[d].lines = carts[d].lines
      BY <3>1, CloseType DEF Shut, Close, Delete
    <3>. QED
      BY <3>2 DEF InPlace, OneCartPerAdd
  <2>3. CASE UNCHANGED vars
    BY <2>3 DEF vars, InPlace, OneCartPerAdd
  <2>. QED
    BY <2>1, <2>2, <2>3 DEF Next, Shut
<1>. QED
  BY <1>1, <1>2, PTL DEF Spec

(***************************************************************************)
(* ReferenceCache                                                          *)
(***************************************************************************)

\* Taking one element out of a sequence leaves a sequence over the same set.
LEMMA WithoutType ==
    ASSUME NEW S, NEW s \in Seq(S), NEW i \in DOMAIN s
    PROVE  SubSeq(s, 1, i - 1) \o SubSeq(s, i + 1, Len(s)) \in Seq(S)
<1>1. Len(s) \in Nat /\ i \in 1 .. Len(s)
  BY LenProperties
<1>2. SubSeq(s, 1, i - 1) \in Seq(S)
  <2>1. \A j \in 1 .. i - 1 : s[j] \in S
    BY <1>1, ElementOfSeq
  <2>2. 1 \in Int /\ i - 1 \in Int
    BY <1>1
  <2>. QED
    BY <2>1, <2>2, SubSeqProperties
<1>3. SubSeq(s, i + 1, Len(s)) \in Seq(S)
  <2>1. \A j \in i + 1 .. Len(s) : s[j] \in S
    BY <1>1, ElementOfSeq
  <2>2. i + 1 \in Int /\ Len(s) \in Int
    BY <1>1
  <2>. QED
    BY <2>1, <2>2, SubSeqProperties
<1>. QED
  BY <1>2, <1>3, ConcatProperties

LEMMA CacheInitType == CacheInit => CacheTypeOK
<1>. SUFFICES ASSUME CacheInit PROVE CacheTypeOK
  OBVIOUS
<1>1. 0 \in Version
  BY WritesAssumption DEF Version
<1>2. crossed \in BOOLEAN /\ tainted \in BOOLEAN
  BY Zenon DEF CacheInit
<1>3. queue \in Seq(Callers)
  BY EmptySeq DEF CacheInit
<1>. QED
  BY <1>1, <1>2, <1>3 DEF CacheInit, CacheTypeOK

LEMMA CacheTypeStep == CacheTypeOK /\ [CacheNext]_cacheVars => CacheTypeOK'
<1>. SUFFICES ASSUME CacheTypeOK, [CacheNext]_cacheVars PROVE CacheTypeOK'
  OBVIOUS
<1>. USE DEF histories, GetAnswer
<1>0. \A v, w \in Version : Larger(v, w) \in Version
  BY DEF Larger
<1>1. ASSUME NEW c \in Callers, Hit(c) PROVE CacheTypeOK'
  BY <1>0, <1>1, NilAssumption DEF CacheTypeOK, Hit
<1>2. ASSUME NEW c \in Callers, Begin(c) PROVE CacheTypeOK'
  BY <1>2 DEF CacheTypeOK, Begin
<1>3. ASSUME NEW c \in Callers, Wait(c) PROVE CacheTypeOK'
  <2>1. queue' \in Seq(Callers)
    BY <1>3, AppendProperties DEF CacheTypeOK, Wait
  <2>. QED
    BY <1>3, <2>1 DEF CacheTypeOK, Wait
<1>4. ASSUME NEW c \in Callers, AcquireHit(c) PROVE CacheTypeOK'
  <2>1. queue' \in Seq(Callers)
    BY <1>4, HeadTailProperties DEF CacheTypeOK, AcquireHit
  <2>. QED
    BY <1>0, <1>4, <2>1, NilAssumption DEF CacheTypeOK, AcquireHit
<1>5. ASSUME NEW c \in Callers, AcquireLoad(c) PROVE CacheTypeOK'
  <2>1. queue' \in Seq(Callers)
    BY <1>5, HeadTailProperties DEF CacheTypeOK, AcquireLoad
  <2>. QED
    BY <1>5, <2>1 DEF CacheTypeOK, AcquireLoad
<1>6. ASSUME NEW c \in Callers, Read(c) PROVE CacheTypeOK'
  BY <1>6 DEF CacheTypeOK, Read
<1>7. ASSUME NEW c \in Callers, Fill(c) PROVE CacheTypeOK'
  <2>1. tainted' \in BOOLEAN
    BY <1>7, Zenon DEF CacheTypeOK, Fill
  <2>2. got[c] \in Version /\ fills + 1 \in Nat
    BY DEF CacheTypeOK
  <2>. QED
    BY <1>0, <1>7, <2>1, <2>2 DEF CacheTypeOK, Fill
<1>8. ASSUME NEW c \in Callers, LoadEnds(c) PROVE CacheTypeOK'
  BY <1>8 DEF CacheTypeOK, LoadEnds
<1>9. ASSUME NEW c \in Callers, CancelWait(c) PROVE CacheTypeOK'
  <2>1. queue' \in Seq(Callers)
    BY <1>9, WithoutType DEF CacheTypeOK, CancelWait
  <2>. QED
    BY <1>9, <2>1 DEF CacheTypeOK, CancelWait
<1>10. CASE Change
  BY <1>10, WritesAssumption DEF CacheTypeOK, Change, Version
<1>11. CASE Invalidate
  <2>1. crossed' \in BOOLEAN
    BY <1>11, Zenon DEF CacheTypeOK, Invalidate
  <2>. QED
    BY <1>11, <2>1 DEF CacheTypeOK, Invalidate
<1>12. CASE Expire
  BY <1>12 DEF CacheTypeOK, Expire
<1>13. CASE UNCHANGED cacheVars
  BY <1>13 DEF CacheTypeOK, cacheVars
<1>. QED
  BY <1>1, <1>2, <1>3, <1>4, <1>5, <1>6, <1>7, <1>8, <1>9, <1>10, <1>11, <1>12, <1>13
     DEF CacheNext, GetStep

\* Type correctness of the cache, its lock and its queue.
THEOREM CacheTypes == CacheSpec => []CacheTypeOK
<1>. QED
  BY CacheInitType, CacheTypeStep, PTL DEF CacheSpec

-----------------------------------------------------------------------------
\* The lock excludes: only its holder loads, and it loads into a cache without an entry,
\* because whoever could have filled it would have held the lock.
Exclusive ==
    /\ \A c \in Callers : at[c] \in {"loading", "read"} => lock = c
    /\ lock # Nil => entry = Nil
    /\ fills = IF entry = Nil THEN 0 ELSE 1

\* Loads are therefore serial, and what one read is at least as new as every answer so
\* far; the same holds of the entry.
Serial ==
    /\ newest <= source
    /\ entry # Nil => newest <= entry /\ entry <= source
    /\ \A c \in Callers : at[c] = "read" => newest <= got[c] /\ got[c] <= source

\* What a load read after the last invalidation began is as new as the invalidation.
Causes ==
    /\ floor <= source
    /\ StaleOnlyByRace
    /\ \A c \in Callers : at[c] = "read" /\ got[c] < floor => crossed

CacheInv == CacheTypeOK /\ Exclusive /\ Serial /\ Causes

LEMMA CacheInitInv == CacheInit => CacheInv
<1>1. CacheInit => Exclusive /\ Serial /\ Causes
  BY NilAssumption DEF CacheInit, Exclusive, Serial, Causes, StaleOnlyByRace
<1>. QED
  BY <1>1, CacheInitType DEF CacheInv

\* One step of one task.
LEMMA GetStepInv ==
    ASSUME CacheInv, NEW c \in Callers, GetStep(c)
    PROVE  Exclusive' /\ Serial' /\ Causes'
<1>. USE NilAssumption DEF CacheInv, CacheTypeOK, Exclusive, Serial, Causes, StaleOnlyByRace, Version,
                            histories, GetAnswer, Larger
<1>1. CASE Hit(c)
  BY <1>1 DEF Hit
<1>2. CASE Begin(c)
  BY <1>2 DEF Begin
<1>3. CASE Wait(c)
  BY <1>3 DEF Wait
<1>4. CASE AcquireHit(c)
  BY <1>4 DEF AcquireHit
<1>5. CASE AcquireLoad(c)
  BY <1>5 DEF AcquireLoad
<1>6. CASE Read(c)
  BY <1>6 DEF Read
<1>7. CASE Fill(c)
  BY <1>7 DEF Fill
<1>8. CASE LoadEnds(c)
  BY <1>8 DEF LoadEnds
<1>9. CASE CancelWait(c)
  BY <1>9 DEF CancelWait
<1>. QED
  BY <1>1, <1>2, <1>3, <1>4, <1>5, <1>6, <1>7, <1>8, <1>9 DEF GetStep

LEMMA CacheInvStep == CacheInv /\ [CacheNext]_cacheVars => CacheInv'
<1>. SUFFICES ASSUME CacheInv, [CacheNext]_cacheVars PROVE Exclusive' /\ Serial' /\ Causes'
  BY CacheTypeStep DEF CacheInv
<1>1. CASE \E c \in Callers : GetStep(c)
  BY <1>1, GetStepInv
<1>. USE NilAssumption DEF CacheInv, CacheTypeOK, Exclusive, Serial, Causes, StaleOnlyByRace, Version,
                            histories
<1>2. CASE Change
  BY <1>2 DEF Change
<1>3. CASE Invalidate
  <2>1. Exclusive' /\ Serial'
    BY <1>3 DEF Invalidate
  <2>2. ASSUME NEW c \in Callers, at[c] = "read" PROVE crossed'
    <3>1. lock # Nil
      BY <2>2
    <3>. QED
      BY <1>3, <3>1, Zenon DEF Invalidate
  <2>3. at' = at /\ floor' = source' /\ entry' = Nil /\ source' = source
    BY <1>3 DEF Invalidate
  <2>. QED
    BY <2>1, <2>2, <2>3
<1>4. CASE Expire
  BY <1>4 DEF Expire
<1>5. CASE UNCHANGED cacheVars
  BY <1>5 DEF cacheVars
<1>. QED
  BY <1>1, <1>2, <1>3, <1>4, <1>5 DEF CacheNext

\* Whatever races, fails, is cancelled or invalidated, between two drops of the key it is
\* loaded into the cache at most once.
THEOREM LoadsOnce == CacheSpec => []LoadedOnce
<1>1. CacheInv => LoadedOnce
  BY DEF CacheInv, Exclusive, LoadedOnce
<1>. QED
  BY <1>1, CacheInitInv, CacheInvStep, PTL DEF CacheSpec

\* Only a load that was in flight at the last invalidation leaves an entry older than it.
THEOREM StaleIsRaced == CacheSpec => []StaleOnlyByRace
<1>1. CacheInv => StaleOnlyByRace
  BY DEF CacheInv, Causes
<1>. QED
  BY <1>1, CacheInitInv, CacheInvStep, PTL DEF CacheSpec

\* No get is answered with an older version than any get before it.
THEOREM AnswersAdvance == CacheSpec => NeverBackwards
<1>. DEFINE Forward == \A c \in Callers :
                          /\ Hit(c) \/ AcquireHit(c) => entry >= newest
                          /\ Fill(c) => got[c] >= newest
<1>1. CacheInv => Forward
  BY NilAssumption DEF CacheInv, CacheTypeOK, Version, Serial, Hit, AcquireHit, Fill
<1>2. CacheInit /\ [][CacheNext]_cacheVars => [][Forward]_cacheVars
  BY <1>1, CacheInitInv, CacheInvStep, PTL
<1>. QED
  BY <1>2 DEF CacheSpec, NeverBackwards
=============================================================================
