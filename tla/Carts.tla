-------------------------------- MODULE Carts --------------------------------
(***************************************************************************)
(* One shopper's carts on the commerce platform, and the requests that     *)
(* work on them: the Add button and the assistant's cart tools, and the    *)
(* checkout page's routes.                                                 *)
(*                                                                         *)
(* Nothing remembers which cart is the shopper's.  Every request looks for *)
(* the Active cart modified last, an add makes one when there is none, and *)
(* every change is an update that carries the version the request has      *)
(* read.  Each call to the platform is a step; its answer may get lost.    *)
(*                                                                         *)
(* Data is abstract: there is one product, and the lines of a cart are the *)
(* requests whose quantity it holds; a deleted cart's are those it had.    *)
(* The platform's version count and its last-modified time are one number, *)
(* the time of the last modification.                                      *)
(***************************************************************************)
EXTENDS Naturals

CONSTANTS
    CartIds,       \* the carts ever made for this shopper (bound)
    Requests,      \* the requests ever made (bound)
    None           \* no cart

ASSUME NoneAssumption == None \notin CartIds

VARIABLES
    carts,         \* the platform's carts
    now,           \* the platform's clock: it ticks with every modification
    pc,            \* where each request is
    job,           \* what each request does
    found,         \* the cart a request works on, as it read it
    sessions,      \* the carts a Checkout session was made for
    gone,          \* history: quantities that a set or a remove had read, and replaced
    raced          \* history: did two requests make a cart at once?

vars == <<carts, now, pc, job, found, sessions, gone, raced>>

\* "prepare" is the checkout page's address and shipping method, "pay" its Checkout session.
Jobs == {"add", "set", "remove", "prepare", "pay"}

Cart == [state : {"none", "Active", "Frozen", "Ordered", "Deleted"}, version : Nat, lines : SUBSET Requests]
Found == [id : CartIds \cup {None}, version : Nat, lines : SUBSET Requests]

InFlight == {"creating", "created", "updating", "answering", "paying"}
Finished == {"ok", "nocart", "failed", "refused"}

\* cart_owner_predicate: the carts a search sees.
Visible == {c \in CartIds : carts[c].state = "Active"}

Deleted == {c \in CartIds : carts[c].state = "Deleted"}

\* The search is sorted by modification, newest first, and limited to one.
IsLatest(c) == c \in Visible /\ \A d \in Visible : carts[d].version <= carts[c].version

Snapshot(c) == [id |-> c, version |-> carts[c].version, lines |-> carts[c].lines]

\* Where a request goes that found a cart with these lines: there may be nothing to change
\* or nothing to pay, which is an answer.
AfterFind(k, lines) ==
    CASE k \in {"set", "remove"} /\ lines = {} -> "ok"
      [] k = "pay" /\ lines = {}               -> "nocart"
      [] k = "pay" /\ lines # {}               -> "paying"
      [] OTHER                                 -> "updating"

\* Where a request goes that found none.
AfterMiss(k) ==
    CASE k = "add"               -> "creating"
      [] k \in {"set", "remove"} -> "ok"
      [] OTHER                   -> "nocart"

\* What an update makes of the lines it meets.
NewLines(r, lines) ==
    CASE job[r] = "add"     -> lines \cup {r}
      [] job[r] = "set"     -> {r}
      [] job[r] = "remove"  -> {}
      [] OTHER              -> lines

\* A cart as it is after a modification now.
Modified(state, lines) == [state |-> state, version |-> now + 1, lines |-> lines]

-----------------------------------------------------------------------------
Init ==
    /\ carts = [c \in CartIds |-> [state |-> "none", version |-> 0, lines |-> {}]]
    /\ now = 0
    /\ pc = [r \in Requests |-> "idle"]
    /\ job \in [Requests -> Jobs]
    /\ found = [r \in Requests |-> [id |-> None, version |-> 0, lines |-> {}]]
    /\ sessions = {}
    /\ gone = {}
    /\ raced = FALSE

\* _find_cart, the first call of every request.
Find(r) ==
    /\ pc[r] = "idle"
    /\ \/ \E c \in CartIds :
             /\ IsLatest(c)
             /\ found' = [found EXCEPT ![r] = Snapshot(c)]
             /\ pc' = [pc EXCEPT ![r] = AfterFind(job[r], carts[c].lines)]
       \/ /\ Visible = {}
          /\ pc' = [pc EXCEPT ![r] = AfterMiss(job[r])]
          /\ UNCHANGED found
    /\ UNCHANGED <<carts, now, job, sessions, gone, raced>>

\* _create_cart: the platform makes an empty cart; the request learns its id, or its answer
\* is lost and the empty cart stays behind.
Create(r) ==
    /\ pc[r] = "creating"
    /\ \E c \in CartIds :
          /\ carts[c].state = "none"
          /\ carts' = [carts EXCEPT ![c] = Modified("Active", {})]
          /\ found' = [found EXCEPT ![r].id = c]
    /\ now' = now + 1
    /\ pc' \in {[pc EXCEPT ![r] = "created"], [pc EXCEPT ![r] = "failed"]}
    /\ raced' = (raced \/ \E q \in Requests \ {r} : pc[q] = "creating")
    /\ UNCHANGED <<job, sessions, gone>>

\* Mutant: the cart that was made is not read back.
ReadNothing(r) ==
    /\ pc[r] = "created"
    /\ found[r].id \notin Deleted
    /\ found' = [found EXCEPT ![r].id = None]
    /\ pc' = [pc EXCEPT ![r] = "updating"]
    /\ UNCHANGED <<carts, now, job, sessions, gone, raced>>

\* ... and then reads that cart by its id, whatever has become of it; of a deleted one there
\* is nothing to go on with (CallFails).
ReadCreated(r) ==
    /\ pc[r] = "created"
    /\ found[r].id \notin Deleted
    /\ found' = [found EXCEPT ![r] = Snapshot(found[r].id)]
    /\ pc' = [pc EXCEPT ![r] = "updating"]
    /\ UNCHANGED <<carts, now, job, sessions, gone, raced>>

\* What an update does on the platform.
Modify(r) ==
    /\ carts' = [carts EXCEPT ![found[r].id] = Modified(@.state, NewLines(r, @.lines))]
    /\ now' = now + 1
    /\ gone' = IF job[r] \in {"set", "remove"} THEN gone \cup found[r].lines ELSE gone

\* Mutant: the update carries no version.
UpdateUnversioned(r) ==
    /\ pc[r] = "updating"
    /\ carts[found[r].id].state = "Active"
    /\ Modify(r)
    /\ pc' = [pc EXCEPT ![r] = "answering"]
    /\ UNCHANGED <<job, found, sessions, raced>>

\* Mutant: an update without an answer starts over.
UpdateRetrying(r) ==
    /\ pc[r] = "updating"
    /\ carts[found[r].id].state = "Active"
    /\ carts[found[r].id].version = found[r].version
    /\ Modify(r)
    /\ pc' \in {[pc EXCEPT ![r] = "answering"], [pc EXCEPT ![r] = "idle"]}
    /\ UNCHANGED <<job, found, sessions, raced>>

\* _update: the platform accepts the version that was read, and only on an Active cart; its
\* answer may get lost.
Update(r) ==
    /\ pc[r] = "updating"
    /\ carts[found[r].id].state = "Active"
    /\ carts[found[r].id].version = found[r].version
    /\ Modify(r)
    /\ pc' \in {[pc EXCEPT ![r] = "answering"], [pc EXCEPT ![r] = "failed"]}
    /\ UNCHANGED <<job, found, sessions, raced>>

\* Mutant: a refused add goes on with a cart of its own.
UpdateRefusedCreates(r) ==
    /\ pc[r] = "updating"
    /\ \/ carts[found[r].id].state \notin {"Active", "Deleted"}
       \/ found[r].id \notin Deleted /\ carts[found[r].id].version # found[r].version
    /\ pc' = [pc EXCEPT ![r] = IF job[r] = "add" THEN "creating" ELSE "failed"]
    /\ UNCHANGED <<carts, now, job, found, sessions, gone, raced>>

\* _update, refused: another request was first, or the cart was closed.
UpdateRefused(r) ==
    /\ pc[r] = "updating"
    /\ \/ carts[found[r].id].state \notin {"Active", "Deleted"}
       \/ found[r].id \notin Deleted /\ carts[found[r].id].version # found[r].version
    /\ pc' = [pc EXCEPT ![r] = "failed"]
    /\ UNCHANGED <<carts, now, job, found, sessions, gone, raced>>

\* _update of a cart that is gone: the client makes an empty record of the 404, so does the
\* read by the id, and the request is answered as if it had been done.
UpdateMissed(r) ==
    /\ pc[r] = "updating"
    /\ found[r].id \in Deleted
    /\ pc' = [pc EXCEPT ![r] = "answering"]
    /\ UNCHANGED <<carts, now, job, found, sessions, gone, raced>>

\* A call fails: the platform refuses it or gives no answer.  That is any of the above, the
\* read of the cart after an update, or the refusal of a product without a tax category.
CallFails(r) ==
    /\ pc[r] \in InFlight
    /\ pc' = [pc EXCEPT ![r] = "failed"]
    /\ UNCHANGED <<carts, now, job, found, sessions, gone, raced>>

\* create_session: a Checkout session for the cart found at the start of the request, as
\* long as it takes to warm the processor and get a token; the answer may get lost.
CreateSession(r) ==
    /\ pc[r] = "paying"
    /\ found[r].id \notin Deleted
    /\ sessions' = sessions \cup {found[r].id}
    /\ pc' \in {[pc EXCEPT ![r] = "ok"], [pc EXCEPT ![r] = "failed"]}
    /\ UNCHANGED <<carts, now, job, found, gone, raced>>

\* The cart is read back and the request answered.  An add also changed the service's
\* session, whose save may be refused: a 409.
Answer(r) ==
    /\ pc[r] = "answering"
    /\ \/ pc' = [pc EXCEPT ![r] = "ok"]
       \/ job[r] = "add" /\ pc' = [pc EXCEPT ![r] = "refused"]
    /\ UNCHANGED <<carts, now, job, found, sessions, gone, raced>>

\* Checkout closes a cart it has a session for: with an order, or, when the payment is
\* abandoned partway, by leaving it frozen.
Close(c) ==
    /\ c \in sessions
    /\ carts[c].state = "Active"
    /\ \E s \in {"Frozen", "Ordered"} :
          carts' = [carts EXCEPT ![c] = Modified(s, @.lines)]
    /\ now' = now + 1
    /\ UNCHANGED <<pc, job, found, sessions, gone, raced>>

\* An Active cart is deleted: by the platform, which does so with one nobody works on, or by
\* an employee.
Delete(c) ==
    /\ carts[c].state = "Active"
    /\ carts' = [carts EXCEPT ![c] = Modified("Deleted", @.lines)]
    /\ now' = now + 1
    /\ UNCHANGED <<pc, job, found, sessions, gone, raced>>

Step(r) ==
    \/ Find(r) \/ Create(r) \/ ReadCreated(r) \/ Update(r) \/ UpdateRefused(r)
    \/ UpdateMissed(r) \/ CallFails(r) \/ CreateSession(r) \/ Answer(r)

Next == (\E r \in Requests : Step(r)) \/ (\E c \in CartIds : Close(c) \/ Delete(c))

Spec == Init /\ [][Next]_vars

-----------------------------------------------------------------------------
\* Every variable keeps its shape, and a request that updates or pays has a cart to do it to.
TypeOK ==
    /\ carts \in [CartIds -> Cart]
    /\ now \in Nat
    /\ pc \in [Requests -> {"idle"} \cup InFlight \cup Finished]
    /\ job \in [Requests -> Jobs]
    /\ found \in [Requests -> Found]
    /\ \A r \in Requests : pc[r] \in {"created", "updating", "paying"} => found[r].id \in CartIds
    /\ sessions \in SUBSET CartIds
    /\ gone \in SUBSET Requests
    /\ raced \in BOOLEAN

\* The shopper has one Active cart, whatever requests race, fail or lose their answers, and
\* however carts are closed under them, unless two requests without a cart to find came to
\* make one at the same time (find-or-create is two calls).
OneActiveCart == ~raced => \A c, d \in Visible : c = d

\* What was added and acknowledged stays in a cart until a request that had seen it sets
\* another quantity or removes it: no concurrent change of the cart overwrites it.  The one
\* add that is acknowledged for nothing is to a cart that was deleted after it was found.
AddKept ==
    \A r \in Requests :
        (pc[r] = "ok" /\ job[r] = "add") =>
            \/ r \in gone \cup UNION {carts[c].lines : c \in CartIds}
            \/ found[r].id \in Deleted

\* No request is served twice: what one click put in a cart is never in a second one.
OneCartPerAdd == \A c, d \in CartIds : c # d => carts[c].lines \cap carts[d].lines = {}

-----------------------------------------------------------------------------
\* What the repository says of the checkout, and the code does not do.

\* "address on the cart, and the cart made Active if a previous attempt left it Frozen": the
\* checkout page's routes never tell a shopper with a Frozen cart that there is none.
FrozenCartIsFound ==
    [][ \A r \in Requests :
          (job[r] = "prepare" /\ pc[r] = "idle" /\ pc'[r] = "nocart") =>
              \A c \in CartIds : carts[c].state # "Frozen" ]_vars
=============================================================================
