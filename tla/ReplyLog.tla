------------------------------- MODULE ReplyLog -------------------------------
(***************************************************************************)
(* What a conversation promises its reader: replies come one at a time, a  *)
(* reply only says more, it is closed once, and from then on it never      *)
(* changes.  The one thing a reply takes back is a card: a card may fail   *)
(* and be taken up again, and one that has failed goes when the reply is   *)
(* closed.  A reply that is broken off has said something, so it is empty  *)
(* only if what it said were cards that failed.                            *)
(*                                                                         *)
(* It says nothing of events, streams, tools or timers.                    *)
(***************************************************************************)
EXTENDS Naturals, Sequences

CONSTANTS
    Said,          \* what a reply is made of
    Card,          \* the one of them that may fail
    Failed         \* such a card once it has failed

VARIABLE replies   \* the replies in order, each with what it said and how it stands

replyVars == <<replies>>

Standing == {"open", "done", "broken"}
Newest == replies[Len(replies)]
Open == replies # << >> /\ Newest.standing = "open"

\* What is left of what was said without the cards that failed.
Left(said) ==
    LET left[n \in 0..Len(said)] ==
          IF n = 0 THEN << >>
          ELSE IF said[n] = Failed THEN left[n - 1] ELSE Append(left[n - 1], said[n])
    IN  left[Len(said)]

Init == replies = << >>

Begin ==
    /\ ~Open
    /\ replies' = Append(replies, [said |-> << >>, standing |-> "open"])

\* The newest reply says one thing more, perhaps with a break before it.
Say ==
    /\ Open
    /\ \E n \in 1..2 : \E more \in [1..n -> Said] :
         replies' = [replies EXCEPT ![Len(replies)].said = @ \o more]

\* Cards fail, or are taken up again, where they stand.
Mark(from, to) ==
    /\ Open
    /\ \E marked \in SUBSET DOMAIN Newest.said :
         /\ \A i \in marked : Newest.said[i] = from
         /\ replies' = [replies EXCEPT ![Len(replies)].said =
                           [i \in DOMAIN @ |-> IF i \in marked THEN to ELSE @[i]]]

\* It may say a last thing as it closes, and what has failed goes.
Close(standing) ==
    /\ Open
    /\ \E last \in {<< >>} \cup {<<p>> : p \in Said} :
         LET all == Newest.said \o last
         IN  /\ standing = "broken" => all # << >>
             /\ replies' = [replies EXCEPT ![Len(replies)] =
                               [said |-> Left(all), standing |-> standing]]

Next ==
    \/ Begin
    \/ Say
    \/ Mark(Card, Failed)
    \/ Mark(Failed, Card)
    \/ Close("done")
    \/ Close("broken")

Spec == Init /\ [][Next]_replyVars
===============================================================================
