----------------------------- MODULE MemoryFacts ------------------------------
(***************************************************************************)
(* What the assistant knows: the facts the service stores about a shopper, *)
(* the page's copy of them, the mark on those learned since the page was   *)
(* opened, and the account sheet where the shopper corrects or forgets     *)
(* one.                                                                    *)
(*                                                                         *)
(* After a reply an extractor of the service may write facts, in its own   *)
(* time; the page reads the facts again 2.5 s after the reply.  It reads   *)
(* them, too, after each correction.  Reads and corrections are requests:  *)
(* they are served and answered in any order, and any may be lost.         *)
(***************************************************************************)
EXTENDS Integers, Sequences, FiniteSets

CONSTANTS
    Keys,          \* the keys of facts
    Values,        \* what a fact may say
    None,          \* no fact, no answer
    MaxReads,      \* the reads of the store (bound)
    MaxEdits,      \* the corrections sent (bound)
    MaxTurns       \* the replies that end (bound)

ASSUME FactsAssumption ==
    /\ None \notin Keys \cup Values
    /\ MaxReads \in Nat
    /\ MaxEdits \in Nat
    /\ MaxTurns \in Nat

VARIABLES
    store,         \* the service's facts
    extracting,    \* extractions under way
    turns,         \* replies that have ended
    timers,        \* re-reads due after a reply
    reads,         \* the reads sent, in order
    edits,         \* the corrections sent, in order
    memory,        \* the page's copy, None before the first answer
    baseline,      \* memoryBaseline: what does not count as new
    newKeys,       \* newMemoryKeys
    rows,          \* the account sheet's row of each fact
    served,        \* history: the reads the service has served
    newest,        \* history: the latest served of the reads the page has had an answer to
    learned,       \* history: keys the extractor changed
    unsettled,     \* history: corrections no re-read has covered, each with the reads served before it
    overtaken,     \* history: an answer came after that of a read served later
    excuses        \* history: why the copy may be behind, since the store was last read

serverVars == <<store, extracting, turns, timers>>
pageVars == <<memory, baseline, newKeys, rows>>
historyVars == <<served, newest, learned, unsettled, overtaken, excuses>>
vars == <<serverVars, reads, edits, pageVars, historyVars>>

Fact == Values \cup {None}
Facts == [Keys -> Fact]
Row == [editing : BOOLEAN, busy : BOOLEAN, failed : BOOLEAN]
FreshRow == [editing |-> FALSE, busy |-> FALSE, failed |-> FALSE]

Known(k) == memory # None /\ memory[k] # None

\* A read about to be sent; key is the fact the shopper has just corrected, if any.
Reading(key) == [key |-> key, stage |-> "sent", facts |-> None, at |-> 0]
Answered == [key |-> None, stage |-> "done", facts |-> None, at |-> 0]
Read(key) == reads' = Append(reads, Reading(key))

(***************************************************************************)
(* The service                                                             *)
(***************************************************************************)

\* The stream of a reply ended well: the extractor starts, and the page sets its timer.
TurnEnds ==
    /\ memory # None \/ reads # << >>
    /\ turns < MaxTurns
    /\ turns' = turns + 1
    /\ timers' = timers + 1
    /\ extracting' = extracting + 1
    /\ UNCHANGED <<store, reads, edits, pageVars, historyVars>>

\* update_memory: it may take as long as it likes, and may have learned nothing.
Extract ==
    /\ extracting > 0
    /\ extracting' = extracting - 1
    /\ \/ /\ \E k \in Keys, v \in Fact :
               /\ v # store[k]
               /\ store' = [store EXCEPT ![k] = v]
               /\ learned' = learned \cup {k}
          /\ excuses' = excuses \cup {"learned"}
       \/ UNCHANGED <<store, learned, excuses>>
    /\ UNCHANGED <<turns, timers, reads, edits, pageVars, served, newest, unsettled, overtaken>>

\* get_memory
ServeRead(i) ==
    /\ i \in DOMAIN reads
    /\ reads[i].stage = "sent"
    /\ reads' = [reads EXCEPT ![i].stage = "served", ![i].facts = store, ![i].at = served + 1]
    /\ served' = served + 1
    /\ excuses' = {}
    /\ UNCHANGED <<serverVars, edits, pageVars, newest, learned, unsettled, overtaken>>

\* edit_memory_fact: the fact must be there, and its new value pass the check ...
Patch(e) ==
    /\ \/ /\ store[e.key] # None
          /\ edits' = [edits EXCEPT ![e.id].stage = "checked"]
       \/ edits' = [edits EXCEPT ![e.id].stage = "refused"]
    /\ UNCHANGED <<store, unsettled>>

\* ... and is written then, over what has become of the fact since: one forgotten in between
\* is back.
Upsert(i) ==
    /\ i \in DOMAIN edits
    /\ edits[i].stage = "checked"
    /\ store' = [store EXCEPT ![edits[i].key] = edits[i].value]
    /\ edits' = [edits EXCEPT ![i].stage = "accepted"]
    /\ unsettled' = unsettled \cup {<<edits[i].key, served>>}
    /\ UNCHANGED <<extracting, turns, timers, reads, pageVars, served, newest, learned, overtaken, excuses>>

\* delete_memory_fact: one that is gone already is refused.
Delete(e) ==
    \/ /\ store[e.key] # None
       /\ store' = [store EXCEPT ![e.key] = None]
       /\ edits' = [edits EXCEPT ![e.id].stage = "accepted"]
       /\ unsettled' = unsettled \cup {<<e.key, served>>}
    \/ /\ store[e.key] = None
       /\ edits' = [edits EXCEPT ![e.id].stage = "refused"]
       /\ UNCHANGED <<store, unsettled>>

ServeEdit(i) ==
    /\ i \in DOMAIN edits
    /\ edits[i].stage = "sent"
    /\ IF edits[i].value = None THEN Delete(edits[i]) ELSE Patch(edits[i])
    /\ UNCHANGED <<extracting, turns, timers, reads, pageVars, served, newest, learned, overtaken, excuses>>

(***************************************************************************)
(* A request, the work on it or its answer is lost; the caller is told     *)
(* nothing more than null.                                                 *)
(***************************************************************************)

LoseRead(i) ==
    /\ i \in DOMAIN reads
    /\ reads[i].stage \in {"sent", "served"}
    /\ reads' = [reads EXCEPT ![i] = Answered]
    /\ excuses' = excuses \cup {"read lost"}
    /\ UNCHANGED <<serverVars, edits, pageVars, served, newest, learned, unsettled, overtaken>>

LoseEdit(i) ==
    /\ i \in DOMAIN edits
    /\ edits[i].stage \in {"sent", "checked", "accepted"}
    /\ edits' = [edits EXCEPT ![i].stage = "refused"]
    /\ excuses' = IF edits[i].stage = "accepted" THEN excuses \cup {"answer lost"} ELSE excuses
    /\ UNCHANGED <<serverVars, reads, pageVars, served, newest, learned, unsettled, overtaken>>

(***************************************************************************)
(* readMemory                                                              *)
(***************************************************************************)

\* The page's first read, once it has its session.
FirstRead ==
    /\ reads = << >>
    /\ Read(None)
    /\ UNCHANGED <<serverVars, edits, pageVars, historyVars>>

Reread ==
    /\ timers > 0
    /\ Len(reads) < MaxReads
    /\ timers' = timers - 1
    /\ Read(None)
    /\ UNCHANGED <<store, extracting, turns, edits, pageVars, historyVars>>

\* Mutant: a correction is compared with what the page first read.
NewBaselineFirst(facts, key) == IF baseline = None THEN facts ELSE baseline

\* The first answer is the baseline; the corrected fact is in it as it now is.
NewBaseline(facts, key) ==
    LET known == IF baseline = None THEN facts ELSE baseline
    IN  [k \in Keys |-> IF k = key THEN facts[k] ELSE known[k]]

\* A row whose fact is gone leaves the sheet, and what was typed in it.
Mounted(facts) == [k \in Keys |-> IF facts[k] = None THEN FreshRow ELSE rows[k]]

ReadAnswered(i) ==
    LET r == reads[i]
    IN  /\ i \in DOMAIN reads
        /\ r.stage = "served"
        /\ reads' = [reads EXCEPT ![i] = Answered]
        /\ baseline' = NewBaseline(r.facts, r.key)
        /\ memory' = r.facts
        /\ newKeys' = {k \in Keys : r.facts[k] # None /\ baseline'[k] # r.facts[k]}
        /\ rows' = Mounted(r.facts)
        /\ edits' = [j \in DOMAIN edits |->
                       [edits[j] EXCEPT !.row = @ /\ r.facts[edits[j].key] # None]]
        /\ newest' = IF r.at > newest THEN r.at ELSE newest
        /\ unsettled' = {u \in unsettled : ~(u[1] = r.key /\ u[2] < r.at)}
        /\ overtaken' = (overtaken \/ r.at < newest)
        /\ excuses' = IF r.at > newest THEN excuses ELSE excuses \cup {"overtaken"}
        /\ UNCHANGED <<serverVars, served, learned>>

(***************************************************************************)
(* The account sheet                                                       *)
(***************************************************************************)

SetRow(k, row) ==
    /\ rows' = [rows EXCEPT ![k] = row]
    /\ UNCHANGED <<serverVars, reads, memory, baseline, newKeys, historyVars>>

\* Edit, and Save's text box; Cancel and Escape.
Toggle(k) ==
    /\ Known(k)
    /\ SetRow(k, [rows[k] EXCEPT !.editing = ~@])
    /\ UNCHANGED edits

Correct(k, value) ==
    /\ ~rows[k].busy
    /\ Len(edits) < MaxEdits
    /\ SetRow(k, [rows[k] EXCEPT !.busy = TRUE])
    /\ edits' = Append(edits, [id |-> Len(edits) + 1, key |-> k, value |-> value,
                               stage |-> "sent", row |-> TRUE])

\* The draft says v by now.
Save(k, v) ==
    /\ rows[k].editing
    /\ Correct(k, v)

Forget(k) ==
    /\ Known(k)
    /\ ~rows[k].editing
    /\ Correct(k, None)

\* Mutant: the page waits for the next reply to read again.
EditAnsweredQuietly(i) ==
    /\ i \in DOMAIN edits
    /\ edits[i].stage \in {"accepted", "refused"}
    /\ edits' = [edits EXCEPT ![i].stage = "done"]
    /\ rows' = [rows EXCEPT ![edits[i].key] = IF edits[i].row THEN FreshRow ELSE @]
    /\ UNCHANGED <<serverVars, reads, memory, baseline, newKeys, historyVars>>

\* onEdit and onForget, then the row that asked, if it is still there.  What was typed while
\* a save was on its way goes with the draft.
EditAnswered(i) ==
    LET e == edits[i]
        accepted == e.stage = "accepted"
        saving == e.value # None
        row == rows[e.key]
    IN  /\ i \in DOMAIN edits
        /\ e.stage \in {"accepted", "refused"}
        /\ accepted => Len(reads) < MaxReads
        /\ IF accepted THEN Read(e.key) ELSE UNCHANGED reads
        /\ edits' = [edits EXCEPT ![i].stage = "done"]
        /\ rows' = IF e.row
                     THEN [rows EXCEPT ![e.key] =
                             [editing |-> row.editing /\ ~(saving /\ accepted),
                              busy |-> FALSE,
                              failed |-> IF saving THEN ~accepted ELSE row.failed]]
                     ELSE rows
        /\ UNCHANGED <<serverVars, memory, baseline, newKeys, historyVars>>

\* Closing the sheet takes its rows along, and their drafts; requests go on.
CloseSheet ==
    /\ rows # [k \in Keys |-> FreshRow]
    /\ rows' = [k \in Keys |-> FreshRow]
    /\ edits' = [j \in DOMAIN edits |-> [edits[j] EXCEPT !.row = FALSE]]
    /\ UNCHANGED <<serverVars, reads, memory, baseline, newKeys, historyVars>>

Init ==
    /\ store \in Facts
    /\ extracting = 0
    /\ turns = 0
    /\ timers = 0
    /\ reads = << >>
    /\ edits = << >>
    /\ memory = None
    /\ baseline = None
    /\ newKeys = {}
    /\ rows = [k \in Keys |-> FreshRow]
    /\ served = 0
    /\ newest = 0
    /\ learned = {}
    /\ unsettled = {}
    /\ overtaken = FALSE
    /\ excuses = {}

Next ==
    \/ TurnEnds
    \/ Extract
    \/ FirstRead
    \/ Reread
    \/ \E i \in DOMAIN reads : ServeRead(i) \/ LoseRead(i) \/ ReadAnswered(i)
    \/ \E i \in DOMAIN edits : ServeEdit(i) \/ Upsert(i) \/ LoseEdit(i) \/ EditAnswered(i)
    \/ \E k \in Keys : Toggle(k) \/ Forget(k)
    \/ \E k \in Keys, v \in Values : Save(k, v)
    \/ CloseSheet

Spec == Init /\ [][Next]_vars

(***************************************************************************)
(* Properties                                                              *)
(***************************************************************************)

\* Nothing is on its way to the page or due from it.
Quiet ==
    /\ timers = 0
    /\ \A i \in DOMAIN reads : reads[i].stage = "done"
    /\ \A i \in DOMAIN edits : edits[i].stage = "done"

\* When all is quiet the page shows what the store holds, and a correction of the shopper's
\* alone never leaves it behind: it is only so when the extractor wrote after the last read,
\* a request or an answer was lost, or an older answer came after a newer one (readMemory
\* takes answers in the order they come).
ShownIsStored == (Quiet /\ memory # None /\ memory # store) => excuses # {}

\* A fact is marked as new only if the extractor changed it, never for what the shopper did on
\* the page ("A fact the shopper corrected or forgot on the page is not something the
\* assistant learned") once the read that follows the correction is in, unless an older
\* answer overtook it.
NewIsLearned ==
    \A k \in newKeys : \/ k \in learned
                       \/ \E u \in unsettled : u[1] = k
                       \/ overtaken
===============================================================================
