-------------------------- MODULE MemoryFactsProofs --------------------------
(***************************************************************************)
(* What the assistant knows, for every set of facts and every number of    *)
(* reads, corrections and replies: the page shows the store once all is    *)
(* quiet, and marks as new what the extractor learned.                     *)
(***************************************************************************)
EXTENDS MemoryFacts, SequenceTheorems, TLAPS

ReadShape == [key : Keys \cup {None}, stage : {"sent", "served", "done"}, facts : Facts \cup {None}, at : Nat]
EditShape == [id : Nat, key : Keys, value : Fact,
              stage : {"sent", "checked", "accepted", "refused", "done"}, row : BOOLEAN]

Typed ==
    /\ store \in Facts
    /\ reads \in Seq(ReadShape)
    /\ edits \in Seq(EditShape)
    /\ \A i \in 1..Len(edits) : edits[i].id = i
    /\ memory \in Facts \cup {None}
    /\ baseline \in Facts \cup {None}
    /\ served \in Nat
    /\ newest \in Nat
    /\ unsettled \subseteq Keys \X Nat

Out(i) == reads[i].stage = "served"

\* The reads that were served and not answered are numbered apart, and none is the newest
\* answered.
Numbered ==
    /\ newest <= served
    /\ newest = 0 => memory = None /\ baseline = None /\ newKeys = {}
    /\ \A i \in 1..Len(reads) : Out(i) => /\ reads[i].at \in 1..served
                                          /\ reads[i].at # newest
                                          /\ reads[i].facts \in Facts
    /\ \A i, j \in 1..Len(reads) : Out(i) /\ Out(j) /\ reads[i].at = reads[j].at => i = j

\* A read will yet be served: it is sent, or a correction is accepted whose answer sends it.
Due ==
    \/ \E i \in 1..Len(reads) : reads[i].stage = "sent"
    \/ \E i \in 1..Len(edits) : edits[i].stage = "accepted"

Level(facts) == facts = store \/ Due

\* The last read served is on the page or on its way there, and says what the store says, or
\* another will be served.
LastRead ==
    excuses = {} /\ served > 0 =>
      IF newest = served
        THEN Level(memory)
        ELSE \E i \in 1..Len(reads) : Out(i) /\ reads[i].at = served /\ Level(reads[i].facts)

\* No correction of the fact is unsettled since the read numbered n was served.
Settled(k, n) == \A u \in unsettled : u[1] = k => u[2] < n
NoneUnsettled(k) == \A u \in unsettled : u[1] # k

\* A fact that only the shopper changed is in the store as the baseline has it, and as every
\* read still of interest has it, unless a correction has come since.
OnlyCorrected ==
    ~overtaken => \A k \in Keys \ learned :
      /\ newest > 0 /\ NoneUnsettled(k) => baseline[k] = store[k]
      /\ \A i \in 1..Len(reads) :
           Out(i) /\ reads[i].at > newest /\ Settled(k, reads[i].at) => reads[i].facts[k] = store[k]

IInv == Typed /\ Numbered /\ LastRead /\ OnlyCorrected /\ NewIsLearned

(***************************************************************************)
(* Requests                                                                *)
(***************************************************************************)

LEMMA Replaced ==
    ASSUME NEW S, NEW s \in Seq(S), NEW i \in 1..Len(s), NEW e \in S, NEW t, t = [s EXCEPT ![i] = e]
    PROVE  /\ t \in Seq(S)
           /\ Len(t) = Len(s)
           /\ \A j \in 1..Len(s) : t[j] = IF j = i THEN e ELSE s[j]
    OBVIOUS

LEMMA Added ==
    ASSUME NEW S, NEW s \in Seq(S), NEW e \in S, NEW t, t = Append(s, e)
    PROVE  /\ t \in Seq(S)
           /\ Len(t) = Len(s) + 1
           /\ t[Len(s) + 1] = e
           /\ \A j \in 1..Len(s) : t[j] = s[j]
    OBVIOUS

\* A read is sent.
LEMMA ReadSent ==
    ASSUME Typed, NEW key \in Keys \cup {None}, Read(key)
    PROVE  /\ reads' \in Seq(ReadShape)
           /\ Len(reads') = Len(reads) + 1
           /\ reads'[Len(reads) + 1].stage = "sent"
           /\ \A j \in 1..Len(reads) : reads'[j] = reads[j]
<1>1. Reading(key) \in ReadShape
    BY DEF Reading, ReadShape
<1>2. QED
    BY <1>1, Added DEF Read, Reading, Typed

\* A read is answered, or lost.
LEMMA ReadDone ==
    ASSUME Typed, NEW i \in 1..Len(reads), reads' = [reads EXCEPT ![i] = Answered]
    PROVE  /\ reads' \in Seq(ReadShape)
           /\ Len(reads') = Len(reads)
           /\ reads'[i].stage = "done"
           /\ \A j \in 1..Len(reads) : j # i => reads'[j] = reads[j]
<1>1. Answered \in ReadShape
    BY DEF Answered, ReadShape
<1>2. QED
    BY <1>1, Replaced DEF Typed, Answered

\* A correction moves on, or its row is gone.
LEMMA EditMoved ==
    ASSUME Typed, NEW i \in 1..Len(edits),
           NEW stage \in {"sent", "checked", "accepted", "refused", "done"},
           edits' = [edits EXCEPT ![i].stage = stage]
    PROVE  /\ edits' \in Seq(EditShape)
           /\ Len(edits') = Len(edits)
           /\ edits'[i] = [edits[i] EXCEPT !.stage = stage]
           /\ \A j \in 1..Len(edits) : edits'[j].id = j
           /\ \A j \in 1..Len(edits) : j # i => edits'[j] = edits[j]
<1> DEFINE e == [edits[i] EXCEPT !.stage = stage]
<1>1. edits[i] \in EditShape
    BY DEF Typed
<1>2. e \in EditShape /\ e.id = edits[i].id
    BY <1>1 DEF EditShape
<1>3. edits' = [edits EXCEPT ![i] = e]
    OBVIOUS
<1> HIDE DEF e
<1>4. /\ edits' \in Seq(EditShape)
      /\ Len(edits') = Len(edits)
      /\ \A j \in 1..Len(edits) : edits'[j] = IF j = i THEN e ELSE edits[j]
  <2>1. edits \in Seq(EditShape) /\ e \in EditShape
      BY <1>2 DEF Typed
  <2>2. QED
      BY ONLY <2>1, <1>3, i \in 1..Len(edits)
<1>5. \A j \in 1..Len(edits) : edits'[j].id = j
  <2>1. TAKE j \in 1..Len(edits)
  <2>2. e.id = i /\ edits[j].id = j
      BY <1>2 DEF Typed
  <2>3. edits'[j] = IF j = i THEN e ELSE edits[j]
      BY <1>4
  <2>4. CASE j = i
      BY <2>2, <2>3, <2>4
  <2>5. CASE j # i
      BY <2>2, <2>3, <2>5
  <2>6. QED
      BY <2>4, <2>5
<1>6. edits'[i] = e
    BY <1>4
<1>7. edits'[i] = [edits[i] EXCEPT !.stage = stage]
    BY <1>6 DEF e
<1>8. \A j \in 1..Len(edits) : j # i => edits'[j] = edits[j]
    BY <1>4
<1>9. QED
    BY <1>4, <1>5, <1>7, <1>8

LEMMA RowsGone ==
    ASSUME Typed, NEW kept \in [1..Len(edits) -> BOOLEAN],
           edits' = [j \in DOMAIN edits |-> [edits[j] EXCEPT !.row = kept[j]]]
    PROVE  /\ edits' \in Seq(EditShape)
           /\ Len(edits') = Len(edits)
           /\ \A j \in 1..Len(edits) : edits'[j].id = j /\ edits'[j].stage = edits[j].stage
<1>1. ASSUME NEW j \in 1..Len(edits)
      PROVE  /\ [edits[j] EXCEPT !.row = kept[j]] \in EditShape
             /\ [edits[j] EXCEPT !.row = kept[j]].id = j
             /\ [edits[j] EXCEPT !.row = kept[j]].stage = edits[j].stage
  <2>1. edits[j] \in EditShape /\ edits[j].id = j /\ kept[j] \in BOOLEAN
      BY DEF Typed
  <2>2. QED
      BY <2>1 DEF EditShape
<1>2. DOMAIN edits = 1..Len(edits) /\ Len(edits) \in Nat
    BY DEF Typed
<1>3. edits' \in [1..Len(edits) -> EditShape]
    BY <1>1, <1>2
<1>4. edits' \in Seq(EditShape) /\ Len(edits') = Len(edits)
    BY <1>2, <1>3
<1>5. QED
    BY <1>1, <1>2, <1>4

(***************************************************************************)
(* Each step keeps the invariant                                           *)
(***************************************************************************)

EditsTyped == /\ edits \in Seq(EditShape)
              /\ \A i \in 1..Len(edits) : edits[i].id = i

factVars == <<memory, baseline, newKeys, served, newest, learned, unsettled, overtaken>>

\* A step of the sheet or of a correction that takes no effect.
LEMMA EditsOnly ==
    ASSUME IInv, EditsTyped', Due => Due', UNCHANGED <<store, reads, factVars>>,
           excuses' = excuses \/ excuses' # {}
    PROVE  IInv'
<1> USE DEF IInv, factVars
<1>1. Typed'
    BY DEF Typed, EditsTyped
<1>2. Numbered'
    BY DEF Numbered, Out
<1>3. LastRead'
    BY DEF LastRead, Out, Level
<1>4. OnlyCorrected'
    BY DEF OnlyCorrected, Out, Settled, NoneUnsettled
<1>5. NewIsLearned'
    BY DEF NewIsLearned
<1>6. QED
    BY <1>1, <1>2, <1>3, <1>4, <1>5

\* A read is sent: it will be served.
LEMMA SendKeeps ==
    ASSUME IInv, NEW key \in Keys \cup {None}, Read(key), EditsTyped',
           UNCHANGED <<store, factVars, excuses>>
    PROVE  IInv'
<1> USE DEF IInv, factVars
<1>1. /\ reads' \in Seq(ReadShape)
      /\ Len(reads') = Len(reads) + 1
      /\ reads'[Len(reads) + 1].stage = "sent"
      /\ \A j \in 1..Len(reads) : reads'[j] = reads[j]
    BY ReadSent
<1>2. Len(reads) \in Nat
    BY DEF Typed
<1>3. \A j \in 1..Len(reads') : Out(j)' => j \in 1..Len(reads) /\ Out(j) /\ reads'[j] = reads[j]
    BY <1>1, <1>2 DEF Out
<1>4. Typed'
    BY <1>1 DEF Typed, EditsTyped
<1>5. Numbered'
    BY <1>3 DEF Numbered
<1>6. Due'
    BY <1>1, <1>2 DEF Due
<1>7. LastRead'
  <2>1. ASSUME NEW j \in 1..Len(reads), Out(j), reads[j].at = served
        PROVE  j \in 1..Len(reads') /\ Out(j)' /\ reads'[j].at = served'
      BY <1>1, <1>2, <2>1 DEF Out
  <2>2. QED
      BY <1>6, <2>1 DEF LastRead, Level
<1>8. OnlyCorrected'
    BY <1>3 DEF OnlyCorrected, Settled, NoneUnsettled
<1>9. NewIsLearned'
    BY DEF NewIsLearned
<1>10. QED
    BY <1>4, <1>5, <1>7, <1>8, <1>9

\* What the extractor learns excuses the page.
LEMMA ExtractKeeps == IInv /\ Extract => IInv'
<1> SUFFICES ASSUME IInv, Extract PROVE IInv'
    OBVIOUS
<1> USE DEF IInv
<1>1. UNCHANGED <<reads, edits, memory, baseline, newKeys, served, newest, unsettled, overtaken>>
    BY DEF Extract, pageVars
<1>2. CASE UNCHANGED <<store, learned, excuses>>
  <2>1. UNCHANGED <<store, reads, factVars>> /\ UNCHANGED excuses /\ EditsTyped' /\ (Due => Due')
      BY <1>1, <1>2 DEF factVars, EditsTyped, Typed, Due
  <2>2. QED
      BY <2>1, EditsOnly
<1>3. CASE /\ \E k \in Keys, v \in Fact : /\ store' = [store EXCEPT ![k] = v]
                                          /\ learned' = learned \cup {k}
           /\ excuses' = excuses \cup {"learned"}
  <2>1. PICK k \in Keys, v \in Fact : store' = [store EXCEPT ![k] = v] /\ learned' = learned \cup {k}
      BY <1>3
  <2>2. store' \in Facts /\ \A j \in Keys \ {k} : store'[j] = store[j]
      BY <2>1 DEF Typed, Facts
  <2>3. Typed'
      BY <1>1, <2>2 DEF Typed
  <2>4. Numbered'
      BY <1>1 DEF Numbered, Out
  <2>5. LastRead'
      BY <1>3 DEF LastRead
  <2>6. OnlyCorrected'
      BY <1>1, <2>1, <2>2 DEF OnlyCorrected, Out, Settled, NoneUnsettled
  <2>7. NewIsLearned'
      BY <1>1, <2>1 DEF NewIsLearned
  <2>8. QED
      BY <2>3, <2>4, <2>5, <2>6, <2>7
<1>4. QED
    BY <1>2, <1>3 DEF Extract

\* A read that is served is the last one, and has what the store has.
LEMMA ServeReadKeeps ==
    ASSUME IInv, NEW i \in 1..Len(reads), ServeRead(i)
    PROVE  IInv'
<1> USE DEF IInv
<1> DEFINE r == [reads[i] EXCEPT !.stage = "served", !.facts = store, !.at = served + 1]
<1>1. UNCHANGED <<store, edits, memory, baseline, newKeys, newest, learned, unsettled, overtaken>>
    BY DEF ServeRead, serverVars, pageVars
<1>2. served' = served + 1 /\ excuses' = {} /\ reads[i].stage = "sent"
    BY DEF ServeRead
<1>3. r \in ReadShape /\ r.stage = "served" /\ r.facts = store /\ r.at = served + 1
  <2>1. reads[i] \in ReadShape /\ store \in Facts /\ served \in Nat
      BY DEF Typed
  <2>2. served + 1 \in Nat
      BY <2>1
  <2>3. QED
      BY ONLY <2>1, <2>2 DEF ReadShape
<1>4. reads' = [reads EXCEPT ![i] = r]
    BY DEF ServeRead
<1> HIDE DEF r
<1>5. /\ reads' \in Seq(ReadShape)
      /\ Len(reads') = Len(reads)
      /\ reads'[i] = r
      /\ \A j \in 1..Len(reads) : j # i => reads'[j] = reads[j]
  <2>1. reads \in Seq(ReadShape)
      BY DEF Typed
  <2>2. QED
      BY ONLY <2>1, <1>3, <1>4, i \in 1..Len(reads)
<1>6. Typed'
    BY <1>1, <1>2, <1>5 DEF Typed
<1>7. \A j \in 1..Len(reads) : Out(j)' => \/ j = i
                                          \/ j # i /\ Out(j) /\ reads'[j] = reads[j]
    BY <1>5 DEF Out
<1>8. Numbered'
  <2>1. newest \in Nat /\ served \in Nat /\ newest <= served
      BY DEF Typed, Numbered
  <2>2. \A j \in 1..Len(reads) : Out(j) => reads[j].at \in 1..served
      BY DEF Numbered
  <2>3. ASSUME NEW j \in 1..Len(reads), Out(j)'
        PROVE  reads'[j].at \in 1..served' /\ reads'[j].at # newest' /\ reads'[j].facts \in Facts
    <3>1. CASE j = i
        BY <1>1, <1>2, <1>3, <1>5, <2>1, <3>1 DEF Typed
    <3>2. CASE j # i
        BY <1>1, <1>2, <1>7, <2>1, <2>3, <3>2 DEF Numbered
    <3>3. QED
        BY <3>1, <3>2
  <2>4. ASSUME NEW j \in 1..Len(reads), NEW l \in 1..Len(reads), Out(j)', Out(l)',
               reads'[j].at = reads'[l].at
        PROVE  j = l
    <3>1. reads'[i].at = served + 1
        BY <1>3, <1>5
    <3>2. \A m \in 1..Len(reads) : Out(m)' /\ m # i => Out(m) /\ reads'[m] = reads[m] /\ reads'[m].at # served + 1
        BY <1>7, <2>1, <2>2
    <3>3. QED
        BY <2>4, <3>1, <3>2 DEF Numbered
  <2>5. newest' <= served' /\ (newest' = 0 => memory' = None /\ baseline' = None /\ newKeys' = {})
      BY <1>1, <1>2, <2>1 DEF Numbered
  <2>6. QED
      BY <1>5, <2>3, <2>4, <2>5 DEF Numbered
<1>9. LastRead'
  <2>1. newest' # served'
      BY <1>1, <1>2 DEF Typed, Numbered
  <2>2. Out(i)' /\ reads'[i].at = served' /\ reads'[i].facts = store'
      BY <1>1, <1>2, <1>3, <1>5 DEF Out
  <2>3. QED
      BY <1>5, <2>1, <2>2 DEF LastRead, Level
<1>10. OnlyCorrected'
    BY <1>1, <1>3, <1>5, <1>7 DEF OnlyCorrected, Settled, NoneUnsettled
<1>11. NewIsLearned'
    BY <1>1 DEF NewIsLearned
<1>12. QED
    BY <1>6, <1>8, <1>9, <1>10, <1>11

\* A read that is lost excuses the page.
LEMMA LoseReadKeeps ==
    ASSUME IInv, NEW i \in 1..Len(reads), LoseRead(i)
    PROVE  IInv'
<1> USE DEF IInv
<1>1. UNCHANGED <<store, edits, memory, baseline, newKeys, served, newest, learned, unsettled, overtaken>>
    BY DEF LoseRead, serverVars, pageVars
<1>2. /\ reads' \in Seq(ReadShape)
      /\ Len(reads') = Len(reads)
      /\ reads'[i].stage = "done"
      /\ \A j \in 1..Len(reads) : j # i => reads'[j] = reads[j]
    BY ReadDone DEF LoseRead
<1>3. \A j \in 1..Len(reads) : Out(j)' => Out(j) /\ reads'[j] = reads[j]
    BY <1>2 DEF Out
<1>4. Typed'
    BY <1>1, <1>2 DEF Typed
<1>5. Numbered'
    BY <1>1, <1>2, <1>3 DEF Numbered
<1>6. LastRead'
    BY DEF LoseRead, LastRead
<1>7. OnlyCorrected'
    BY <1>1, <1>2, <1>3 DEF OnlyCorrected, Settled, NoneUnsettled
<1>8. NewIsLearned'
    BY <1>1 DEF NewIsLearned
<1>9. QED
    BY <1>4, <1>5, <1>6, <1>7, <1>8

(***************************************************************************)
(* An answer to a read                                                     *)
(***************************************************************************)

\* What an answer leaves of the reads, the corrections and the page.
LEMMA AnswerEffect ==
    ASSUME Typed, Numbered, NEW i \in 1..Len(reads), ReadAnswered(i)
    PROVE  /\ UNCHANGED <<store, served, learned>>
           /\ Out(i)
           /\ reads[i].at \in 1..served
           /\ reads[i].facts \in Facts
           /\ reads[i].key \in Keys \cup {None}
           /\ reads' \in Seq(ReadShape)
           /\ Len(reads') = Len(reads)
           /\ reads'[i].stage = "done"
           /\ \A j \in 1..Len(reads) : j # i => reads'[j] = reads[j]
           /\ EditsTyped'
           /\ Due => Due'
<1>1. UNCHANGED <<store, served, learned>> /\ Out(i)
    BY DEF ReadAnswered, serverVars, Out
<1>2. reads[i].at \in 1..served /\ reads[i].facts \in Facts
    BY <1>1 DEF Numbered
<1>3. reads[i].key \in Keys \cup {None}
  <2>1. reads[i] \in ReadShape
      BY DEF Typed
  <2>2. QED
      BY <2>1 DEF ReadShape
<1>4. /\ reads' \in Seq(ReadShape)
      /\ Len(reads') = Len(reads)
      /\ reads'[i].stage = "done"
      /\ \A j \in 1..Len(reads) : j # i => reads'[j] = reads[j]
    BY ReadDone DEF ReadAnswered
<1> DEFINE kept == [j \in 1..Len(edits) |-> edits[j].row /\ reads[i].facts[edits[j].key] # None]
<1>5. kept \in [1..Len(edits) -> BOOLEAN]
  <2>1. \A j \in 1..Len(edits) : edits[j].row \in BOOLEAN
    <3>1. \A j \in 1..Len(edits) : edits[j] \in EditShape
        BY DEF Typed
    <3>2. QED
        BY <3>1 DEF EditShape
  <2>2. QED
      BY <2>1
<1>6. edits' = [j \in DOMAIN edits |-> [edits[j] EXCEPT !.row = kept[j]]]
  <2>1. DOMAIN edits = 1..Len(edits)
      BY DEF Typed
  <2>2. edits' = [j \in DOMAIN edits |->
                    [edits[j] EXCEPT !.row = edits[j].row /\ reads[i].facts[edits[j].key] # None]]
      BY DEF ReadAnswered
  <2>3. QED
      BY <2>1, <2>2
<1> HIDE DEF kept
<1>7. /\ edits' \in Seq(EditShape)
      /\ Len(edits') = Len(edits)
      /\ \A j \in 1..Len(edits) : edits'[j].id = j /\ edits'[j].stage = edits[j].stage
    BY <1>5, <1>6, RowsGone
<1>8. EditsTyped'
    BY <1>7 DEF EditsTyped
<1>9. Due => Due'
    BY <1>1, <1>4, <1>7 DEF Due, Out
<1>10. QED
    BY <1>1, <1>2, <1>3, <1>4, <1>8, <1>9

LEMMA ReadAnsweredKeeps ==
    ASSUME IInv, NEW i \in 1..Len(reads), ReadAnswered(i)
    PROVE  IInv'
<1> USE DEF IInv
<1> DEFINE r == reads[i]
           known == IF baseline = None THEN r.facts ELSE baseline
<1>1. /\ UNCHANGED <<store, served, learned>>
      /\ Out(i)
      /\ r.at \in 1..served
      /\ r.facts \in Facts
      /\ r.key \in Keys \cup {None}
      /\ reads' \in Seq(ReadShape)
      /\ Len(reads') = Len(reads)
      /\ reads'[i].stage = "done"
      /\ \A j \in 1..Len(reads) : j # i => reads'[j] = reads[j]
      /\ EditsTyped'
      /\ Due => Due'
    BY AnswerEffect
<1>2. /\ memory' = r.facts
      /\ newest' = IF r.at > newest THEN r.at ELSE newest
      /\ unsettled' = {u \in unsettled : ~(u[1] = r.key /\ u[2] < r.at)}
      /\ overtaken' = (overtaken \/ r.at < newest)
      /\ excuses' = IF r.at > newest THEN excuses ELSE excuses \cup {"overtaken"}
      /\ newKeys' = {k \in Keys : r.facts[k] # None /\ baseline'[k] # r.facts[k]}
      /\ baseline' = [k \in Keys |-> IF k = r.key THEN r.facts[k] ELSE known[k]]
    BY DEF ReadAnswered, NewBaseline
<1>3. newest \in Nat /\ served \in Nat /\ newest <= served /\ r.at # newest
    BY <1>1 DEF Typed, Numbered
<1>4. newest' \in Nat /\ newest' <= served /\ newest <= newest' /\ r.at <= newest' /\ newest' > 0
    BY <1>1, <1>2, <1>3
<1>5. baseline' \in Facts
  <2>1. known \in Facts
      BY <1>1 DEF Typed
  <2>2. QED
      BY <1>1, <1>2, <2>1 DEF Facts
<1>6. Typed'
    BY <1>1, <1>2, <1>4, <1>5 DEF Typed, EditsTyped
<1>7. \A j \in 1..Len(reads) : Out(j)' => j # i /\ Out(j) /\ reads'[j] = reads[j]
    BY <1>1 DEF Out
<1>8. Numbered'
  <2>1. ASSUME NEW j \in 1..Len(reads), Out(j)' PROVE reads'[j].at # newest'
      BY <1>1, <1>2, <1>7, <2>1 DEF Numbered
  <2>2. QED
      BY <1>1, <1>4, <1>7, <2>1 DEF Numbered
<1>9. LastRead'
  <2>1. SUFFICES ASSUME r.at > newest, excuses = {} PROVE LastRead'
      BY <1>2 DEF LastRead
  <2>2. newest # served /\ newest' = r.at /\ served > 0
      BY <1>1, <1>2, <1>3, <2>1
  <2>3. PICK j \in 1..Len(reads) : Out(j) /\ reads[j].at = served /\ Level(reads[j].facts)
      BY <2>1, <2>2 DEF LastRead
  <2>4. CASE j = i
      BY <1>1, <1>2, <2>2, <2>3, <2>4 DEF LastRead, Level
  <2>5. CASE j # i
    <3>1. r.at # served
        BY <1>1, <2>3, <2>5 DEF Numbered
    <3>2. Out(j)' /\ reads'[j].at = served' /\ Level(reads[j].facts)'
        BY <1>1, <2>3, <2>5 DEF Out, Level
    <3>3. QED
        BY <1>1, <2>2, <2>5, <3>1, <3>2 DEF LastRead, Level
  <2>6. QED
      BY <2>4, <2>5
<1>10. ASSUME ~overtaken', NEW k \in Keys \ learned, NoneUnsettled(k)'
       PROVE  r.facts[k] = store[k] /\ baseline'[k] = store[k]
  <2>1. ~overtaken /\ r.at > newest
    <3>1. ~overtaken /\ ~(r.at < newest)
        BY <1>2, <1>10
    <3>2. r.at \in Nat
        BY <1>1, <1>3
    <3>3. QED
        BY <1>3, <3>1, <3>2
  <2>2. \A u \in unsettled : u[1] = k => u[1] = r.key /\ u[2] < r.at
      BY <1>2, <1>10 DEF NoneUnsettled
  <2>3. r.facts[k] = store[k]
      BY <1>1, <2>1, <2>2 DEF OnlyCorrected, Settled
  <2>4. CASE k = r.key
      BY <1>2, <2>3, <2>4
  <2>5. CASE k # r.key
    <3>1. NoneUnsettled(k)
        BY <2>2, <2>5 DEF NoneUnsettled
    <3>2. baseline # None => newest > 0
        BY <1>3 DEF Numbered
    <3>3. known[k] = store[k]
        BY <2>1, <2>3, <3>1, <3>2 DEF OnlyCorrected
    <3>4. QED
        BY <1>2, <2>3, <2>5, <3>3
  <2>6. QED
      BY <2>3, <2>4, <2>5
<1>11. OnlyCorrected'
  <2>1. SUFFICES ASSUME ~overtaken', NEW k \in Keys \ learned,
                        NEW j \in 1..Len(reads), Out(j)', reads'[j].at > newest',
                        \A u \in unsettled' : u[1] = k => u[2] < reads'[j].at
                 PROVE  reads'[j].facts[k] = store[k]
      BY <1>1, <1>10 DEF OnlyCorrected, Settled
  <2>2. Out(j) /\ reads'[j] = reads[j] /\ reads[j].at \in Nat /\ reads[j].at > newest /\ r.at < reads[j].at
      BY <1>1, <1>3, <1>4, <1>7, <2>1 DEF Numbered
  <2>3. Settled(k, reads[j].at)
    <3>1. SUFFICES ASSUME NEW u \in unsettled, u[1] = k, ~(u[2] < reads[j].at) PROVE FALSE
        BY DEF Settled
    <3>2. u \in unsettled'
      <4>1. u[2] \in Nat /\ ~(u[2] < r.at)
          BY <1>1, <2>2, <3>1 DEF Typed
      <4>2. QED
          BY <1>2, <4>1
    <3>3. QED
        BY <2>1, <2>2, <3>1, <3>2
  <2>4. QED
      BY <1>2, <2>1, <2>2, <2>3 DEF OnlyCorrected
<1>12. NewIsLearned'
  <2>1. SUFFICES ASSUME NEW k \in newKeys', k \notin learned, NoneUnsettled(k)', ~overtaken'
                 PROVE  FALSE
      BY <1>1 DEF NewIsLearned, NoneUnsettled
  <2>2. k \in Keys /\ baseline'[k] # r.facts[k]
      BY <1>2, <2>1
  <2>3. QED
      BY <1>10, <2>1, <2>2
<1>13. QED
    BY <1>6, <1>8, <1>9, <1>11, <1>12

(***************************************************************************)
(* Corrections                                                             *)
(***************************************************************************)

\* A correction takes effect: its answer will have the page read again.
LEMMA AcceptedKeeps ==
    ASSUME IInv, NEW k \in Keys, NEW v \in Fact, store' = [store EXCEPT ![k] = v],
           unsettled' = unsettled \cup {<<k, served>>}, EditsTyped', Due',
           UNCHANGED <<reads, memory, baseline, newKeys, served, newest, learned, overtaken, excuses>>
    PROVE  IInv'
<1> USE DEF IInv
<1>1. store' \in Facts /\ \A j \in Keys \ {k} : store'[j] = store[j]
    BY DEF Typed, Facts
<1>2. Typed'
    BY <1>1 DEF Typed, EditsTyped
<1>3. Numbered'
    BY DEF Numbered, Out
<1>4. LastRead'
    BY DEF LastRead, Level, Out
<1>5. OnlyCorrected'
  <2>1. ASSUME NEW j \in 1..Len(reads), Out(j) PROVE ~Settled(k, reads[j].at)'
    <3>1. reads[j].at \in 1..served /\ served \in Nat
        BY <2>1 DEF Numbered, Typed
    <3>2. <<k, served>> \in unsettled' /\ ~(served < reads[j].at)
        BY <3>1
    <3>3. QED
        BY <3>2 DEF Settled
  <2>2. ~NoneUnsettled(k)'
    <3>1. <<k, served>> \in unsettled' /\ <<k, served>>[1] = k
        OBVIOUS
    <3>2. QED
        BY <3>1 DEF NoneUnsettled
  <2>3. \A j \in Keys, n \in Nat : (NoneUnsettled(j)' => NoneUnsettled(j)) /\ (Settled(j, n)' => Settled(j, n))
      BY DEF NoneUnsettled, Settled
  <2>4. \A j \in 1..Len(reads) : Out(j) => reads[j].at \in Nat
      BY DEF Numbered
  <2>5. SUFFICES ASSUME ~overtaken, NEW j \in Keys \ learned
                 PROVE  /\ newest > 0 /\ NoneUnsettled(j)' => baseline[j] = store'[j]
                        /\ \A m \in 1..Len(reads) :
                             Out(m) /\ reads[m].at > newest /\ Settled(j, reads[m].at)'
                               => reads[m].facts[j] = store'[j]
      BY DEF OnlyCorrected, Out, Settled
  <2>6. CASE j = k
      BY <2>1, <2>2, <2>6
  <2>7. CASE j # k
      BY <1>1, <2>3, <2>4, <2>5, <2>7 DEF OnlyCorrected
  <2>8. QED
      BY <2>6, <2>7
<1>6. NewIsLearned'
    BY DEF NewIsLearned
<1>7. QED
    BY <1>2, <1>3, <1>4, <1>5, <1>6

LEMMA ServeEditKeeps ==
    ASSUME IInv, NEW i \in 1..Len(edits), ServeEdit(i)
    PROVE  IInv'
<1> DEFINE e == edits[i]
<1>1. UNCHANGED <<reads, memory, baseline, newKeys, served, newest, learned, overtaken, excuses>>
    BY DEF ServeEdit, pageVars
<1>2. Typed /\ e \in EditShape /\ e.id = i /\ e.stage = "sent"
    BY DEF ServeEdit, IInv, Typed
<1>3. e.key \in Keys /\ e.value \in Fact
    BY <1>2 DEF EditShape
<1>4. \/ /\ store' = [store EXCEPT ![e.key] = e.value]
         /\ edits' = [edits EXCEPT ![i].stage = "accepted"]
         /\ unsettled' = unsettled \cup {<<e.key, served>>}
      \/ /\ \E stage \in {"checked", "refused"} : edits' = [edits EXCEPT ![i].stage = stage]
         /\ UNCHANGED <<store, unsettled>>
  <2>1. CASE e.value = None
      BY <1>2, <2>1 DEF ServeEdit, Delete
  <2>2. CASE e.value # None
      BY <1>2, <2>2 DEF ServeEdit, Patch
  <2>3. QED
      BY <2>1, <2>2
<1>5. ASSUME NEW stage \in {"checked", "accepted", "refused"}, edits' = [edits EXCEPT ![i].stage = stage]
      PROVE  EditsTyped' /\ (Due => Due') /\ (stage = "accepted" => Due')
  <2>1. /\ edits' \in Seq(EditShape)
        /\ Len(edits') = Len(edits)
        /\ edits'[i] = [edits[i] EXCEPT !.stage = stage]
        /\ \A j \in 1..Len(edits) : edits'[j].id = j
        /\ \A j \in 1..Len(edits) : j # i => edits'[j] = edits[j]
      BY <1>2, <1>5, EditMoved
  <2>2. edits'[i].stage = stage
      BY <1>2, <2>1 DEF EditShape
  <2>3. QED
      BY <1>1, <1>2, <2>1, <2>2 DEF Due, EditsTyped
<1>6. CASE /\ store' = [store EXCEPT ![e.key] = e.value]
           /\ edits' = [edits EXCEPT ![i].stage = "accepted"]
           /\ unsettled' = unsettled \cup {<<e.key, served>>}
    BY <1>1, <1>3, <1>5, <1>6, AcceptedKeeps
<1>7. CASE /\ \E stage \in {"checked", "refused"} : edits' = [edits EXCEPT ![i].stage = stage]
           /\ UNCHANGED <<store, unsettled>>
    BY <1>1, <1>5, <1>7, EditsOnly DEF factVars
<1>8. QED
    BY <1>4, <1>6, <1>7

LEMMA UpsertKeeps ==
    ASSUME IInv, NEW i \in 1..Len(edits), Upsert(i)
    PROVE  IInv'
<1>1. UNCHANGED <<reads, memory, baseline, newKeys, served, newest, learned, overtaken, excuses>>
    BY DEF Upsert, pageVars
<1>2. Typed /\ edits[i] \in EditShape
    BY DEF IInv, Typed
<1>3. edits[i].key \in Keys /\ edits[i].value \in Fact
    BY <1>2 DEF EditShape
<1>4. /\ edits' \in Seq(EditShape)
      /\ Len(edits') = Len(edits)
      /\ edits'[i] = [edits[i] EXCEPT !.stage = "accepted"]
      /\ \A j \in 1..Len(edits) : edits'[j].id = j
    BY <1>2, EditMoved DEF Upsert
<1>5. edits'[i].stage = "accepted"
    BY <1>2, <1>4 DEF EditShape
<1>6. EditsTyped' /\ Due'
    BY <1>4, <1>5 DEF EditsTyped, Due
<1>7. QED
    BY <1>1, <1>3, <1>6, AcceptedKeeps DEF Upsert

LEMMA LoseEditKeeps ==
    ASSUME IInv, NEW i \in 1..Len(edits), LoseEdit(i)
    PROVE  IInv'
<1>1. Typed /\ UNCHANGED <<store, reads, factVars>>
    BY DEF LoseEdit, serverVars, pageVars, factVars, IInv
<1>2. /\ edits' \in Seq(EditShape)
      /\ Len(edits') = Len(edits)
      /\ \A j \in 1..Len(edits) : edits'[j].id = j
      /\ \A j \in 1..Len(edits) : j # i => edits'[j] = edits[j]
  <2>1. edits' = [edits EXCEPT ![i].stage = "refused"]
      BY DEF LoseEdit
  <2>2. QED
      BY <1>1, <2>1, EditMoved
<1>3. EditsTyped'
    BY <1>2 DEF EditsTyped
<1>4. CASE edits[i].stage = "accepted"
  <2>1. excuses' # {}
      BY <1>4 DEF LoseEdit
  <2>2. Typed' /\ Numbered' /\ OnlyCorrected' /\ NewIsLearned' /\ LastRead'
      BY <1>1, <1>3, <2>1 DEF IInv, Typed, EditsTyped, Numbered, OnlyCorrected, NewIsLearned, LastRead,
                              Out, Settled, NoneUnsettled, factVars
  <2>3. QED
      BY <2>2 DEF IInv
<1>5. CASE edits[i].stage # "accepted"
  <2>1. Due => Due'
      BY <1>1, <1>2, <1>5 DEF Due
  <2>2. excuses' = excuses
      BY <1>5 DEF LoseEdit
  <2>3. QED
      BY <1>1, <1>3, <2>1, <2>2, EditsOnly
<1>6. QED
    BY <1>4, <1>5

LEMMA EditAnsweredKeeps ==
    ASSUME IInv, NEW i \in 1..Len(edits), EditAnswered(i)
    PROVE  IInv'
<1>1. Typed /\ UNCHANGED <<store, factVars, excuses>>
    BY DEF EditAnswered, serverVars, historyVars, factVars, IInv
<1>2. /\ edits' \in Seq(EditShape)
      /\ Len(edits') = Len(edits)
      /\ \A j \in 1..Len(edits) : edits'[j].id = j
      /\ \A j \in 1..Len(edits) : j # i => edits'[j] = edits[j]
  <2>1. edits' = [edits EXCEPT ![i].stage = "done"]
      BY DEF EditAnswered
  <2>2. QED
      BY <1>1, <2>1, EditMoved
<1>3. EditsTyped'
    BY <1>2 DEF EditsTyped
<1>4. edits[i].key \in Keys
  <2>1. edits[i] \in EditShape
      BY <1>1 DEF Typed
  <2>2. QED
      BY <2>1 DEF EditShape
<1>5. CASE edits[i].stage = "accepted"
  <2>1. Read(edits[i].key)
      BY <1>5 DEF EditAnswered
  <2>2. QED
      BY <1>1, <1>3, <1>4, <2>1, SendKeeps
<1>6. CASE edits[i].stage # "accepted"
  <2>1. UNCHANGED reads
      BY <1>6 DEF EditAnswered
  <2>2. Due => Due'
      BY <1>2, <1>6, <2>1 DEF Due
  <2>3. QED
      BY <1>1, <1>3, <2>1, <2>2, EditsOnly
<1>7. QED
    BY <1>5, <1>6

\* A correction is sent from its row.
LEMMA CorrectKeeps ==
    ASSUME IInv, NEW k \in Keys, NEW v \in Fact, Correct(k, v)
    PROVE  IInv'
<1>1. Typed /\ UNCHANGED <<store, reads, factVars, excuses>>
    BY DEF Correct, SetRow, serverVars, historyVars, factVars, IInv
<1> DEFINE e == [id |-> Len(edits) + 1, key |-> k, value |-> v, stage |-> "sent", row |-> TRUE]
<1>2. edits \in Seq(EditShape) /\ Len(edits) \in Nat
    BY <1>1 DEF Typed
<1>3. e \in EditShape /\ e.id = Len(edits) + 1
    BY <1>2 DEF EditShape
<1>4. edits' = Append(edits, e)
    BY DEF Correct
<1> HIDE DEF e
<1>5. /\ edits' \in Seq(EditShape)
      /\ Len(edits') = Len(edits) + 1
      /\ edits'[Len(edits) + 1] = e
      /\ \A j \in 1..Len(edits) : edits'[j] = edits[j]
    BY <1>2, <1>3, <1>4, Added
<1>6. EditsTyped'
    BY <1>1, <1>2, <1>3, <1>5 DEF EditsTyped, Typed
<1>7. Due => Due'
    BY <1>1, <1>2, <1>5 DEF Due
<1>8. QED
    BY <1>1, <1>6, <1>7, EditsOnly

LEMMA CloseSheetKeeps == IInv /\ CloseSheet => IInv'
<1> SUFFICES ASSUME IInv, CloseSheet PROVE IInv'
    OBVIOUS
<1>1. Typed /\ UNCHANGED <<store, reads, factVars, excuses>>
    BY DEF CloseSheet, serverVars, historyVars, factVars, IInv
<1> DEFINE kept == [j \in 1..Len(edits) |-> FALSE]
<1>2. kept \in [1..Len(edits) -> BOOLEAN]
    OBVIOUS
<1>3. edits' = [j \in DOMAIN edits |-> [edits[j] EXCEPT !.row = kept[j]]]
  <2>1. DOMAIN edits = 1..Len(edits)
      BY <1>1 DEF Typed
  <2>2. QED
      BY <2>1 DEF CloseSheet
<1> HIDE DEF kept
<1>4. /\ edits' \in Seq(EditShape)
      /\ Len(edits') = Len(edits)
      /\ \A j \in 1..Len(edits) : edits'[j].id = j /\ edits'[j].stage = edits[j].stage
    BY <1>1, <1>2, <1>3, RowsGone
<1>5. EditsTyped' /\ (Due => Due')
    BY <1>1, <1>4 DEF EditsTyped, Due
<1>6. QED
    BY <1>1, <1>5, EditsOnly

(***************************************************************************)
(* The theorems                                                            *)
(***************************************************************************)

LEMMA Initially == Init => IInv
<1> SUFFICES ASSUME Init PROVE IInv
    OBVIOUS
<1>1. reads = << >> /\ edits = << >> /\ Len(reads) = 0 /\ Len(edits) = 0
    BY DEF Init
<1>2. Typed
    BY <1>1 DEF Init, Typed
<1>3. Numbered /\ LastRead /\ OnlyCorrected /\ NewIsLearned
    BY <1>1 DEF Init, Numbered, LastRead, OnlyCorrected, NewIsLearned
<1>4. QED
    BY <1>2, <1>3 DEF IInv

LEMMA StepKeeps == IInv /\ [Next]_vars => IInv'
<1> SUFFICES ASSUME IInv, [Next]_vars PROVE IInv'
    OBVIOUS
<1>0. Typed /\ DOMAIN reads = 1..Len(reads) /\ DOMAIN edits = 1..Len(edits)
    BY DEF IInv, Typed
<1> DEFINE Quietly == UNCHANGED <<store, reads, edits, factVars, excuses>>
<1>1. ASSUME Quietly PROVE IInv'
  <2>1. EditsTyped' /\ (Due => Due')
      BY <1>0, <1>1 DEF EditsTyped, Typed, Due, factVars
  <2>2. QED
      BY <1>1, <2>1, EditsOnly DEF factVars
<1>2. CASE TurnEnds
    BY <1>1, <1>2 DEF TurnEnds, pageVars, historyVars, factVars
<1>3. CASE Extract
    BY <1>3, ExtractKeeps
<1>4. ASSUME FirstRead \/ Reread PROVE IInv'
  <2>1. Read(None) /\ UNCHANGED <<store, edits, factVars, excuses>>
      BY <1>4 DEF FirstRead, Reread, serverVars, pageVars, historyVars, factVars
  <2>2. EditsTyped'
      BY <1>0, <2>1 DEF EditsTyped, Typed
  <2>3. QED
      BY <2>1, <2>2, SendKeeps
<1>5. ASSUME NEW i \in 1..Len(reads), ServeRead(i) \/ LoseRead(i) \/ ReadAnswered(i) PROVE IInv'
    BY <1>5, ServeReadKeeps, LoseReadKeeps, ReadAnsweredKeeps
<1>6. ASSUME NEW i \in 1..Len(edits), \/ ServeEdit(i) \/ Upsert(i)
                                           \/ LoseEdit(i) \/ EditAnswered(i)
      PROVE  IInv'
    BY <1>6, ServeEditKeeps, UpsertKeeps, LoseEditKeeps, EditAnsweredKeeps
<1>7. ASSUME NEW k \in Keys, Toggle(k) PROVE IInv'
    BY <1>1, <1>7 DEF Toggle, SetRow, serverVars, historyVars, factVars
<1>8. ASSUME NEW k \in Keys, NEW v \in Fact, Correct(k, v) PROVE IInv'
    BY <1>8, CorrectKeeps
<1>9. CASE CloseSheet
    BY <1>9, CloseSheetKeeps
<1>10. CASE UNCHANGED vars
    BY <1>1, <1>10 DEF vars, serverVars, pageVars, historyVars, factVars
<1>11. QED
  <2>1. \A k \in Keys : Forget(k) => Correct(k, None)
      BY DEF Forget
  <2>2. \A k \in Keys, v \in Values : Save(k, v) => Correct(k, v)
      BY DEF Save
  <2>3. None \in Fact /\ Values \subseteq Fact
      BY DEF Fact
  <2>4. Next \/ UNCHANGED vars
      OBVIOUS
  <2>5. QED
      BY <1>0, <1>2, <1>3, <1>4, <1>5, <1>6, <1>7, <1>8, <1>9, <1>10, <2>1, <2>2, <2>3, <2>4 DEF Next

LEMMA AlwaysGood == Spec => []IInv
    BY Initially, StepKeeps, PTL DEF Spec

\* The requests and the facts keep their shapes, and answers their numbers.
THEOREM FactsTyped == Spec => []Typed
<1>1. IInv => Typed
    BY DEF IInv
<1>2. QED
    BY <1>1, AlwaysGood, PTL

\* Whatever crosses, a page that is quiet shows the store, but for the named excuses
\* (readMemory, onEdit, onForget).
THEOREM ShownHolds == Spec => []ShownIsStored
<1>1. IInv => ShownIsStored
  <2>1. SUFFICES ASSUME IInv, Quiet, memory # None, excuses = {} PROVE memory = store
      BY DEF ShownIsStored
  <2>2. ~Due /\ \A i \in 1..Len(reads) : ~Out(i)
      BY <2>1 DEF Quiet, Due, Out, IInv, Typed
  <2>3. newest > 0 /\ served > 0
      BY <2>1 DEF IInv, Numbered, Typed
  <2>4. QED
      BY <2>1, <2>2, <2>3 DEF IInv, LastRead, Level
<1>2. QED
    BY <1>1, AlwaysGood, PTL

\* The mark of the new is the extractor's work (readMemory's baseline).
THEOREM NewHolds == Spec => []NewIsLearned
<1>1. IInv => NewIsLearned
    BY DEF IInv
<1>2. QED
    BY <1>1, AlwaysGood, PTL

=============================================================================
