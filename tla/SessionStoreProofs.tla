------------------------- MODULE SessionStoreProofs -------------------------
(***************************************************************************)
(* Proofs about SessionStore, for any number of turns and routes, any      *)
(* backing and any client: type correctness, the compare-and-set property  *)
(* of the Redis store, that a refused request leaves no trace, that an     *)
(* accepted event is accounted for, that none is told twice, and that a    *)
(* settled turn is stored as it spoke while no two turns overlap.          *)
(***************************************************************************)
EXTENDS SessionStore, SequenceTheorems, TLAPS

\* What write_messages builds, a kept prefix and a new suffix, holds only what the two
\* sequences it is built from hold.
LEMMA SpliceType ==
    ASSUME NEW S, NEW s \in Seq(S), NEW t \in Seq(S), NEW k \in Nat, k <= Len(s), NEW n \in Nat
    PROVE  SubSeq(s, 1, k) \o SubSeq(t, n + 1, Len(t)) \in Seq(S)
<1>1. Len(s) \in Nat /\ Len(t) \in Nat
  BY LenProperties
<1>2. SubSeq(s, 1, k) \in Seq(S)
  <2>1. \A i \in 1 .. k : s[i] \in S
    BY <1>1, ElementOfSeq
  <2>. QED
    BY <2>1, SubSeqProperties
<1>3. SubSeq(t, n + 1, Len(t)) \in Seq(S)
  <2>1. \A i \in n + 1 .. Len(t) : t[i] \in S
    BY <1>1, ElementOfSeq
  <2>2. n + 1 \in Int /\ Len(t) \in Int
    BY <1>1
  <2>. QED
    BY <2>1, <2>2, SubSeqProperties
<1>. QED
  BY <1>2, <1>3, ConcatProperties

LEMMA NewRecordType == NewRecord \in Record /\ NewDocument \in Document
  BY EmptySeq DEF NewRecord, NewDocument, Record, Document

LEMMA RevisedType ==
    ASSUME NEW q \in Record, NEW m \in Seq(Message), NEW d \in Document, NEW n \in Nat
    PROVE  Revised(q, m, d, n) \in Record
  BY DEF Revised, Record

-----------------------------------------------------------------------------
\* The document written by a request, its record and its program counter keep their types.
LEMMA StoreDocumentType ==
    ASSUME TypeOK, NEW r \in Requests, StoreDocument(r)
    PROVE  /\ states' \in [version : Nat, doc : Document]
           /\ rec' \in [Requests -> Record]
           /\ pc' \in [Requests -> {"idle"} \cup InFlight \cup Finished]
           /\ told' \in SUBSET Requests
           /\ dropped' \in SUBSET Requests
<1>1. rec[r] \in Record /\ rec[r].version + 1 \in Nat
  BY DEF TypeOK, Record
<1>2. rec' \in [Requests -> Record]
  BY <1>1 DEF TypeOK, Record, StoreDocument
<1>3. states' \in [version : Nat, doc : Document]
  BY <1>1 DEF StoreDocument, Record
<1>4. pc' \in [Requests -> {"idle"} \cup InFlight \cup Finished]
  BY DEF TypeOK, StoreDocument, AfterSave, InFlight, Finished
<1>5. told' \in SUBSET Requests /\ dropped' \in SUBSET Requests
  BY <1>1 DEF TypeOK, StoreDocument, Record, Document
<1>. QED
  BY <1>2, <1>3, <1>4, <1>5

LEMMA NotedByType ==
    ASSUME TypeOK, NEW r \in Requests
    PROVE  NotedBy(r) \in SUBSET Requests
<1>1. rec[r].messages \in Seq(Message) /\ rec[r].stored \in Nat
  BY DEF TypeOK, Record
<1>2. \A i \in rec[r].stored + 1 .. Len(rec[r].messages) : rec[r].messages[i] \in Message
  BY <1>1, LenProperties, ElementOfSeq
<1>. QED
  BY <1>2 DEF NotedBy, Message

\* One step of one request keeps every type.
LEMMA StepType ==
    ASSUME TypeOK, NEW r \in Requests, Step(r)
    PROVE  TypeOK'
<1>. USE DEF InFlight, Finished
<1>0. rec[r] \in Record /\ rec \in [Requests -> Record]
  BY DEF TypeOK
<1>1. CASE ReadState(r)
  <2>1. overlapped' \in BOOLEAN
    BY <1>1, Zenon DEF TypeOK, ReadState
  <2>2. rec' \in [Requests -> Record]
    <3>1. LoadedRecord \in Record
      BY EmptySeq DEF TypeOK, LoadedRecord, Record
    <3>. QED
      BY <1>0, <1>1, <3>1 DEF ReadState
  <2>3. pc' \in [Requests -> {"idle"} \cup InFlight \cup Finished]
    BY <1>1 DEF TypeOK, ReadState
  <2>. QED
    BY <1>1, <2>1, <2>2, <2>3 DEF TypeOK, ReadState
<1>2. CASE ReadMessages(r)
  <2>1. Len(transcript) \in Nat
    BY LenProperties DEF TypeOK
  <2>. QED
    BY <1>0, <1>2, <2>1 DEF TypeOK, ReadMessages, Record
<1>3. CASE AppendUserTurn(r)
  <2>1. UserMessage(r) \in Message
    BY <1>0 DEF UserMessage, Message, Record, Document, Roles
  <2>2. Append(rec[r].messages, UserMessage(r)) \in Seq(Message)
    BY <1>0, <2>1 DEF Record
  <2>3. rec' \in [Requests -> Record]
    BY <1>0, <1>3, <2>2 DEF AppendUserTurn, Record, Document
  <2>. QED
    BY <1>3, <2>3 DEF TypeOK, AppendUserTurn
<1>4. CASE HandleRoute(r)
  <2>1. rec' \in [Requests -> Record]
    <3>1. CASE rec' = [rec EXCEPT ![r].doc.events = @ \cup {r}]
      BY <1>0, <3>1 DEF Record, Document
    <3>2. CASE rec' = [rec EXCEPT ![r].doc.seen = @ \cup {r}]
      BY <1>0, <3>2 DEF Record, Document
    <3>3. CASE UNCHANGED rec
      BY <1>0, <3>3
    <3>. QED
      BY <1>4, <3>1, <3>2, <3>3 DEF HandleRoute
  <2>. QED
    BY <1>4, <2>1 DEF TypeOK, HandleRoute
<1>5. CASE Reset(r)
  BY <1>5, NewRecordType, EmptySeq DEF TypeOK, Reset
<1>6. CASE HandlerRaises(r)
  BY <1>6, NewRecordType DEF TypeOK, HandlerRaises, Forget
<1>7. CASE SaveNothing(r)
  BY <1>7 DEF TypeOK, SaveNothing, AfterSave
<1>8. CASE SaveConflicts(r)
  BY <1>8, NewRecordType DEF TypeOK, SaveConflicts, AfterConflict, Forget
<1>9. CASE SaveState(r)
  BY <1>9, StoreDocumentType DEF TypeOK, SaveState
<1>10. CASE CheckVersion(r)
  BY <1>10 DEF TypeOK, CheckVersion
<1>11. CASE AssignState(r)
  BY <1>11, StoreDocumentType DEF TypeOK, AssignState
<1>12. CASE WriteMessages(r)
  <2>1. Len(transcript) \in Nat /\ Len(rec[r].messages) \in Nat /\ rec[r].stored \in Nat
    BY <1>0, LenProperties DEF TypeOK, Record
  <2>2. transcript' \in Seq(Message)
    <3>. DEFINE keep == IF rec[r].stored < Len(transcript) THEN rec[r].stored ELSE Len(transcript)
    <3>1. keep \in Nat /\ keep <= Len(transcript)
      BY <2>1
    <3>2. transcript \in Seq(Message) /\ rec[r].messages \in Seq(Message)
      BY <1>0 DEF TypeOK, Record
    <3>3. SubSeq(transcript, 1, keep)
            \o SubSeq(rec[r].messages, rec[r].stored + 1, Len(rec[r].messages)) \in Seq(Message)
      BY <2>1, <3>1, <3>2, SpliceType
    <3>. QED
      BY <1>12, <3>3 DEF WriteMessages
  <2>3. rec' \in [Requests -> Record]
    BY <1>0, <1>12, <2>1 DEF WriteMessages, Record
  <2>4. told' \in SUBSET Requests
    BY <1>12, NotedByType DEF TypeOK, WriteMessages
  <2>. QED
    BY <1>12, <2>2, <2>3, <2>4 DEF TypeOK, WriteMessages, AfterSave
<1>13. CASE Stream(r)
  <2>1. Reply(r) \in Message
    BY DEF Reply, Message, Roles
  <2>2. Append(rec[r].messages, Reply(r)) \in Seq(Message)
    BY <1>0, <2>1 DEF Record
  <2>3. rec' \in [Requests -> Record]
    <3>1. ASSUME NEW replied \in BOOLEAN, NEW saw \in BOOLEAN, NEW cleared \in BOOLEAN
          PROVE  Streamed(r, replied, saw, cleared) \in Record
      <4>. DEFINE messages == IF replied THEN Append(rec[r].messages, Reply(r)) ELSE rec[r].messages
                  doc == IF saw THEN [rec[r].doc EXCEPT !.seen = @ \cup {r}] ELSE rec[r].doc
                  stored == IF cleared THEN 0 ELSE rec[r].stored
      <4>1. messages \in Seq(Message) /\ doc \in Document /\ stored \in Nat
        BY <1>0, <2>2 DEF Record, Document
      <4>2. Streamed(r, replied, saw, cleared) = Revised(rec[r], messages, doc, stored)
        BY DEF Streamed
      <4>. QED
        BY <1>0, <4>1, <4>2, RevisedType
    <3>. QED
      BY <1>0, <1>13, <3>1 DEF Stream
  <2>. QED
    BY <1>13, <2>3 DEF TypeOK, Stream
<1>14. CASE Adopt(r)
  BY <1>0, <1>14 DEF TypeOK, Adopt, Record
<1>15. CASE Crash(r)
  <2>1. dropped' \in SUBSET Requests
    BY <1>15, NotedByType DEF TypeOK, Crash
  <2>. QED
    BY <1>15, <2>1, NewRecordType DEF TypeOK, Crash, Forget
<1>. QED
  BY <1>1, <1>2, <1>3, <1>4, <1>5, <1>6, <1>7, <1>8, <1>9, <1>10, <1>11, <1>12, <1>13,
     <1>14, <1>15 DEF Step

\* Type correctness, for every set of requests.
THEOREM SessionTypes == Spec => []TypeOK
<1>1. Init => TypeOK
  <2>. SUFFICES ASSUME Init PROVE TypeOK
    OBVIOUS
  <2>1. <<>> \in Seq(Message) /\ 1 \in Nat /\ 0 \in Nat
    BY EmptySeq
  <2>2. pc \in [Requests -> {"idle"} \cup InFlight \cup Finished]
    BY DEF Init
  <2>3. rec \in [Requests -> Record]
    BY NewRecordType DEF Init
  <2>4. states \in [version : Nat, doc : Document]
    BY <2>1, NewRecordType DEF Init
  <2>5. stage \in [Requests -> {"request", "writeback", "forced"}]
    BY DEF Init
  <2>. QED
    BY <2>1, <2>2, <2>3, <2>4, <2>5 DEF Init, TypeOK
<1>2. TypeOK /\ [Next]_vars => TypeOK'
  <2>1. CASE UNCHANGED vars
    BY <2>1 DEF TypeOK, vars
  <2>. QED
    BY <2>1, StepType DEF Next
<1>. QED
  BY <1>1, <1>2, PTL DEF Spec

-----------------------------------------------------------------------------
(***************************************************************************)
(* The compare-and-set.  Over Redis, a request that has not forced its     *)
(* write and read in the current epoch is never ahead of the store, and    *)
(* when it is level with it, it holds the very document the store holds.   *)
(* Versions only grow within an epoch, which is why a version seen once    *)
(* stays bound to one document.                                            *)
(***************************************************************************)
Holding == {"loading", "handling", "saving", "appending", "streaming", "adopting"}

LevelWithStore(r) ==
    (stage[r] # "forced" /\ rec[r].epoch = epoch /\ pc[r] \in Holding) =>
        /\ rec[r].version <= states.version
        /\ rec[r].version = states.version => rec[r].base = states.doc

CasInv ==
    \A r \in Requests :
        /\ rec[r].epoch <= epoch
        /\ pc[r] = "streaming" => stage[r] = "request"
        /\ backing = "redis" => pc[r] # "storing" /\ LevelWithStore(r)

\* A step that leaves the stored document and the epoch alone, and the actor either idle
\* for good or with its loaded version, document and epoch as they were, keeps CasInv.
LEMMA LocalStepCas ==
    ASSUME TypeOK, CasInv, NEW r \in Requests,
           UNCHANGED <<backing, states, epoch>>,
           \A q \in Requests \ {r} :
              rec'[q] = rec[q] /\ pc'[q] = pc[q] /\ stage'[q] = stage[q],
           rec'[r].epoch <= epoch,
           pc'[r] = "streaming" => stage'[r] = "request",
           backing = "redis" => pc'[r] # "storing" /\ LevelWithStore(r)'
    PROVE  CasInv'
  BY DEF CasInv, LevelWithStore

\* A document write over Redis by a request level with the store.
LEMMA StoreDocumentCas ==
    ASSUME TypeOK, CasInv, NEW r \in Requests, pc[r] \in {"saving", "storing"},
           backing = "redis" => pc[r] = "saving" /\ states.version = rec[r].version,
           StoreDocument(r), UNCHANGED <<backing, stage, epoch>>
    PROVE  CasInv'
<1>1. rec[r] \in Record /\ rec \in [Requests -> Record] /\ states.version \in Nat
  BY DEF TypeOK
<1>2. rec'[r] = [rec[r] EXCEPT !.version = rec[r].version + 1, !.base = rec[r].doc]
  BY <1>1 DEF StoreDocument
<1>3. rec'[r].version = rec[r].version + 1 /\ rec'[r].base = rec[r].doc /\ rec'[r].epoch = rec[r].epoch
  BY <1>1, <1>2 DEF Record
<1>4. states'.version = rec[r].version + 1 /\ states'.doc = rec[r].doc
  BY DEF StoreDocument
<1>5. /\ pc'[r] \in {"appending", "streaming", "ok"}
      /\ pc'[r] = "streaming" => stage'[r] = "request"
  BY DEF TypeOK, StoreDocument, AfterSave
<1>6. ASSUME NEW q \in Requests, q # r
      PROVE  rec'[q] = rec[q] /\ pc'[q] = pc[q] /\ stage'[q] = stage[q]
  BY <1>1, <1>6 DEF StoreDocument, TypeOK
<1>7. ASSUME NEW q \in Requests
      PROVE  /\ rec'[q].epoch <= epoch'
             /\ pc'[q] = "streaming" => stage'[q] = "request"
             /\ backing' = "redis" => pc'[q] # "storing" /\ LevelWithStore(q)'
  <2>1. CASE q = r
    BY <1>1, <1>3, <1>4, <1>5, <2>1 DEF CasInv, LevelWithStore, Record
  <2>2. CASE q # r
    <3>1. rec[q] \in Record
      BY <1>1
    <3>. QED
      BY <1>1, <1>4, <1>6, <2>2, <3>1 DEF CasInv, LevelWithStore, Record
  <2>. QED
    BY <2>1, <2>2
<1>. QED
  BY <1>7 DEF CasInv

LEMMA StepCas ==
    ASSUME TypeOK, CasInv, NEW r \in Requests, Step(r)
    PROVE  CasInv'
<1>0. rec[r] \in Record /\ rec \in [Requests -> Record] /\ epoch \in Nat /\ states.version \in Nat
  BY DEF TypeOK
<1>1. CASE ReadState(r)
  <2>1. CASE states.version = 0
    BY <1>0, <1>1, <2>1, LocalStepCas DEF ReadState, CasInv, LevelWithStore, Holding, TypeOK
  <2>2. CASE states.version # 0
    <3>1. rec'[r] = LoadedRecord /\ pc'[r] = "loading"
      BY <1>0, <1>1, <2>2 DEF ReadState, TypeOK
    <3>2. rec'[r].version = states.version /\ rec'[r].base = states.doc /\ rec'[r].epoch = epoch
      BY <3>1 DEF LoadedRecord
    <3>3. \A q \in Requests \ {r} :
             rec'[q] = rec[q] /\ pc'[q] = pc[q] /\ stage'[q] = stage[q]
      BY <1>0, <1>1, <2>2 DEF ReadState, TypeOK
    <3>4. UNCHANGED <<backing, states, epoch>>
      BY <1>1 DEF ReadState
    <3>. QED
      BY <1>0, <3>1, <3>2, <3>3, <3>4, LocalStepCas DEF LevelWithStore
  <2>. QED
    BY <2>1, <2>2
<1>2. CASE ReadMessages(r)
  BY <1>0, <1>2, LocalStepCas DEF ReadMessages, CasInv, LevelWithStore, Holding, TypeOK, Record
<1>3. CASE AppendUserTurn(r)
  BY <1>0, <1>3, LocalStepCas DEF AppendUserTurn, CasInv, LevelWithStore, Holding, TypeOK, Record
<1>4. CASE HandleRoute(r)
  <2>1. /\ rec'[r].version = rec[r].version
        /\ rec'[r].base = rec[r].base
        /\ rec'[r].epoch = rec[r].epoch
        /\ \A q \in Requests \ {r} : rec'[q] = rec[q]
    <3>1. CASE rec' = [rec EXCEPT ![r].doc.events = @ \cup {r}]
      BY <1>0, <3>1 DEF Record
    <3>2. CASE rec' = [rec EXCEPT ![r].doc.seen = @ \cup {r}]
      BY <1>0, <3>2 DEF Record
    <3>3. CASE UNCHANGED rec
      BY <3>3
    <3>. QED
      BY <1>4, <3>1, <3>2, <3>3 DEF HandleRoute
  <2>2. /\ pc[r] = "handling" /\ pc'[r] = "saving"
        /\ UNCHANGED <<backing, states, epoch, stage>>
        /\ \A q \in Requests \ {r} : pc'[q] = pc[q]
    BY <1>4 DEF HandleRoute, TypeOK
  <2>. QED
    BY <1>0, <2>1, <2>2, LocalStepCas DEF CasInv, LevelWithStore, Holding
<1>5. CASE Reset(r)
  <2>1. ASSUME NEW q \in Requests
        PROVE  rec'[q].epoch <= epoch /\ rec'[q].epoch \in Nat /\ epoch' = epoch + 1
    BY <1>0, <1>5 DEF Reset, CasInv, TypeOK, Record
  <2>2. ASSUME NEW q \in Requests
        PROVE  /\ backing' = "redis" => pc'[q] # "storing"
               /\ pc'[q] = "streaming" => stage'[q] = "request"
    BY <1>5 DEF Reset, CasInv, TypeOK
  <2>. QED
    BY <1>0, <2>1, <2>2 DEF CasInv, LevelWithStore
<1>6. CASE HandlerRaises(r)
  BY <1>0, <1>6, LocalStepCas DEF HandlerRaises, Forget, NewRecord, LevelWithStore, Holding, TypeOK
<1>7. CASE SaveNothing(r)
  BY <1>0, <1>7, LocalStepCas
     DEF SaveNothing, AfterSave, CasInv, LevelWithStore, Holding, TypeOK
<1>8. CASE SaveConflicts(r)
  <2>1. CASE stage[r] = "writeback"
    BY <1>0, <1>8, <2>1, LocalStepCas
       DEF SaveConflicts, AfterConflict, CasInv, LevelWithStore, Holding, TypeOK
  <2>2. CASE stage[r] # "writeback"
    BY <1>0, <1>8, <2>2, LocalStepCas
       DEF SaveConflicts, AfterConflict, Forget, NewRecord, LevelWithStore, Holding, TypeOK
  <2>. QED
    BY <2>1, <2>2
<1>9. CASE SaveState(r)
  BY <1>9, StoreDocumentCas DEF SaveState
<1>10. CASE CheckVersion(r)
  BY <1>0, <1>10, LocalStepCas DEF CheckVersion, CasInv, LevelWithStore, Holding, TypeOK
<1>11. CASE AssignState(r)
  BY <1>11, StoreDocumentCas DEF AssignState, CasInv
<1>12. CASE WriteMessages(r)
  BY <1>0, <1>12, LocalStepCas
     DEF WriteMessages, AfterSave, CasInv, LevelWithStore, Holding, TypeOK, Record
<1>13. CASE Stream(r)
  <2>1. PICK replied, saw, cleared \in BOOLEAN :
           rec' = [rec EXCEPT ![r] = Streamed(r, replied, saw, cleared)]
    BY <1>13 DEF Stream
  <2>2. /\ rec'[r].version = rec[r].version
        /\ rec'[r].base = rec[r].base
        /\ rec'[r].epoch = rec[r].epoch
    BY <1>0, <2>1 DEF Streamed, Revised, Record
  <2>3. \A q \in Requests \ {r} :
           rec'[q] = rec[q] /\ pc'[q] = pc[q] /\ stage'[q] = stage[q]
    BY <1>0, <1>13, <2>1 DEF Stream, TypeOK
  <2>4. pc[r] = "streaming" /\ pc'[r] = "saving" /\ stage'[r] = "writeback"
        /\ UNCHANGED <<backing, states, epoch>>
    BY <1>13 DEF Stream, TypeOK
  <2>. QED
    BY <1>0, <2>2, <2>3, <2>4, LocalStepCas DEF CasInv, LevelWithStore, Holding
<1>14. CASE Adopt(r)
  BY <1>0, <1>14, LocalStepCas DEF Adopt, CasInv, LevelWithStore, Holding, TypeOK, Record
<1>15. CASE Crash(r)
  BY <1>0, <1>15, LocalStepCas DEF Crash, Forget, NewRecord, LevelWithStore, Holding, TypeOK
<1>. QED
  BY <1>1, <1>2, <1>3, <1>4, <1>5, <1>6, <1>7, <1>8, <1>9, <1>10, <1>11, <1>12, <1>13,
     <1>14, <1>15 DEF Step

\* The state a SaveState writes over Redis: it is the actor's own base, or the actor had
\* forced its write or read in an earlier epoch.
LEMMA StepReplaces ==
    ASSUME TypeOK, CasInv, NEW r \in Requests, Step(r), backing = "redis", states' # states
    PROVE  \/ epoch' # epoch
           \/ \E q \in Requests :
                 /\ pc'[q] # pc[q]
                 /\ pc[q] = "saving"
                 /\ \/ stage[q] = "forced"
                    \/ rec[q].epoch # epoch
                    \/ rec[q].base = states.doc
<1>1. CASE Reset(r)
  BY <1>1 DEF Reset, TypeOK
<1>2. CASE SaveState(r)
  <2>1. pc[r] = "saving" /\ states.version = rec[r].version
    BY <1>2 DEF SaveState
  <2>2. pc'[r] # pc[r]
    BY <1>2, <2>1 DEF SaveState, StoreDocument, AfterSave, TypeOK
  <2>3. LevelWithStore(r)
    BY DEF CasInv
  <2>. QED
    BY <2>1, <2>2, <2>3 DEF LevelWithStore, Holding
<1>3. CASE AssignState(r)
  BY <1>3 DEF AssignState, CasInv
<1>4. CASE ~Reset(r) /\ ~SaveState(r) /\ ~AssignState(r)
  BY <1>4 DEF Step, ReadState, ReadMessages, AppendUserTurn, HandleRoute, HandlerRaises,
     SaveNothing, SaveConflicts, CheckVersion, WriteMessages, Stream, Adopt, Crash
<1>. QED
  BY <1>1, <1>2, <1>3, <1>4

\* Over Redis a document is replaced only by a writer that read it, a forcing turn or a
\* reader from before a reset: the promise of write_state's version check.
THEOREM CompareAndSet == Spec => ReplacesWhatItRead
<1>1. Init => CasInv
  BY DEF Init, CasInv, LevelWithStore, Holding, NewRecord
<1>2. TypeOK /\ CasInv /\ [Next]_vars => CasInv'
  <2>1. CASE UNCHANGED vars
    BY <2>1 DEF CasInv, LevelWithStore, vars
  <2>. QED
    BY <2>1, StepCas DEF Next
<1>3. Spec => []CasInv
  BY <1>1, <1>2, SessionTypes, PTL DEF Spec
<1>4. TypeOK /\ CasInv /\ [Next]_vars =>
        [ backing = "redis" /\ states' # states =>
            \/ epoch' # epoch
            \/ \E r \in Requests :
                  /\ pc'[r] # pc[r]
                  /\ pc[r] = "saving"
                  /\ \/ stage[r] = "forced"
                     \/ rec[r].epoch # epoch
                     \/ rec[r].base = states.doc ]_vars
  BY StepReplaces DEF Next
<1>. QED
  BY <1>3, <1>4, SessionTypes, PTL DEF Spec, ReplacesWhatItRead

-----------------------------------------------------------------------------
(***************************************************************************)
(* No trace of a refused request.  Until a request's first document write  *)
(* is accepted its mark is in no place but its own record: not in the      *)
(* store, and not in the record of any other request, which could carry it *)
(* into the store later.                                                   *)
(***************************************************************************)
CleanDoc(r) == {d \in Document : r \notin d.seen /\ r \notin d.events}
CleanMessage(r) == {m \in Message : m.by # r /\ r \notin m.notes}

Unwritten(r) ==
    \/ pc[r] \in {"idle", "loading", "handling", "failed", "refused", "unknown"}
    \/ pc[r] = "saving" /\ stage[r] = "request"

StoreClean(r) == states.doc \in CleanDoc(r) /\ transcript \in Seq(CleanMessage(r))
RecordClean(q, r) == rec[q].doc \in CleanDoc(r) /\ rec[q].messages \in Seq(CleanMessage(r))

TraceInv ==
    \A r \in Requests :
        Unwritten(r) => StoreClean(r) /\ \A q \in Requests \ {r} : RecordClean(q, r)

LEMMA NewIsClean ==
    ASSUME NEW r \in Requests
    PROVE  /\ NewDocument \in CleanDoc(r)
           /\ NewRecord.doc \in CleanDoc(r)
           /\ NewRecord.messages \in Seq(CleanMessage(r))
  BY EmptySeq DEF NewDocument, NewRecord, CleanDoc, Document

\* A request that has not written yet stays unwritten only by steps of its own that write
\* nothing, and was unwritten before them.
LEMMA OwnStepUnwritten ==
    ASSUME TypeOK, NEW r \in Requests, Step(r), Unwritten(r)'
    PROVE  /\ Unwritten(r)
           /\ UNCHANGED <<states, transcript>>
           /\ \A q \in Requests \ {r} : rec'[q] = rec[q]
<1>1. CASE ReadState(r)
  BY <1>1 DEF ReadState, Unwritten, TypeOK
<1>2. CASE ReadMessages(r)
  BY <1>2 DEF ReadMessages, Unwritten, TypeOK
<1>3. CASE AppendUserTurn(r)
  BY <1>3 DEF AppendUserTurn, Unwritten, TypeOK
<1>4. CASE HandleRoute(r)
  BY <1>4 DEF HandleRoute, Unwritten, TypeOK
<1>5. CASE HandlerRaises(r)
  BY <1>5 DEF HandlerRaises, Forget, Unwritten, TypeOK
<1>6. CASE SaveConflicts(r)
  <2>1. CASE stage[r] = "request"
    BY <1>6, <2>1 DEF SaveConflicts, Forget, Unwritten, TypeOK
  <2>2. CASE stage[r] # "request"
    <3>1. pc'[r] \in {"adopting", "lost"}
      BY <1>6, <2>2 DEF SaveConflicts, AfterConflict, TypeOK
    <3>. QED
      BY <3>1 DEF Unwritten
  <2>. QED
    BY <2>1, <2>2
<1>7. CASE Stream(r) \/ Adopt(r)
  <2>1. pc'[r] = "saving" /\ stage'[r] # "request"
    BY <1>7 DEF Stream, Adopt, TypeOK
  <2>. QED
    BY <2>1 DEF Unwritten
<1>8. CASE Reset(r) \/ SaveNothing(r) \/ SaveState(r) \/ CheckVersion(r) \/ AssignState(r)
           \/ WriteMessages(r) \/ Crash(r)
  <2>1. pc'[r] \in {"ok", "streaming", "appending", "storing", "crashed"}
    BY <1>8 DEF Reset, SaveNothing, SaveState, CheckVersion, AssignState, WriteMessages, Crash,
       StoreDocument, AfterSave, TypeOK
  <2>. QED
    BY <2>1 DEF Unwritten
<1>. QED
  BY <1>1, <1>2, <1>3, <1>4, <1>5, <1>6, <1>7, <1>8 DEF Step

\* The record require or a handler builds for p, when everything it is built from is free
\* of r's mark.
LEMMA RevisedIsClean ==
    ASSUME NEW r \in Requests, NEW q \in Record, NEW m \in Seq(CleanMessage(r)),
           NEW d \in CleanDoc(r), NEW n \in Nat
    PROVE  Revised(q, m, d, n).messages = m /\ Revised(q, m, d, n).doc = d
  BY DEF Revised, Record

\* A step of another request spreads no mark it does not hold.
LEMMA OtherStepClean ==
    ASSUME TypeOK, NEW r \in Requests, NEW p \in Requests, p # r, Step(p),
           StoreClean(r), RecordClean(p, r)
    PROVE  /\ StoreClean(r)'
           /\ RecordClean(p, r)'
           /\ \A q \in Requests \ {p} : rec'[q] = rec[q]
<1>0. /\ rec \in [Requests -> Record] /\ rec[p] \in Record
      /\ rec[p].doc \in CleanDoc(r) /\ rec[p].messages \in Seq(CleanMessage(r))
      /\ states.doc \in CleanDoc(r) /\ transcript \in Seq(CleanMessage(r))
  BY DEF TypeOK, StoreClean, RecordClean
<1>1. CASE ReadState(p)
  <2>1. LoadedRecord.doc \in CleanDoc(r) /\ LoadedRecord.messages \in Seq(CleanMessage(r))
    BY <1>0, EmptySeq DEF LoadedRecord
  <2>2. rec' = rec \/ rec' = [rec EXCEPT ![p] = LoadedRecord]
    BY <1>1 DEF ReadState
  <2>. QED
    BY <1>0, <1>1, <2>1, <2>2 DEF ReadState, StoreClean, RecordClean
<1>2. CASE ReadMessages(p)
  BY <1>0, <1>2 DEF ReadMessages, StoreClean, RecordClean, Record
<1>3. CASE AppendUserTurn(p)
  <2>1. UserMessage(p) \in CleanMessage(r)
    BY <1>0 DEF UserMessage, CleanMessage, CleanDoc, Message, Document, Roles
  <2>2. Append(rec[p].messages, UserMessage(p)) \in Seq(CleanMessage(r))
    BY <1>0, <2>1
  <2>3. /\ rec'[p].messages = Append(rec[p].messages, UserMessage(p))
        /\ rec'[p].doc = [rec[p].doc EXCEPT !.events = {}]
        /\ \A q \in Requests \ {p} : rec'[q] = rec[q]
    BY <1>0, <1>3 DEF AppendUserTurn, Record
  <2>4. rec'[p].doc \in CleanDoc(r)
    BY <1>0, <2>3 DEF CleanDoc, Document
  <2>. QED
    BY <1>0, <1>3, <2>2, <2>3, <2>4 DEF AppendUserTurn, StoreClean, RecordClean
<1>4. CASE HandleRoute(p)
  <2>1. /\ rec'[p].messages = rec[p].messages
        /\ rec'[p].doc \in CleanDoc(r)
        /\ \A q \in Requests \ {p} : rec'[q] = rec[q]
    <3>1. CASE rec' = [rec EXCEPT ![p].doc.events = @ \cup {p}]
      <4>1. rec'[p].messages = rec[p].messages
            /\ rec'[p].doc = [rec[p].doc EXCEPT !.events = @ \cup {p}]
        BY <1>0, <3>1 DEF Record
      <4>. QED
        BY <1>0, <3>1, <4>1 DEF CleanDoc, Document
    <3>2. CASE rec' = [rec EXCEPT ![p].doc.seen = @ \cup {p}]
      <4>1. rec'[p].messages = rec[p].messages
            /\ rec'[p].doc = [rec[p].doc EXCEPT !.seen = @ \cup {p}]
        BY <1>0, <3>2 DEF Record
      <4>. QED
        BY <1>0, <3>2, <4>1 DEF CleanDoc, Document
    <3>3. CASE UNCHANGED rec
      BY <1>0, <3>3
    <3>. QED
      BY <1>4, <3>1, <3>2, <3>3 DEF HandleRoute
  <2>. QED
    BY <1>0, <1>4, <2>1 DEF HandleRoute, StoreClean, RecordClean
<1>5. CASE Reset(p)
  BY <1>0, <1>5, NewIsClean, EmptySeq DEF Reset, StoreClean, RecordClean
<1>6. CASE HandlerRaises(p)
  BY <1>0, <1>6, NewIsClean DEF HandlerRaises, Forget, StoreClean, RecordClean
<1>7. CASE SaveNothing(p)
  BY <1>0, <1>7 DEF SaveNothing, StoreClean, RecordClean
<1>8. CASE SaveConflicts(p)
  BY <1>0, <1>8, NewIsClean DEF SaveConflicts, Forget, StoreClean, RecordClean
<1>9. CASE SaveState(p) \/ AssignState(p)
  <2>1. StoreDocument(p) /\ UNCHANGED transcript
    BY <1>9 DEF SaveState, AssignState
  <2>2. /\ rec'[p].messages = rec[p].messages /\ rec'[p].doc = rec[p].doc
        /\ \A q \in Requests \ {p} : rec'[q] = rec[q]
    <3>1. rec'[p] = [rec[p] EXCEPT !.version = rec[p].version + 1, !.base = rec[p].doc]
      BY <1>0, <2>1 DEF StoreDocument
    <3>. QED
      BY <1>0, <2>1, <3>1 DEF StoreDocument, Record
  <2>3. states'.doc = rec[p].doc
    BY <2>1 DEF StoreDocument
  <2>. QED
    BY <1>0, <2>1, <2>2, <2>3 DEF StoreClean, RecordClean
<1>10. CASE CheckVersion(p)
  BY <1>0, <1>10 DEF CheckVersion, StoreClean, RecordClean
<1>11. CASE WriteMessages(p)
  <2>. DEFINE keep == IF rec[p].stored < Len(transcript) THEN rec[p].stored ELSE Len(transcript)
  <2>1. keep \in Nat /\ keep <= Len(transcript) /\ rec[p].stored \in Nat
    BY <1>0, LenProperties DEF Record
  <2>2. SubSeq(transcript, 1, keep)
          \o SubSeq(rec[p].messages, rec[p].stored + 1, Len(rec[p].messages))
            \in Seq(CleanMessage(r))
    BY <1>0, <2>1, SpliceType
  <2>3. /\ rec'[p].messages = rec[p].messages /\ rec'[p].doc = rec[p].doc
        /\ \A q \in Requests \ {p} : rec'[q] = rec[q]
    BY <1>0, <1>11 DEF WriteMessages, Record
  <2>. QED
    BY <1>0, <1>11, <2>2, <2>3 DEF WriteMessages, StoreClean, RecordClean
<1>12. CASE Stream(p)
  <2>1. PICK replied, saw, cleared \in BOOLEAN :
           rec' = [rec EXCEPT ![p] = Streamed(p, replied, saw, cleared)]
    BY <1>12 DEF Stream
  <2>2. Reply(p) \in CleanMessage(r)
    BY DEF Reply, CleanMessage, Message, Roles
  <2>. DEFINE messages == IF replied THEN Append(rec[p].messages, Reply(p)) ELSE rec[p].messages
              doc == IF saw THEN [rec[p].doc EXCEPT !.seen = @ \cup {p}] ELSE rec[p].doc
              stored == IF cleared THEN 0 ELSE rec[p].stored
  <2>3. messages \in Seq(CleanMessage(r)) /\ stored \in Nat
    BY <1>0, <2>2 DEF Record
  <2>4. doc \in CleanDoc(r)
    BY <1>0 DEF CleanDoc, Document
  <2>5. rec'[p] = Revised(rec[p], messages, doc, stored)
    <3>1. rec'[p] = Streamed(p, replied, saw, cleared)
      BY <1>0, <2>1
    <3>. QED
      BY <3>1 DEF Streamed
  <2>6. rec'[p].messages = messages /\ rec'[p].doc = doc
    <3>. HIDE DEF messages, doc, stored
    <3>. QED
      BY <1>0, <2>3, <2>4, <2>5, RevisedIsClean
  <2>7. \A q \in Requests \ {p} : rec'[q] = rec[q]
    BY <1>0, <2>1
  <2>. QED
    BY <1>0, <1>12, <2>3, <2>4, <2>6, <2>7 DEF Stream, StoreClean, RecordClean
<1>13. CASE Adopt(p)
  BY <1>0, <1>13 DEF Adopt, StoreClean, RecordClean, Record
<1>14. CASE Crash(p)
  BY <1>0, <1>14, NewIsClean DEF Crash, Forget, StoreClean, RecordClean
<1>. QED
  BY <1>1, <1>2, <1>3, <1>4, <1>5, <1>6, <1>7, <1>8, <1>9, <1>10, <1>11, <1>12, <1>13,
     <1>14 DEF Step

\* A step of p moves no other request.
LEMMA OthersStay ==
    ASSUME TypeOK, NEW p \in Requests, Step(p), NEW r \in Requests, r # p
    PROVE  pc'[r] = pc[r] /\ stage'[r] = stage[r]
  BY DEF TypeOK, Step, ReadState, ReadMessages, AppendUserTurn, HandleRoute, Reset, HandlerRaises,
     SaveNothing, SaveConflicts, SaveState, CheckVersion, AssignState, StoreDocument,
     WriteMessages, Stream, Adopt, Crash

LEMMA StepTrace ==
    ASSUME TypeOK, TraceInv, NEW p \in Requests, Step(p)
    PROVE  TraceInv'
<1>. SUFFICES ASSUME NEW r \in Requests, Unwritten(r)'
              PROVE  StoreClean(r)' /\ \A q \in Requests \ {r} : RecordClean(q, r)'
  BY DEF TraceInv
<1>1. CASE p = r
  BY <1>1, OwnStepUnwritten DEF TraceInv, StoreClean, RecordClean
<1>2. CASE p # r
  <2>1. Unwritten(r)
    BY <1>2, OthersStay DEF Unwritten
  <2>2. StoreClean(r) /\ \A q \in Requests \ {r} : RecordClean(q, r)
    BY <2>1 DEF TraceInv
  <2>3. StoreClean(r)' /\ RecordClean(p, r)' /\ \A q \in Requests \ {p} : rec'[q] = rec[q]
    BY <1>2, <2>2, OtherStepClean
  <2>. QED
    BY <2>2, <2>3 DEF RecordClean
<1>. QED
  BY <1>1, <1>2

\* A refused, failed or unknown request has left nothing in the store.
THEOREM NoTraceOfRefused == Spec => []RefusedLeavesNoTrace
<1>1. Init => TraceInv
  BY NewIsClean, EmptySeq DEF Init, TraceInv, StoreClean, RecordClean
<1>2. TypeOK /\ TraceInv /\ [Next]_vars => TraceInv'
  <2>1. CASE UNCHANGED vars
    BY <2>1 DEF TraceInv, Unwritten, StoreClean, RecordClean, vars
  <2>. QED
    BY <2>1, StepTrace DEF Next
<1>3. TypeOK /\ TraceInv => RefusedLeavesNoTrace
  <2>. SUFFICES ASSUME TraceInv, NEW r \in Requests, pc[r] \in {"refused", "failed", "unknown"}
                PROVE  r \notin Marks(states.doc) \cup WrittenIn(transcript) \cup NotedIn(transcript)
    BY DEF RefusedLeavesNoTrace
  <2>1. states.doc \in CleanDoc(r) /\ transcript \in Seq(CleanMessage(r))
    BY DEF TraceInv, Unwritten, StoreClean
  <2>2. \A i \in DOMAIN transcript : transcript[i].by # r /\ r \notin transcript[i].notes
    <3>1. \A i \in DOMAIN transcript : transcript[i] \in CleanMessage(r)
      BY <2>1
    <3>. QED
      BY <3>1 DEF CleanMessage
  <2>. QED
    BY <2>1, <2>2 DEF CleanDoc, Marks, WrittenIn, NotedIn
<1>. QED
  BY <1>1, <1>2, <1>3, SessionTypes, PTL DEF Spec

-----------------------------------------------------------------------------
(***************************************************************************)
(* Accepted events.  An event leaves the stored queue in two ways only: a  *)
(* turn's first save, whose message notes every event it empties because   *)
(* the document it replaces is the one it read, and a forced write-back.   *)
(* All other writers keep the queue they read.  The message is stored      *)
(* next, unless the turn dies before.                                      *)
(***************************************************************************)

\* What a request's own record holds, until its first write and after.
OwnRecord(r) ==
    /\ Unwritten(r) => rec[r].base \in CleanDoc(r)
    /\ pc[r] \in {"idle", "loading", "handling"} =>
          rec[r].doc = rec[r].base /\ stage[r] = "request"
    /\ pc[r] = "streaming" => r \in Turns
    /\ r \in Routes => rec[r].base.events \subseteq rec[r].doc.events
    /\ stage[r] = "writeback" \/ pc[r] \in {"appending", "streaming"} =>
          rec[r].doc.events = rec[r].base.events

\* What a turn's first save is about to store notes the whole queue that it read.
NotesItsQueue(r) ==
    r \in Turns /\ stage[r] = "request" /\ pc[r] \in {"saving", "storing"} =>
        rec[r].base.events \subseteq NotedBy(r)

\* Until its message a turn's record lacks nothing that is stored.
AllStored(r) == pc[r] = "handling" => rec[r].stored = Len(rec[r].messages)

\* A route that queued an event has added no provenance: the mark of one is not the other's.
Apart(r) ==
    r \in rec[r].doc.events =>
        /\ r \in Routes
        /\ r \notin states.doc.seen
        /\ \A q \in Requests : r \notin rec[q].doc.seen

Accounted(r) ==
    backing = "redis" /\ epoch = 0 =>
        (~Unwritten(r) /\ r \in rec[r].doc.events => r \in states.doc.events \cup Carried \cup told \cup dropped)

\* Where the promise is made: over Redis, and as long as nothing was reset.
Calm == backing = "redis" /\ epoch = 0

EventInv ==
    \A r \in Requests : OwnRecord(r) /\ NotesItsQueue(r) /\ AllStored(r) /\ Apart(r) /\ Accounted(r)

\* A step changes no record but the request's own, and what its document holds afterwards
\* it held before, read in the store, or is the request's mark.
LEMMA DocumentStep ==
    ASSUME TypeOK, NEW p \in Requests, Step(p)
    PROVE  /\ \A q \in Requests \ {p} : rec'[q] = rec[q]
           /\ \/ states' = states
              \/ StoreDocument(p) /\ (SaveState(p) \/ AssignState(p))
              \/ Reset(p)
           /\ rec'[p].doc.seen \subseteq rec[p].doc.seen \cup states.doc.seen \cup {p}
           /\ ~ReadState(p) /\ ~HandleRoute(p) =>
                rec'[p].doc.events \subseteq rec[p].doc.events
           /\ ~ReadState(p) /\ ~HandleRoute(p) /\ ~Stream(p) =>
                rec'[p].doc.seen \subseteq rec[p].doc.seen
<1>0. rec \in [Requests -> Record] /\ rec[p] \in Record /\ rec[p].doc \in Document
  BY DEF TypeOK, Record
<1>1. CASE ReadState(p)
  BY <1>0, <1>1 DEF ReadState, LoadedRecord
<1>2. CASE ReadMessages(p) \/ WriteMessages(p) \/ Adopt(p)
  <2>1. rec'[p].doc = rec[p].doc /\ \A q \in Requests \ {p} : rec'[q] = rec[q]
    <3>1. \/ rec' = [rec EXCEPT ![p].messages = transcript, ![p].stored = Len(transcript)]
          \/ rec' = [rec EXCEPT ![p].stored = Len(rec[p].messages)]
          \/ rec' = [rec EXCEPT ![p].version = states.version]
      BY <1>2 DEF ReadMessages, WriteMessages, Adopt
    <3>. QED
      BY <1>0, <3>1 DEF Record
  <2>. QED
    BY <1>2, <2>1 DEF ReadMessages, WriteMessages, Adopt
<1>3. CASE AppendUserTurn(p)
  <2>1. /\ rec'[p].doc = [rec[p].doc EXCEPT !.events = {}]
        /\ \A q \in Requests \ {p} : rec'[q] = rec[q]
    BY <1>0, <1>3 DEF AppendUserTurn, Record
  <2>. QED
    BY <1>0, <1>3, <2>1 DEF AppendUserTurn, Document
<1>4. CASE HandleRoute(p)
  <2>1. CASE rec' = [rec EXCEPT ![p].doc.events = @ \cup {p}]
    <3>1. rec'[p].doc = [rec[p].doc EXCEPT !.events = @ \cup {p}]
      BY <1>0, <2>1 DEF Record
    <3>. QED
      BY <1>0, <1>4, <2>1, <3>1 DEF HandleRoute, Document
  <2>2. CASE rec' = [rec EXCEPT ![p].doc.seen = @ \cup {p}]
    <3>1. rec'[p].doc = [rec[p].doc EXCEPT !.seen = @ \cup {p}]
      BY <1>0, <2>2 DEF Record
    <3>. QED
      BY <1>0, <1>4, <2>2, <3>1 DEF HandleRoute, Document
  <2>3. CASE UNCHANGED rec
    BY <1>0, <1>4, <2>3 DEF HandleRoute
  <2>. QED
    BY <1>4, <2>1, <2>2, <2>3 DEF HandleRoute
<1>5. CASE Reset(p) \/ SaveNothing(p) \/ CheckVersion(p)
  BY <1>5 DEF Reset, SaveNothing, CheckVersion
<1>6. CASE HandlerRaises(p) \/ SaveConflicts(p) \/ Crash(p)
  <2>1. rec' = rec \/ rec' = [rec EXCEPT ![p] = NewRecord]
    BY <1>6 DEF HandlerRaises, SaveConflicts, Crash, Forget
  <2>2. NewRecord.doc.seen = {} /\ NewRecord.doc.events = {}
    BY DEF NewRecord, NewDocument
  <2>. QED
    BY <1>0, <1>6, <2>1, <2>2 DEF HandlerRaises, SaveConflicts, Crash
<1>7. CASE SaveState(p) \/ AssignState(p)
  <2>1. StoreDocument(p)
    BY <1>7 DEF SaveState, AssignState
  <2>2. rec'[p].doc = rec[p].doc /\ \A q \in Requests \ {p} : rec'[q] = rec[q]
    BY <1>0, <2>1 DEF StoreDocument, Record
  <2>. QED
    BY <1>7, <2>1, <2>2
<1>8. CASE Stream(p)
  <2>1. PICK replied, saw, cleared \in BOOLEAN :
           rec' = [rec EXCEPT ![p] = Streamed(p, replied, saw, cleared)]
    BY <1>8 DEF Stream
  <2>2. rec'[p].doc = IF saw THEN [rec[p].doc EXCEPT !.seen = @ \cup {p}] ELSE rec[p].doc
    BY <1>0, <2>1 DEF Streamed, Revised, Record
  <2>3. /\ rec'[p].doc.events = rec[p].doc.events
        /\ rec'[p].doc.seen \subseteq rec[p].doc.seen \cup {p}
    BY <1>0, <2>2 DEF Document
  <2>4. states' = states /\ \A q \in Requests \ {p} : rec'[q] = rec[q]
    BY <1>0, <1>8, <2>1 DEF Stream
  <2>. QED
    BY <1>8, <2>3, <2>4
<1>. QED
  BY <1>1, <1>2, <1>3, <1>4, <1>5, <1>6, <1>7, <1>8 DEF Step

\* A request's step keeps what its own record promises.
LEMMA StepOwn ==
    ASSUME TypeOK, TraceInv, NEW p \in Requests, Step(p), OwnRecord(p)
    PROVE  OwnRecord(p)'
<1>0. /\ rec \in [Requests -> Record] /\ rec[p] \in Record /\ rec[p].doc \in Document
      /\ p \in Turns => p \notin Routes
  BY RequestsAssumption DEF TypeOK, Record
<1>. USE DEF TypeOK
<1>1. CASE ReadState(p)
  <2>1. CASE states.version = 0
    BY <1>0, <1>1, <2>1 DEF ReadState, OwnRecord, Unwritten
  <2>2. CASE states.version # 0
    <3>1. /\ rec'[p].doc = states.doc /\ rec'[p].base = states.doc
          /\ pc[p] = "idle" /\ pc'[p] = "loading" /\ stage' = stage
      BY <1>0, <1>1, <2>2 DEF ReadState, LoadedRecord
    <3>2. states.doc \in CleanDoc(p)
      BY <3>1 DEF TraceInv, Unwritten, StoreClean
    <3>. QED
      BY <3>1, <3>2 DEF OwnRecord
  <2>. QED
    BY <2>1, <2>2
<1>2. CASE ReadMessages(p)
  <2>1. /\ rec'[p].doc = rec[p].doc /\ rec'[p].base = rec[p].base
        /\ pc[p] = "loading" /\ pc'[p] = "handling" /\ stage' = stage
    BY <1>0, <1>2 DEF ReadMessages, Record
  <2>. QED
    BY <2>1 DEF OwnRecord, Unwritten
<1>3. CASE AppendUserTurn(p)
  <2>1. /\ rec'[p].base = rec[p].base /\ p \in Turns
        /\ pc[p] = "handling" /\ pc'[p] = "saving" /\ stage' = stage
    BY <1>0, <1>3 DEF AppendUserTurn, Record
  <2>2. stage[p] = "request" /\ rec[p].base \in CleanDoc(p) /\ p \notin Routes
    BY <1>0, <2>1 DEF OwnRecord, Unwritten
  <2>. QED
    BY <2>1, <2>2 DEF OwnRecord
<1>4. CASE HandleRoute(p)
  <2>1. /\ rec'[p].base = rec[p].base /\ rec[p].doc.events \subseteq rec'[p].doc.events
    <3>1. CASE rec' = [rec EXCEPT ![p].doc.events = @ \cup {p}]
      <4>1. /\ rec'[p].doc = [rec[p].doc EXCEPT !.events = @ \cup {p}]
            /\ rec'[p].base = rec[p].base
        BY <1>0, <3>1 DEF Record
      <4>. QED
        BY <1>0, <4>1 DEF Document
    <3>2. CASE rec' = [rec EXCEPT ![p].doc.seen = @ \cup {p}]
      <4>1. /\ rec'[p].doc = [rec[p].doc EXCEPT !.seen = @ \cup {p}]
            /\ rec'[p].base = rec[p].base
        BY <1>0, <3>2 DEF Record
      <4>. QED
        BY <1>0, <4>1 DEF Document
    <3>3. CASE UNCHANGED rec
      BY <3>3
    <3>. QED
      BY <1>4, <3>1, <3>2, <3>3 DEF HandleRoute
  <2>2. pc[p] = "handling" /\ pc'[p] = "saving" /\ stage' = stage
    BY <1>4 DEF HandleRoute
  <2>. QED
    BY <2>1, <2>2 DEF OwnRecord, Unwritten
<1>5. CASE Reset(p) \/ SaveNothing(p) \/ CheckVersion(p)
  <2>1. rec' = rec /\ stage' = stage
    BY <1>5 DEF Reset, SaveNothing, CheckVersion
  <2>2. /\ pc'[p] \in {"ok", "streaming", "storing"}
        /\ pc'[p] = "streaming" => p \in Turns /\ rec[p].doc = rec[p].base
    BY <1>5 DEF Reset, SaveNothing, CheckVersion, AfterSave, Dirty
  <2>. QED
    BY <2>1, <2>2 DEF OwnRecord, Unwritten
<1>6. CASE HandlerRaises(p) \/ SaveConflicts(p) \/ Crash(p)
  <2>1. \/ /\ rec' = rec /\ stage' = stage /\ stage[p] = "writeback"
           /\ pc'[p] = "adopting"
        \/ /\ rec'[p] = NewRecord /\ stage' = stage
           /\ pc'[p] \in {"failed", "refused", "lost", "crashed"}
    BY <1>0, <1>6 DEF HandlerRaises, SaveConflicts, Crash, Forget, AfterConflict
  <2>2. NewRecord.doc = NewRecord.base /\ NewRecord.base \in CleanDoc(p)
    BY NewIsClean DEF NewRecord
  <2>. QED
    BY <2>1, <2>2 DEF OwnRecord, Unwritten
<1>7. CASE SaveState(p) \/ AssignState(p)
  <2>1. StoreDocument(p) /\ stage' = stage
    BY <1>7 DEF SaveState, AssignState
  <2>2. rec'[p].doc = rec[p].doc /\ rec'[p].base = rec[p].doc
    BY <1>0, <2>1 DEF StoreDocument, Record
  <2>3. pc'[p] \in {"appending", "streaming", "ok"} /\ (pc'[p] = "streaming" => p \in Turns)
    BY <2>1 DEF StoreDocument, AfterSave
  <2>. QED
    BY <2>1, <2>2, <2>3 DEF OwnRecord, Unwritten
<1>8. CASE Stream(p)
  <2>1. PICK replied, saw, cleared \in BOOLEAN :
           rec' = [rec EXCEPT ![p] = Streamed(p, replied, saw, cleared)]
    BY <1>8 DEF Stream
  <2>2. /\ rec'[p].doc = IF saw THEN [rec[p].doc EXCEPT !.seen = @ \cup {p}] ELSE rec[p].doc
        /\ rec'[p].base = rec[p].base
    BY <1>0, <2>1 DEF Streamed, Revised, Record
  <2>3. rec'[p].doc.events = rec[p].doc.events
    BY <1>0, <2>2 DEF Document
  <2>4. pc[p] = "streaming" /\ pc'[p] = "saving" /\ stage'[p] = "writeback"
    BY <1>8 DEF Stream
  <2>. QED
    BY <2>2, <2>3, <2>4 DEF OwnRecord, Unwritten
<1>9. CASE WriteMessages(p) \/ Adopt(p)
  <2>1. rec'[p].doc = rec[p].doc /\ rec'[p].base = rec[p].base
    <3>1. \/ rec' = [rec EXCEPT ![p].stored = Len(rec[p].messages)]
          \/ rec' = [rec EXCEPT ![p].version = states.version]
      BY <1>9 DEF WriteMessages, Adopt
    <3>. QED
      BY <1>0, <3>1 DEF Record
  <2>2. \/ /\ pc[p] = "appending" /\ stage' = stage
           /\ pc'[p] \in {"streaming", "ok"} /\ (pc'[p] = "streaming" => p \in Turns)
        \/ pc'[p] = "saving" /\ stage'[p] = "forced"
    BY <1>9 DEF WriteMessages, Adopt, AfterSave
  <2>. QED
    BY <2>1, <2>2 DEF OwnRecord, Unwritten
<1>. QED
  BY <1>1, <1>2, <1>3, <1>4, <1>5, <1>6, <1>7, <1>8, <1>9 DEF Step

\* A request's step keeps what is said of the message that a turn is about to store.
LEMMA StepNotesItsQueue ==
    ASSUME TypeOK, NEW p \in Requests, Step(p), OwnRecord(p), NotesItsQueue(p), AllStored(p)
    PROVE  NotesItsQueue(p)' /\ AllStored(p)'
<1>0. /\ rec \in [Requests -> Record] /\ rec[p] \in Record /\ rec[p].doc \in Document
      /\ rec[p].messages \in Seq(Message) /\ Len(rec[p].messages) \in Nat
      /\ p \in Turns => p \notin Routes
  BY RequestsAssumption, LenProperties DEF TypeOK, Record
<1>1. CASE ReadMessages(p)
  <2>1. rec'[p].stored = Len(rec'[p].messages) /\ pc'[p] = "handling"
    BY <1>0, <1>1 DEF ReadMessages, TypeOK, Record
  <2>. QED
    BY <2>1 DEF NotesItsQueue, AllStored
<1>2. CASE AppendUserTurn(p)
  <2>1. /\ rec'[p].messages = Append(rec[p].messages, UserMessage(p))
        /\ rec'[p].stored = rec[p].stored /\ rec'[p].base = rec[p].base
        /\ pc[p] = "handling" /\ pc'[p] = "saving"
    BY <1>0, <1>2 DEF AppendUserTurn, TypeOK, Record
  <2>2. rec[p].stored = Len(rec[p].messages) /\ rec[p].doc = rec[p].base
    BY <2>1 DEF AllStored, OwnRecord
  <2>3. /\ Len(rec'[p].messages) = Len(rec[p].messages) + 1
        /\ rec'[p].messages[Len(rec[p].messages) + 1] = UserMessage(p)
    BY <1>0, <2>1, AppendProperties
  <2>4. rec'[p].base.events = UserMessage(p).notes
    BY <2>1, <2>2 DEF UserMessage
  <2>5. rec'[p].stored + 1 \in rec'[p].stored + 1 .. Len(rec'[p].messages)
    BY <1>0, <2>1, <2>2, <2>3
  <2>6. rec'[p].messages[rec'[p].stored + 1] = UserMessage(p)
    BY <2>1, <2>2, <2>3
  <2>7. rec'[p].base.events \subseteq NotedBy(p)'
    BY <2>4, <2>5, <2>6 DEF NotedBy
  <2>. QED
    BY <2>1, <2>7 DEF NotesItsQueue, AllStored
<1>3. CASE CheckVersion(p)
  <2>1. rec' = rec /\ stage' = stage /\ pc[p] = "saving" /\ pc'[p] = "storing"
    BY <1>3 DEF CheckVersion, TypeOK
  <2>. QED
    BY <2>1 DEF NotesItsQueue, AllStored, NotedBy
<1>4. CASE ReadState(p) \/ Reset(p) \/ SaveNothing(p) \/ HandlerRaises(p) \/ SaveConflicts(p)
           \/ Crash(p) \/ SaveState(p) \/ AssignState(p) \/ WriteMessages(p)
  <2>1. pc'[p] \notin {"handling", "saving", "storing"}
    <3>1. CASE ReadState(p) \/ Reset(p) \/ SaveNothing(p)
      BY <3>1 DEF ReadState, Reset, SaveNothing, AfterSave, TypeOK
    <3>2. CASE HandlerRaises(p) \/ SaveConflicts(p) \/ Crash(p)
      BY <3>2 DEF HandlerRaises, SaveConflicts, AfterConflict, Crash, TypeOK
    <3>3. CASE SaveState(p) \/ AssignState(p) \/ WriteMessages(p)
      BY <3>3 DEF SaveState, AssignState, StoreDocument, WriteMessages, AfterSave, TypeOK
    <3>. QED
      BY <1>4, <3>1, <3>2, <3>3
  <2>. QED
    BY <2>1 DEF NotesItsQueue, AllStored
<1>5. CASE HandleRoute(p)
  BY <1>0, <1>5 DEF HandleRoute, NotesItsQueue, AllStored, TypeOK
<1>6. CASE Stream(p) \/ Adopt(p)
  <2>1. pc'[p] = "saving" /\ stage'[p] # "request"
    BY <1>6 DEF Stream, Adopt, TypeOK
  <2>. QED
    BY <2>1 DEF NotesItsQueue, AllStored
<1>. QED
  BY <1>1, <1>2, <1>3, <1>4, <1>5, <1>6 DEF Step

\* What a turn is about to store it goes on carrying, stores, or loses by a crash.
LEMMA CarriedKept ==
    ASSUME TypeOK, NEW p \in Requests, Step(p), NEW r \in Carried
    PROVE  r \in Carried' \cup told' \cup dropped'
<1>1. PICK t \in Turns : Posting(t) /\ r \in NotedBy(t)
  BY DEF Carried
<1>2. CASE t # p
  <2>1. rec'[t] = rec[t] /\ pc'[t] = pc[t] /\ stage'[t] = stage[t]
    BY <1>2, DocumentStep, OthersStay DEF Requests
  <2>2. Posting(t)' /\ r \in NotedBy(t)'
    BY <1>1, <2>1 DEF Posting, NotedBy
  <2>. QED
    BY <2>2 DEF Carried
<1>3. CASE t = p
  <2>1. pc[p] = "appending"
    BY <1>1, <1>3 DEF Posting
  <2>2. WriteMessages(p) \/ Crash(p)
    BY <2>1 DEF Step, ReadState, ReadMessages, AppendUserTurn, HandleRoute, Reset, HandlerRaises,
       SaveNothing, SaveConflicts, SaveState, CheckVersion, AssignState, Stream, Adopt
  <2>. QED
    BY <1>1, <1>3, <2>2 DEF WriteMessages, Crash
<1>. QED
  BY <1>2, <1>3

LEMMA StepApart ==
    ASSUME TypeOK, TraceInv, EventInv, NEW p \in Requests, Step(p), NEW r \in Requests
    PROVE  Apart(r)'
<1>. SUFFICES ASSUME r \in rec'[r].doc.events
              PROVE  /\ r \in Routes /\ r \notin states'.doc.seen
                     /\ \A q \in Requests : r \notin rec'[q].doc.seen
  BY DEF Apart
<1>0. /\ rec \in [Requests -> Record]
      /\ \A q \in Requests : rec[q] \in Record /\ rec[q].doc \in Document
  BY DEF TypeOK, Record
<1>1. CASE r \in rec[r].doc.events /\ (p = r => ~ReadState(r) /\ ~HandleRoute(r))
  <2>1. r \in Routes /\ r \notin states.doc.seen /\ \A q \in Requests : r \notin rec[q].doc.seen
    BY <1>1 DEF EventInv, Apart
  <2>2. r \notin states'.doc.seen
    <3>1. states'.doc \in {states.doc, rec[p].doc, NewDocument}
      <4>1. StoreDocument(p) => states'.doc = rec[p].doc
        BY DEF StoreDocument
      <4>2. Reset(p) => states'.doc = NewDocument
        BY DEF Reset
      <4>. QED
        BY <4>1, <4>2, DocumentStep
    <3>2. r \notin NewDocument.seen
      BY DEF NewDocument
    <3>. QED
      BY <2>1, <3>1, <3>2
  <2>3. r \notin rec'[p].doc.seen
    <3>1. CASE p # r
      BY <2>1, <3>1, DocumentStep
    <3>2. CASE p = r
      <4>1. ~Stream(r)
        BY <2>1, RequestsAssumption DEF Stream, EventInv, OwnRecord
      <4>. QED
        BY <1>1, <2>1, <3>2, <4>1, DocumentStep
    <3>. QED
      BY <3>1, <3>2
  <2>. QED
    BY <2>1, <2>2, <2>3, DocumentStep
<1>2. CASE ~(r \in rec[r].doc.events /\ (p = r => ~ReadState(r) /\ ~HandleRoute(r)))
  <2>1. p = r /\ (ReadState(r) \/ HandleRoute(r))
    BY <1>2, DocumentStep
  <2>2. Unwritten(r) /\ rec[r].doc = rec[r].base /\ rec[r].base \in CleanDoc(r)
    BY <2>1 DEF ReadState, HandleRoute, Unwritten, EventInv, OwnRecord
  <2>3. /\ states.doc \in CleanDoc(r)
        /\ \A q \in Requests : rec[q].doc \in CleanDoc(r)
    BY <2>2 DEF TraceInv, StoreClean, RecordClean
  <2>4. CASE ReadState(r)
    <3>1. rec'[r].doc \in {rec[r].doc, states.doc}
      BY <1>0, <2>4 DEF ReadState, LoadedRecord
    <3>. QED
      BY <2>3, <3>1 DEF CleanDoc
  <2>5. CASE HandleRoute(r)
    <3>1. \/ rec'[r].doc = [rec[r].doc EXCEPT !.events = @ \cup {r}]
          \/ rec'[r].doc = [rec[r].doc EXCEPT !.seen = @ \cup {r}]
          \/ rec'[r].doc = rec[r].doc
      BY <1>0, <2>5 DEF HandleRoute, Record
    <3>2. rec'[r].doc.seen = rec[r].doc.seen
      BY <1>0, <2>3, <3>1 DEF CleanDoc, Document
    <3>3. r \in Routes /\ states' = states
      BY <2>5 DEF HandleRoute
    <3>. QED
      BY <2>1, <2>3, <3>2, <3>3, DocumentStep DEF CleanDoc
  <2>. QED
    BY <2>1, <2>4, <2>5
<1>. QED
  BY <1>1, <1>2

\* Over Redis, an event that a document write takes out of the queue is noted or dropped.
LEMMA QueueKept ==
    ASSUME TypeOK, CasInv, EventInv, backing = "redis", epoch = 0,
           NEW p \in Requests, SaveState(p),
           NEW r \in states.doc.events, \A q \in Requests : r \notin rec[q].doc.seen
    PROVE  r \in states'.doc.events \cup Carried' \cup dropped'
<1>0. /\ StoreDocument(p) /\ pc[p] = "saving" /\ states.version = rec[p].version
      /\ stage[p] \in {"request", "writeback", "forced"}
  BY DEF SaveState, TypeOK
<1>1. states'.doc = rec[p].doc
  BY <1>0 DEF StoreDocument
<1>2. CASE stage[p] = "forced"
  BY <1>0, <1>1, <1>2 DEF StoreDocument
<1>3. CASE stage[p] # "forced"
  <2>1. rec[p].epoch = 0
    BY DEF CasInv, TypeOK, Record
  <2>2. rec[p].base = states.doc
    BY <1>0, <1>3, <2>1 DEF CasInv, LevelWithStore, Holding
  <2>3. CASE stage[p] = "request" /\ p \in Turns
    <3>1. r \in NotedBy(p)
      BY <1>0, <2>2, <2>3 DEF EventInv, NotesItsQueue
    <3>2. NotedBy(p)' = NotedBy(p)
      <4>1. rec'[p].messages = rec[p].messages /\ rec'[p].stored = rec[p].stored
        BY <1>0 DEF StoreDocument, TypeOK, Record
      <4>. QED
        BY <4>1 DEF NotedBy
    <3>3. Grew(p)
      <4>1. rec[p].stored \in Nat /\ Len(rec[p].messages) \in Nat
        BY LenProperties DEF TypeOK, Record
      <4>2. PICK i \in rec[p].stored + 1 .. Len(rec[p].messages) : TRUE
        BY <3>1 DEF NotedBy
      <4>. QED
        BY <4>1, <4>2 DEF Grew
    <3>4. Posting(p)'
      BY <1>0, <2>3, <3>3 DEF SaveState, StoreDocument, Posting, TypeOK
    <3>. QED
      BY <2>3, <3>1, <3>2, <3>4 DEF Carried
  <2>4. CASE p \in Routes \/ stage[p] = "writeback"
    BY <1>1, <2>2, <2>4 DEF EventInv, OwnRecord
  <2>. QED
    BY <1>0, <1>3, <2>3, <2>4 DEF Requests
<1>. QED
  BY <1>2, <1>3

LEMMA CalmStep ==
    ASSUME TypeOK, CasInv, NEW p \in Requests, Step(p), Calm'
    PROVE  Calm /\ ~Reset(p) /\ ~AssignState(p) /\ ~CheckVersion(p)
<1>1. ~Reset(p)
  BY DEF Reset, TypeOK, Calm
<1>2. backing' = backing /\ epoch' = epoch
  BY <1>1 DEF Step, ReadState, ReadMessages, AppendUserTurn, HandleRoute, HandlerRaises,
     SaveNothing, SaveConflicts, SaveState, CheckVersion, AssignState, WriteMessages, Stream, Adopt, Crash
<1>. QED
  BY <1>1, <1>2 DEF CasInv, AssignState, CheckVersion, Calm

\* A request becomes known to the store by its first save only.
LEMMA FirstWrite ==
    ASSUME TypeOK, CasInv, EventInv, NEW p \in Requests, Step(p), Calm',
           NEW r \in Requests, Unwritten(r), ~Unwritten(r)'
    PROVE  p = r /\ pc[r] = "saving" /\ stage[r] = "request" /\ (SaveState(r) \/ SaveNothing(r))
<1>0. ~Reset(p) /\ ~AssignState(p) /\ ~CheckVersion(p)
  BY CalmStep
<1>1. p = r
  BY OthersStay DEF Unwritten
<1>2. pc'[r] \notin {"idle", "loading", "handling", "failed", "refused", "unknown"}
  BY DEF Unwritten
<1>3. ~(pc'[r] = "saving" /\ stage'[r] = "request")
  BY DEF Unwritten
<1>4. /\ pc[r] \in {"idle", "loading", "handling", "failed", "refused", "unknown", "saving"}
      /\ pc[r] = "saving" => stage[r] = "request"
      /\ pc[r] \in {"idle", "loading", "handling"} => stage[r] = "request"
  BY DEF Unwritten, EventInv, OwnRecord
<1>5. ~ReadState(r) /\ ~ReadMessages(r) /\ ~HandlerRaises(r)
  BY <1>2 DEF ReadState, ReadMessages, HandlerRaises, TypeOK
<1>6. ~AppendUserTurn(r) /\ ~HandleRoute(r)
  BY <1>3, <1>4 DEF AppendUserTurn, HandleRoute, TypeOK
<1>7. ~SaveConflicts(r)
  BY <1>2, <1>4 DEF SaveConflicts, AfterConflict, TypeOK
<1>8. ~WriteMessages(r) /\ ~Stream(r) /\ ~Adopt(r) /\ ~Crash(r)
  BY <1>4 DEF WriteMessages, Stream, Adopt, Crash
<1>9. SaveState(r) \/ SaveNothing(r)
  BY <1>0, <1>1, <1>5, <1>6, <1>7, <1>8 DEF Step
<1>. QED
  BY <1>1, <1>4, <1>9 DEF SaveState, SaveNothing

LEMMA StepAccounted ==
    ASSUME TypeOK, CasInv, TraceInv, EventInv, NEW p \in Requests, Step(p), NEW r \in Requests
    PROVE  Accounted(r)'
<1>. SUFFICES ASSUME backing' = "redis", epoch' = 0, ~Unwritten(r)', r \in rec'[r].doc.events
              PROVE  r \in states'.doc.events \cup Carried' \cup told' \cup dropped'
  BY DEF Accounted
<1>1. backing = "redis" /\ epoch = 0 /\ ~Reset(p) /\ ~AssignState(p) /\ ~CheckVersion(p)
  BY CalmStep DEF Calm
<1>2. told \subseteq told' /\ dropped \subseteq dropped'
  BY DEF Step, ReadState, ReadMessages, AppendUserTurn, HandleRoute, Reset, HandlerRaises,
     SaveNothing, SaveConflicts, SaveState, CheckVersion, AssignState, StoreDocument, WriteMessages,
     Stream, Adopt, Crash
\* It had been accounted for.
<1>3. CASE ~Unwritten(r) /\ r \in rec[r].doc.events
  <2>1. r \in states.doc.events \cup Carried \cup told \cup dropped
    BY <1>1, <1>3 DEF EventInv, Accounted
  <2>2. \A q \in Requests : r \notin rec[q].doc.seen
    BY <1>3 DEF EventInv, Apart
  <2>3. CASE r \in Carried
    BY <2>3, CarriedKept
  <2>4. CASE r \in states.doc.events /\ SaveState(p)
    BY <1>1, <2>2, <2>4, QueueKept
  <2>5. CASE r \in states.doc.events /\ ~SaveState(p)
    BY <1>1, <2>5, DocumentStep
  <2>. QED
    BY <1>2, <2>1, <2>3, <2>4, <2>5
\* It is written now.
<1>4. CASE Unwritten(r)
  <2>2. rec[r].base \in CleanDoc(r)
    BY <1>4 DEF EventInv, OwnRecord
  <2>3. SaveState(r) \/ SaveNothing(r)
    BY <1>1, <1>4, FirstWrite DEF Calm
  <2>4. CASE SaveState(r)
    <3>1. states'.doc = rec[r].doc /\ rec'[r].doc = rec[r].doc
      BY <2>4 DEF SaveState, StoreDocument, TypeOK, Record
    <3>. QED
      BY <3>1
  <2>5. CASE SaveNothing(r)
    <3>1. rec' = rec /\ rec[r].doc = rec[r].base
      BY <2>5 DEF SaveNothing, Dirty
    <3>. QED
      BY <2>2, <3>1 DEF CleanDoc
  <2>. QED
    BY <2>3, <2>4, <2>5
\* Events are queued before the first write only.
<1>5. CASE ~Unwritten(r) /\ r \notin rec[r].doc.events
  BY <1>5, DocumentStep DEF ReadState, HandleRoute, Unwritten
<1>. QED
  BY <1>3, <1>4, <1>5

LEMMA EventsHold == Spec => [](CasInv /\ TraceInv /\ EventInv)
<1>1. Init => CasInv /\ TraceInv /\ EventInv
  <2>1. Init => CasInv
    BY DEF Init, CasInv, LevelWithStore, Holding, NewRecord
  <2>2. Init => TraceInv
    BY NewIsClean, EmptySeq DEF Init, TraceInv, StoreClean, RecordClean
  <2>3. Init => EventInv
    <3>. SUFFICES ASSUME Init, NEW r \in Requests PROVE OwnRecord(r) /\ Apart(r) /\ Accounted(r)
      BY DEF EventInv, Init, NotesItsQueue, AllStored
    <3>1. rec[r] = NewRecord /\ pc[r] = "idle" /\ stage[r] = "request"
      BY DEF Init
    <3>2. NewRecord.doc = NewRecord.base /\ NewRecord.doc.events = {} /\ NewRecord.base \in CleanDoc(r)
      BY NewIsClean DEF NewRecord, NewDocument
    <3>. QED
      BY <3>1, <3>2 DEF OwnRecord, Apart, Accounted
  <2>. QED
    BY <2>1, <2>2, <2>3
<1>2. TypeOK /\ CasInv /\ TraceInv /\ EventInv /\ [Next]_vars => CasInv' /\ TraceInv' /\ EventInv'
  <2>. SUFFICES ASSUME TypeOK, CasInv, TraceInv, EventInv, [Next]_vars
                PROVE  CasInv' /\ TraceInv' /\ EventInv'
    OBVIOUS
  <2>1. ASSUME NEW p \in Requests, Step(p) PROVE CasInv' /\ TraceInv' /\ EventInv'
    <3>1. ASSUME NEW r \in Requests PROVE OwnRecord(r)' /\ NotesItsQueue(r)' /\ AllStored(r)'
      <4>1. CASE r = p
        BY <2>1, <4>1, StepOwn, StepNotesItsQueue DEF EventInv
      <4>2. CASE r # p
        <5>1. rec'[r] = rec[r] /\ pc'[r] = pc[r] /\ stage'[r] = stage[r]
          BY <2>1, <4>2, OthersStay, DocumentStep
        <5>. QED
          BY <5>1 DEF EventInv, OwnRecord, Unwritten, NotesItsQueue, AllStored, NotedBy
      <4>. QED
        BY <4>1, <4>2
    <3>2. EventInv'
      BY <2>1, <3>1, StepApart, StepAccounted DEF EventInv
    <3>. QED
      BY <2>1, <3>2, StepCas, StepTrace
  <2>2. CASE UNCHANGED vars
    BY <2>2 DEF vars, CasInv, LevelWithStore, TraceInv, Unwritten, StoreClean, RecordClean,
                EventInv, OwnRecord, NotesItsQueue, AllStored, Apart, Accounted, Carried, Posting,
                NotedBy
  <2>. QED
    BY <2>1, <2>2 DEF Next
<1>. QED
  BY <1>1, <1>2, SessionTypes, PTL DEF Spec

\* A button's event that was accepted is queued, or noted in a message that is in the
\* transcript or about to be, or was lost to a forced write-back or to a crash between a
\* turn's two writes: no racing save takes it out of the queue unnoticed (save, write_state).
THEOREM EventsAccounted == Spec => []AcceptedEventAccounted
<1>1. EventInv => AcceptedEventAccounted
  BY DEF EventInv, Accounted, AcceptedEventAccounted, Unwritten
<1>. QED
  BY <1>1, EventsHold, PTL

-----------------------------------------------------------------------------
(***************************************************************************)
(* Told once.  The note of an event is in the message of the one turn that *)
(* emptied it from the queue: a second turn that read it there as well is  *)
(* behind the store by then, and its message is not written.  That holds   *)
(* of the transcript and of every record, from which a message may come    *)
(* back into the transcript later.                                         *)
(***************************************************************************)
Said(s) == {s[i] : i \in DOMAIN s}
Heard == Said(transcript) \cup UNION {Said(rec[q].messages) : q \in Requests}

\* No turn's own message is in a sequence of messages twice.
UserOnce(s) ==
    \A i, j \in DOMAIN s :
        i # j /\ s[i].role = "user" /\ s[j].role = "user" => s[i].by # s[j].by

\* The last message is the request's own, carries its note, and is all the store lacks.
LastIsMine(r) ==
    LET q == rec[r]
        n == Len(q.messages)
    IN  /\ n = q.stored + 1
        /\ q.messages[n].by = r
        /\ q.messages[n].notes = q.base.events
        /\ \A i \in 1 .. q.stored : q.messages[i].by # r

RouteRecord(r) ==
    r \in Routes =>
        /\ stage[r] = "request"
        /\ pc[r] # "adopting"
        /\ rec[r].stored = Len(rec[r].messages)
        /\ rec[r].doc.events \subseteq rec[r].base.events \cup {r}

TurnRecord(r) ==
    r \in Turns =>
        /\ pc[r] \notin {"loading", "handling"} => rec[r].doc.events = {}
        /\ pc[r] \in {"loading", "handling", "streaming"} => rec[r].stored = Len(rec[r].messages)
        /\ stage[r] = "request" =>
              /\ pc[r] = "saving" => LastIsMine(r)
              /\ pc[r] # "adopting"
              /\ pc[r] = "appending" =>
                    /\ Len(rec[r].messages) = rec[r].stored + 1
                    /\ rec[r].messages[Len(rec[r].messages)].by = r
        /\ stage[r] # "request" =>
              \/ rec[r].stored = 0
              \/ \A i \in rec[r].stored + 1 .. Len(rec[r].messages) :
                     rec[r].messages[i].role = "assistant"

OwnMessages(r) ==
    /\ Unwritten(r) => \A m \in Said(rec[r].messages) : r \notin m.notes
    /\ pc[r] \in {"loading", "handling"} => \A m \in Said(rec[r].messages) : m.by # r

\* Until a turn's first messages are written, it is not in the transcript, nor in the
\* record of another.
Unposted(r) == Unwritten(r) \/ (pc[r] = "appending" /\ stage[r] = "request")
Silent(r) ==
    Unposted(r) =>
        /\ \A m \in Said(transcript) : m.by # r
        /\ \A q \in Requests \ {r} : \A m \in Said(rec[q].messages) : m.by # r

Once == UserOnce(transcript) /\ \A r \in Requests : UserOnce(rec[r].messages)
TurnsSpeak == \A m \in Heard : m.by \in Turns /\ (m.role = "assistant" => m.notes = {})
NotesApart ==
    \A m, n \in Heard :
        m.by # n.by /\ ~Unwritten(m.by) /\ ~Unwritten(n.by) => m.notes \cap n.notes = {}
NotesUnqueued == \A m \in Heard : ~Unwritten(m.by) => m.notes \cap states.doc.events = {}

NoteInv ==
    Calm =>
        /\ \A r \in Requests : RouteRecord(r) /\ TurnRecord(r) /\ OwnMessages(r) /\ Silent(r)
        /\ Once
        /\ TurnsSpeak
        /\ NotesApart
        /\ NotesUnqueued

LEMMA SaidFacts ==
    ASSUME NEW a \in Seq(Message), NEW m \in Message
    PROVE  /\ Said(Append(a, m)) = Said(a) \cup {m}
           /\ Said(<<>>) = {}
           /\ Said(a) \subseteq Message
<1>1. Said(<<>>) = {} /\ Said(a) \subseteq Message
  BY DEF Said
<1>2. /\ Len(a) \in Nat /\ DOMAIN a = 1 .. Len(a) /\ DOMAIN Append(a, m) = 1 .. (Len(a) + 1)
      /\ \A i \in 1 .. Len(a) : Append(a, m)[i] = a[i]
      /\ Append(a, m)[Len(a) + 1] = m
  OBVIOUS
<1>3. \A x : x \in Said(Append(a, m)) <=> x \in Said(a) \cup {m}
  BY <1>2 DEF Said
<1>. QED
  BY <1>1, <1>3

\* A step of p touches no messages but its own record's and, when it writes, the transcript.
LEMMA MessagesStep ==
    ASSUME TypeOK, NEW p \in Requests, Step(p)
    PROVE  /\ transcript' = transcript \/ WriteMessages(p) \/ Reset(p)
           /\ \/ rec'[p].messages = rec[p].messages
              \/ rec'[p].messages = <<>>
              \/ ReadMessages(p) /\ rec'[p].messages = transcript
              \/ AppendUserTurn(p) /\ rec'[p].messages = Append(rec[p].messages, UserMessage(p))
              \/ Stream(p) /\ rec'[p].messages = Append(rec[p].messages, Reply(p))
<1>0. rec \in [Requests -> Record] /\ rec[p] \in Record
  BY DEF TypeOK
<1>1. transcript' = transcript \/ WriteMessages(p) \/ Reset(p)
  BY DEF Step, ReadState, ReadMessages, AppendUserTurn, HandleRoute, HandlerRaises,
     SaveNothing, SaveConflicts, SaveState, CheckVersion, AssignState, Stream, Adopt, Crash
<1>2. CASE ReadState(p) \/ HandlerRaises(p) \/ SaveConflicts(p) \/ Crash(p)
  <2>1. rec'[p] \in {rec[p], NewRecord, LoadedRecord}
    BY <1>0, <1>2 DEF ReadState, HandlerRaises, SaveConflicts, Crash, Forget
  <2>. QED
    BY <1>1, <2>1 DEF NewRecord, LoadedRecord
<1>3. CASE ReadMessages(p)
  BY <1>0, <1>1, <1>3 DEF ReadMessages, Record
<1>4. CASE AppendUserTurn(p)
  BY <1>0, <1>1, <1>4 DEF AppendUserTurn, Record
<1>5. CASE HandleRoute(p)
  BY <1>0, <1>1, <1>5 DEF HandleRoute, Record
<1>6. CASE Reset(p) \/ SaveNothing(p) \/ CheckVersion(p)
  BY <1>1, <1>6 DEF Reset, SaveNothing, CheckVersion
<1>7. CASE SaveState(p) \/ AssignState(p)
  BY <1>0, <1>1, <1>7 DEF SaveState, AssignState, StoreDocument, Record
<1>8. CASE WriteMessages(p) \/ Adopt(p)
  BY <1>0, <1>1, <1>8 DEF WriteMessages, Adopt, Record
<1>9. CASE Stream(p)
  <2>1. PICK replied, saw, cleared \in BOOLEAN :
           rec' = [rec EXCEPT ![p] = Streamed(p, replied, saw, cleared)]
    BY <1>9 DEF Stream
  <2>2. rec'[p].messages = IF replied THEN Append(rec[p].messages, Reply(p)) ELSE rec[p].messages
    BY <1>0, <2>1 DEF Streamed, Revised, Record
  <2>. QED
    BY <1>1, <1>9, <2>2
<1>. QED
  BY <1>2, <1>3, <1>4, <1>5, <1>6, <1>7, <1>8, <1>9 DEF Step

\* What a write leaves of the transcript, and what it adds to it.
LEMMA WriteSplits ==
    ASSUME TypeOK, NEW p \in Requests, WriteMessages(p)
    PROVE  \E a, b \in Seq(Message) :
              /\ transcript' = a \o b
              /\ Len(a) <= rec[p].stored
              /\ \A i \in DOMAIN a : i \in DOMAIN transcript /\ a[i] = transcript[i]
              /\ \A i \in DOMAIN b : /\ rec[p].stored + i \in DOMAIN rec[p].messages
                                     /\ b[i] = rec[p].messages[rec[p].stored + i]
<1> DEFINE msgs == rec[p].messages
           n == rec[p].stored
           keep == IF n < Len(transcript) THEN n ELSE Len(transcript)
           a == SubSeq(transcript, 1, keep)
           b == SubSeq(msgs, n + 1, Len(msgs))
<1>1. msgs \in Seq(Message) /\ n \in Nat /\ transcript \in Seq(Message)
  BY DEF TypeOK, Record
<1>2. keep \in Nat /\ keep <= Len(transcript) /\ keep <= n /\ Len(transcript) \in Nat /\ Len(msgs) \in Nat
  BY <1>1
<1>3. transcript' = a \o b
  BY DEF WriteMessages
<1> HIDE DEF msgs, n, keep
<1>4. /\ a \in Seq(Message) /\ Len(a) = keep
      /\ \A i \in 1 .. keep : a[i] = transcript[i]
  <2>1. \A i \in 1 .. keep : transcript[i] \in Message
    BY <1>1, <1>2, ElementOfSeq
  <2>. QED
    BY <1>1, <1>2, <2>1, SubSeqProperties
<1>5. /\ b \in Seq(Message) /\ Len(b) = IF n + 1 <= Len(msgs) THEN Len(msgs) - n ELSE 0
      /\ \A i \in 1 .. Len(b) : b[i] = msgs[n + i]
  <2>1. \A i \in n + 1 .. Len(msgs) : msgs[i] \in Message
    BY <1>1, <1>2, ElementOfSeq
  <2>2. n + 1 \in Int /\ Len(msgs) \in Int
    BY <1>1, <1>2
  <2>3. /\ b \in Seq(Message)
        /\ Len(b) = IF n + 1 <= Len(msgs) THEN Len(msgs) - (n + 1) + 1 ELSE 0
        /\ \A i \in 1 .. Len(msgs) - (n + 1) + 1 : b[i] = msgs[n + 1 + i - 1]
    BY <1>1, <1>2, <2>1, <2>2, SubSeqProperties
  <2> HIDE DEF b
  <2>. QED
    BY <1>1, <1>2, <2>3
<1> HIDE DEF a, b
<1>6. DOMAIN a = 1 .. Len(a) /\ DOMAIN b = 1 .. Len(b) /\ DOMAIN transcript = 1 .. Len(transcript)
      /\ DOMAIN msgs = 1 .. Len(msgs)
  BY <1>1, <1>4, <1>5
<1>7. \A i \in DOMAIN a : i \in DOMAIN transcript /\ a[i] = transcript[i]
  BY <1>2, <1>4, <1>6
<1>8. \A i \in DOMAIN b : n + i \in DOMAIN msgs /\ b[i] = msgs[n + i]
  <2>. SUFFICES ASSUME NEW i \in 1 .. Len(b) PROVE n + i \in 1 .. Len(msgs) /\ b[i] = msgs[n + i]
    BY <1>6
  <2>1. n + 1 <= Len(msgs)
    BY <1>5
  <2>. QED
    BY <1>1, <1>2, <1>5, <2>1
<1>9. Len(a) <= n
  BY <1>2, <1>4
<1>. QED
  BY <1>3, <1>4, <1>5, <1>7, <1>8, <1>9 DEF msgs, n

\* Where the messages of the next state come from.
LEMMA TranscriptSaid ==
    ASSUME TypeOK, NEW p \in Requests, Step(p), ~Reset(p)
    PROVE  Said(transcript') \subseteq Said(transcript) \cup Said(rec[p].messages)
<1>1. CASE transcript' = transcript
  BY <1>1
<1>2. CASE WriteMessages(p)
  <2>1. PICK a, b \in Seq(Message) :
           /\ transcript' = a \o b
           /\ \A i \in DOMAIN a : i \in DOMAIN transcript /\ a[i] = transcript[i]
           /\ \A i \in DOMAIN b : /\ rec[p].stored + i \in DOMAIN rec[p].messages
                                  /\ b[i] = rec[p].messages[rec[p].stored + i]
    BY <1>2, WriteSplits
  <2>2. /\ DOMAIN a = 1 .. Len(a) /\ DOMAIN b = 1 .. Len(b) /\ Len(a) \in Nat /\ Len(b) \in Nat
        /\ DOMAIN (a \o b) = 1 .. (Len(a) + Len(b))
        /\ \A i \in DOMAIN (a \o b) : (a \o b)[i] = IF i <= Len(a) THEN a[i] ELSE b[i - Len(a)]
    OBVIOUS
  <2>3. ASSUME NEW i \in DOMAIN (a \o b)
        PROVE  (a \o b)[i] \in Said(transcript) \cup Said(rec[p].messages)
    <3>1. CASE i <= Len(a)
      <4>1. i \in DOMAIN a /\ (a \o b)[i] = a[i]
        BY <2>2, <3>1
      <4>. QED
        BY <2>1, <4>1 DEF Said
    <3>2. CASE ~(i <= Len(a))
      <4>1. i - Len(a) \in DOMAIN b /\ (a \o b)[i] = b[i - Len(a)]
        BY <2>2, <3>2
      <4>. QED
        BY <2>1, <4>1 DEF Said
    <3>. QED
      BY <3>1, <3>2
  <2>. QED
    BY <2>1, <2>3 DEF Said
<1>. QED
  BY <1>1, <1>2, MessagesStep

LEMMA RecordSaid ==
    ASSUME TypeOK, NEW p \in Requests, Step(p), NEW m \in Said(rec'[p].messages)
    PROVE  \/ m \in Said(rec[p].messages)
           \/ ReadMessages(p) /\ m \in Said(transcript)
           \/ AppendUserTurn(p) /\ m = UserMessage(p)
           \/ Stream(p) /\ m = Reply(p)
<1>1. rec[p].messages \in Seq(Message) /\ UserMessage(p) \in Message /\ Reply(p) \in Message
  BY DEF TypeOK, Record, Document, UserMessage, Reply, Message, Roles
<1>2. /\ Said(Append(rec[p].messages, UserMessage(p))) = Said(rec[p].messages) \cup {UserMessage(p)}
      /\ Said(Append(rec[p].messages, Reply(p))) = Said(rec[p].messages) \cup {Reply(p)}
      /\ Said(<<>>) = {}
  BY <1>1, SaidFacts
<1>. QED
  BY <1>2, MessagesStep

LEMMA HeardStep ==
    ASSUME TypeOK, NEW p \in Requests, Step(p), ~Reset(p), NEW m \in Heard'
    PROVE  \/ m \in Heard
           \/ AppendUserTurn(p) /\ m = UserMessage(p)
           \/ Stream(p) /\ m = Reply(p)
<1>1. CASE m \in Said(transcript')
  BY <1>1, TranscriptSaid DEF Heard
<1>2. CASE m \in Said(rec'[p].messages)
  BY <1>2, RecordSaid DEF Heard
<1>3. ASSUME NEW q \in Requests \ {p}, m \in Said(rec'[q].messages) PROVE m \in Heard
  BY <1>3, DocumentStep DEF Heard
<1>. QED
  BY <1>1, <1>2, <1>3 DEF Heard

LEMMA StepRoute ==
    ASSUME TypeOK, CasInv, EventInv, NEW p \in Requests, Step(p), Calm', RouteRecord(p)
    PROVE  RouteRecord(p)'
<1>. SUFFICES ASSUME p \in Routes PROVE RouteRecord(p)'
  BY DEF RouteRecord
<1>0. /\ rec \in [Requests -> Record] /\ rec[p] \in Record /\ rec[p].doc \in Document
      /\ p \notin Turns
      /\ stage[p] = "request" /\ pc[p] # "adopting" /\ pc[p] # "streaming"
      /\ rec[p].stored = Len(rec[p].messages)
      /\ rec[p].doc.events \subseteq rec[p].base.events \cup {p}
      /\ ~Reset(p) /\ ~AssignState(p) /\ ~CheckVersion(p)
  BY RequestsAssumption, CalmStep DEF TypeOK, Record, RouteRecord, EventInv, OwnRecord
<1>. USE DEF TypeOK
<1>1. CASE ReadState(p)
  <2>1. rec'[p] \in {rec[p], LoadedRecord} /\ stage' = stage /\ pc'[p] \in {"unknown", "loading"}
    BY <1>0, <1>1 DEF ReadState
  <2>2. LoadedRecord.stored = Len(LoadedRecord.messages) /\ LoadedRecord.doc = LoadedRecord.base
    BY DEF LoadedRecord
  <2>. QED
    BY <1>0, <2>1, <2>2 DEF RouteRecord
<1>2. CASE ReadMessages(p) \/ WriteMessages(p)
  <2>1. /\ rec'[p].stored = Len(rec'[p].messages)
        /\ rec'[p].doc = rec[p].doc /\ rec'[p].base = rec[p].base
    <3>1. CASE ReadMessages(p)
      BY <1>0, <3>1 DEF ReadMessages, Record
    <3>2. CASE WriteMessages(p)
      BY <1>0, <3>2 DEF WriteMessages, Record
    <3>. QED
      BY <1>2, <3>1, <3>2
  <2>2. stage' = stage /\ pc'[p] # "adopting"
    BY <1>0, <1>2 DEF ReadMessages, WriteMessages, AfterSave
  <2>. QED
    BY <1>0, <2>1, <2>2 DEF RouteRecord
<1>3. CASE HandleRoute(p)
  <2>1. rec[p].doc.events = rec[p].base.events
    BY <1>3 DEF HandleRoute, EventInv, OwnRecord
  <2>2. /\ rec'[p].stored = rec[p].stored /\ rec'[p].messages = rec[p].messages
        /\ rec'[p].base = rec[p].base
        /\ \/ rec'[p].doc = [rec[p].doc EXCEPT !.events = @ \cup {p}]
           \/ rec'[p].doc = [rec[p].doc EXCEPT !.seen = @ \cup {p}]
           \/ rec'[p].doc = rec[p].doc
    <3>1. CASE rec' = [rec EXCEPT ![p].doc.events = @ \cup {p}]
      BY <1>0, <3>1 DEF Record
    <3>2. CASE rec' = [rec EXCEPT ![p].doc.seen = @ \cup {p}]
      BY <1>0, <3>2 DEF Record
    <3>3. CASE UNCHANGED rec
      BY <3>3
    <3>. QED
      BY <1>3, <3>1, <3>2, <3>3 DEF HandleRoute
  <2>4. rec'[p].doc.events \subseteq rec[p].base.events \cup {p}
    BY <1>0, <2>1, <2>2 DEF Document
  <2>5. stage' = stage /\ pc'[p] # "adopting"
    BY <1>3 DEF HandleRoute
  <2>. QED
    BY <1>0, <2>2, <2>4, <2>5 DEF RouteRecord
<1>4. CASE HandlerRaises(p) \/ SaveConflicts(p) \/ Crash(p)
  <2>1. rec'[p] = NewRecord /\ stage' = stage /\ pc'[p] \in {"failed", "refused", "crashed"}
    BY <1>0, <1>4 DEF HandlerRaises, SaveConflicts, Crash, Forget, AfterConflict
  <2>2. NewRecord.stored = Len(NewRecord.messages) /\ NewRecord.doc = NewRecord.base
    BY DEF NewRecord
  <2>. QED
    BY <1>0, <2>1, <2>2 DEF RouteRecord
<1>5. CASE SaveNothing(p)
  <2>1. rec' = rec /\ stage' = stage /\ pc'[p] # "adopting"
    BY <1>5 DEF SaveNothing, AfterSave
  <2>. QED
    BY <1>0, <2>1 DEF RouteRecord
<1>6. CASE SaveState(p)
  <2>1. /\ rec'[p].doc = rec[p].doc /\ rec'[p].base = rec[p].doc
        /\ rec'[p].stored = rec[p].stored /\ rec'[p].messages = rec[p].messages
    BY <1>0, <1>6 DEF SaveState, StoreDocument, Record
  <2>2. stage' = stage /\ pc'[p] # "adopting"
    BY <1>6 DEF SaveState, StoreDocument, AfterSave
  <2>. QED
    BY <1>0, <2>1, <2>2 DEF RouteRecord
<1>7. ~AppendUserTurn(p) /\ ~Stream(p) /\ ~Adopt(p)
  BY <1>0 DEF AppendUserTurn, Stream, Adopt
<1>. QED
  BY <1>0, <1>1, <1>2, <1>3, <1>4, <1>5, <1>6, <1>7 DEF Step

LEMMA StepTurn ==
    ASSUME TypeOK, CasInv, EventInv, NEW p \in Requests, Step(p), Calm', TurnRecord(p), OwnMessages(p)
    PROVE  TurnRecord(p)'
<1>. SUFFICES ASSUME p \in Turns PROVE TurnRecord(p)'
  BY DEF TurnRecord
<1>0. /\ rec \in [Requests -> Record] /\ rec[p] \in Record /\ rec[p].doc \in Document
      /\ rec[p].messages \in Seq(Message) /\ Len(rec[p].messages) \in Nat /\ rec[p].stored \in Nat
      /\ p \notin Routes
      /\ ~Reset(p) /\ ~AssignState(p) /\ ~CheckVersion(p)
  BY RequestsAssumption, CalmStep DEF TypeOK, Record
<1>. USE DEF TypeOK
<1>1. CASE ReadState(p)
  <2>1. pc[p] = "idle" /\ stage' = stage /\ stage[p] = "request"
    BY <1>1 DEF ReadState, EventInv, OwnRecord
  <2>2. \/ rec' = rec /\ pc'[p] = "unknown"
        \/ rec'[p] = LoadedRecord /\ pc'[p] = "loading"
    BY <1>0, <1>1 DEF ReadState
  <2>3. LoadedRecord.stored = Len(LoadedRecord.messages)
    BY DEF LoadedRecord
  <2>. QED
    BY <2>1, <2>2, <2>3 DEF TurnRecord
<1>2. CASE ReadMessages(p)
  <2>1. pc[p] = "loading" /\ stage' = stage /\ stage[p] = "request" /\ pc'[p] = "handling"
    BY <1>2 DEF ReadMessages, EventInv, OwnRecord
  <2>2. rec'[p].stored = Len(rec'[p].messages)
    BY <1>0, <1>2 DEF ReadMessages, Record
  <2>. QED
    BY <2>1, <2>2 DEF TurnRecord
<1>3. CASE AppendUserTurn(p)
  <2>1. /\ pc[p] = "handling" /\ stage' = stage /\ stage[p] = "request" /\ pc'[p] = "saving"
        /\ rec[p].doc = rec[p].base
    BY <1>3 DEF AppendUserTurn, EventInv, OwnRecord
  <2>2. /\ rec'[p].messages = Append(rec[p].messages, UserMessage(p))
        /\ rec'[p].doc = [rec[p].doc EXCEPT !.events = {}]
        /\ rec'[p].stored = rec[p].stored /\ rec'[p].base = rec[p].base
    BY <1>0, <1>3 DEF AppendUserTurn, Record
  <2>3. rec'[p].doc.events = {}
    BY <1>0, <2>2 DEF Document
  <2>4. rec[p].stored = Len(rec[p].messages)
    BY <2>1 DEF TurnRecord
  <2>5. \A i \in 1 .. rec[p].stored : rec[p].messages[i].by # p
    BY <1>0, <2>1, <2>4 DEF OwnMessages, Said
  <2>6. UserMessage(p).by = p /\ UserMessage(p).notes = rec[p].base.events
    BY <2>1 DEF UserMessage
  <2> DEFINE said == UserMessage(p)
  <2> HIDE DEF said
  <2>7. /\ Len(Append(rec[p].messages, said)) = rec[p].stored + 1
        /\ Append(rec[p].messages, said)[rec[p].stored + 1] = said
        /\ \A i \in 1 .. rec[p].stored : Append(rec[p].messages, said)[i] = rec[p].messages[i]
    BY <1>0, <2>4
  <2>8. LastIsMine(p)'
    BY <2>2, <2>5, <2>6, <2>7 DEF LastIsMine, said
  <2>. QED
    BY <2>1, <2>3, <2>8 DEF TurnRecord
<1>4. CASE HandlerRaises(p) \/ SaveConflicts(p) \/ Crash(p)
  <2>1. \/ rec' = rec /\ stage' = stage /\ stage[p] = "writeback" /\ pc[p] = "saving" /\ pc'[p] = "adopting"
        \/ /\ rec'[p] = NewRecord /\ stage' = stage
           /\ pc'[p] \in {"failed", "refused", "lost", "crashed"}
    BY <1>0, <1>4 DEF HandlerRaises, SaveConflicts, Crash, Forget, AfterConflict
  <2>2. NewRecord.stored = 0 /\ NewRecord.doc.events = {}
    BY DEF NewRecord, NewDocument
  <2>. QED
    BY <2>1, <2>2 DEF TurnRecord
<1>5. CASE SaveNothing(p)
  <2>1. pc[p] = "saving" /\ ~Grew(p)
    BY <1>5 DEF SaveNothing, Dirty
  <2>2. stage[p] # "request"
    BY <1>0, <2>1 DEF TurnRecord, LastIsMine, Grew
  <2>3. rec' = rec /\ stage' = stage /\ pc'[p] = "ok"
    BY <1>5, <2>2 DEF SaveNothing, AfterSave
  <2>. QED
    BY <2>1, <2>2, <2>3 DEF TurnRecord
<1>6. CASE SaveState(p)
  <2>1. /\ rec'[p].doc = rec[p].doc
        /\ rec'[p].stored = rec[p].stored /\ rec'[p].messages = rec[p].messages
    BY <1>0, <1>6 DEF SaveState, StoreDocument, Record
  <2>2. pc[p] = "saving" /\ stage' = stage /\ pc'[p] = IF Grew(p) THEN "appending" ELSE AfterSave(p)
    BY <1>6 DEF SaveState, StoreDocument
  <2>3. CASE stage[p] = "request"
    <3>1. LastIsMine(p)
      BY <2>2, <2>3 DEF TurnRecord
    <3>2. Grew(p)
      BY <1>0, <3>1 DEF LastIsMine, Grew
    <3>. QED
      BY <2>1, <2>2, <2>3, <3>1, <3>2 DEF TurnRecord, LastIsMine
  <2>4. CASE stage[p] # "request"
    BY <2>1, <2>2, <2>4 DEF TurnRecord, AfterSave
  <2>. QED
    BY <2>3, <2>4
<1>7. CASE WriteMessages(p)
  <2>1. /\ rec'[p].stored = Len(rec[p].messages) /\ rec'[p].messages = rec[p].messages
        /\ rec'[p].doc = rec[p].doc
    BY <1>0, <1>7 DEF WriteMessages, Record
  <2>2. pc[p] = "appending" /\ stage' = stage /\ pc'[p] \in {"streaming", "ok"}
    BY <1>7 DEF WriteMessages, AfterSave
  <2>. QED
    BY <1>0, <2>1, <2>2 DEF TurnRecord
<1>8. CASE Stream(p)
  <2>1. PICK replied, saw, cleared \in BOOLEAN :
           rec' = [rec EXCEPT ![p] = Streamed(p, replied, saw, cleared)]
    BY <1>8 DEF Stream
  <2>2. /\ rec'[p].doc = IF saw THEN [rec[p].doc EXCEPT !.seen = @ \cup {p}] ELSE rec[p].doc
        /\ rec'[p].messages = IF replied THEN Append(rec[p].messages, Reply(p)) ELSE rec[p].messages
        /\ rec'[p].stored = IF cleared THEN 0 ELSE rec[p].stored
    BY <1>0, <2>1 DEF Streamed, Revised, Record
  <2>3. pc[p] = "streaming" /\ pc'[p] = "saving" /\ stage'[p] = "writeback"
    BY <1>8 DEF Stream
  <2>4. rec[p].doc.events = {} /\ rec[p].stored = Len(rec[p].messages)
    BY <2>3 DEF TurnRecord
  <2>5. rec'[p].doc.events = {}
    BY <1>0, <2>2, <2>4 DEF Document
  <2> DEFINE said == Reply(p)
  <2>6. said.role = "assistant"
    BY DEF Reply
  <2> HIDE DEF said
  <2>7. /\ Len(Append(rec[p].messages, said)) = Len(rec[p].messages) + 1
        /\ Append(rec[p].messages, said)[Len(rec[p].messages) + 1] = said
    BY <1>0
  <2>8. \/ rec'[p].stored = 0
        \/ \A i \in rec'[p].stored + 1 .. Len(rec'[p].messages) : rec'[p].messages[i].role = "assistant"
    <3>1. CASE cleared
      BY <2>2, <3>1
    <3>2. CASE ~cleared /\ ~replied
      BY <1>0, <2>2, <2>4, <3>2
    <3>3. CASE ~cleared /\ replied
      <4>1. rec'[p].messages = Append(rec[p].messages, said) /\ rec'[p].stored = Len(rec[p].messages)
        BY <2>2, <2>4, <3>3 DEF said
      <4>2. \A i \in rec'[p].stored + 1 .. Len(rec'[p].messages) : i = Len(rec[p].messages) + 1
        BY <1>0, <2>7, <4>1
      <4>. QED
        BY <2>6, <2>7, <4>1, <4>2
    <3>. QED
      BY <3>1, <3>2, <3>3
  <2>. QED
    BY <2>3, <2>5, <2>8 DEF TurnRecord
<1>9. CASE Adopt(p)
  <2>1. /\ rec'[p].doc = rec[p].doc /\ rec'[p].messages = rec[p].messages
        /\ rec'[p].stored = rec[p].stored
    BY <1>0, <1>9 DEF Adopt, Record
  <2>2. pc[p] = "adopting" /\ pc'[p] = "saving" /\ stage'[p] = "forced"
    BY <1>9 DEF Adopt
  <2>. QED
    BY <2>1, <2>2 DEF TurnRecord
<1>10. ~HandleRoute(p)
  BY <1>0 DEF HandleRoute
<1>. QED
  BY <1>0, <1>1, <1>2, <1>3, <1>4, <1>5, <1>6, <1>7, <1>8, <1>9, <1>10 DEF Step

LEMMA StepOwnMessages ==
    ASSUME TypeOK, CasInv, TraceInv, EventInv, NEW p \in Requests, Step(p), Calm', OwnMessages(p), Silent(p)
    PROVE  OwnMessages(p)'
<1>0. rec \in [Requests -> Record] /\ rec[p] \in Record
  BY DEF TypeOK
<1>1. ASSUME Unwritten(p)', NEW m \in Said(rec'[p].messages) PROVE p \notin m.notes
  <2>1. Unwritten(p)
    BY <1>1, OwnStepUnwritten
  <2>2. CASE m \in Said(rec[p].messages)
    BY <2>1, <2>2 DEF OwnMessages
  <2>3. CASE m \in Said(transcript)
    <3>1. transcript \in Seq(CleanMessage(p))
      BY <2>1 DEF TraceInv, StoreClean
    <3>2. m \in CleanMessage(p)
      BY <2>3, <3>1 DEF Said
    <3>. QED
      BY <3>2 DEF CleanMessage
  <2>4. CASE AppendUserTurn(p) /\ m = UserMessage(p)
    <3>1. rec[p].doc = rec[p].base /\ rec[p].base \in CleanDoc(p)
      BY <2>1, <2>4 DEF AppendUserTurn, EventInv, OwnRecord
    <3>. QED
      BY <2>4, <3>1 DEF UserMessage, CleanDoc
  <2>5. CASE m = Reply(p)
    BY <2>5 DEF Reply
  <2>. QED
    BY <1>1, <2>2, <2>3, <2>4, <2>5, RecordSaid
<1>2. ASSUME pc'[p] \in {"loading", "handling"}, NEW m \in Said(rec'[p].messages) PROVE m.by # p
  <2>1. ReadState(p) \/ ReadMessages(p)
    <3>1. ~SaveNothing(p) /\ ~SaveState(p) /\ ~WriteMessages(p)
      BY <1>2 DEF SaveNothing, SaveState, StoreDocument, WriteMessages, AfterSave, TypeOK
    <3>2. ~SaveConflicts(p)
      BY <1>2 DEF SaveConflicts, AfterConflict, TypeOK
    <3>3. ~AppendUserTurn(p) /\ ~HandleRoute(p) /\ ~HandlerRaises(p) /\ ~Stream(p) /\ ~Adopt(p) /\ ~Crash(p)
      BY <1>2 DEF AppendUserTurn, HandleRoute, HandlerRaises, Stream, Adopt, Crash, TypeOK
    <3>. QED
      BY <3>1, <3>2, <3>3, CalmStep DEF Step
  <2>2. CASE ReadState(p)
    <3>1. rec'[p] = LoadedRecord
      BY <1>0, <1>2, <2>2 DEF ReadState, TypeOK
    <3>. QED
      BY <1>2, <3>1 DEF LoadedRecord, Said
  <2>3. CASE ReadMessages(p)
    <3>1. rec'[p].messages = transcript /\ Unwritten(p)
      BY <1>0, <2>3 DEF ReadMessages, Unwritten, Record
    <3>. QED
      BY <1>2, <3>1 DEF Silent, Unposted
  <2>. QED
    BY <2>1, <2>2, <2>3
<1>. QED
  BY <1>1, <1>2 DEF OwnMessages

\* The transcript and the other records are silent of a turn until it writes its message.
LEMMA StepSilent ==
    ASSUME TypeOK, CasInv, EventInv, NEW p \in Requests, Step(p), Calm', NEW r \in Requests, Silent(r)
    PROVE  Silent(r)'
<1>. SUFFICES ASSUME Unposted(r)'
              PROVE  /\ \A m \in Said(transcript') : m.by # r
                     /\ \A q \in Requests \ {r} : \A m \in Said(rec'[q].messages) : m.by # r
  BY DEF Silent
<1>0. ~Reset(p) /\ ~AssignState(p)
  BY CalmStep
<1>1. CASE p = r
  <2>1. Unposted(r) /\ transcript' = transcript
    <3>1. CASE Unwritten(r)'
      BY <1>1, <3>1, OwnStepUnwritten DEF Unposted
    <3>2. CASE ~Unwritten(r)'
      <4>1. pc'[r] = "appending" /\ stage'[r] = "request"
        BY <3>2 DEF Unposted
      <4>2. ~ReadState(r) /\ ~ReadMessages(r) /\ ~AppendUserTurn(r) /\ ~HandleRoute(r) /\ ~HandlerRaises(r)
        BY <4>1 DEF ReadState, ReadMessages, AppendUserTurn, HandleRoute, HandlerRaises, TypeOK
      <4>3. ~SaveNothing(r) /\ ~CheckVersion(r) /\ ~WriteMessages(r)
        BY <4>1 DEF SaveNothing, CheckVersion, WriteMessages, AfterSave, TypeOK
      <4>4. ~SaveConflicts(r)
        BY <4>1 DEF SaveConflicts, AfterConflict, TypeOK
      <4>5. ~Stream(r) /\ ~Adopt(r) /\ ~Crash(r)
        BY <4>1 DEF Stream, Adopt, Crash, TypeOK
      <4>6. SaveState(r)
        BY <1>0, <1>1, <4>2, <4>3, <4>4, <4>5 DEF Step
      <4>. QED
        BY <4>1, <4>6 DEF SaveState, StoreDocument, Unposted, Unwritten
    <3>. QED
      BY <3>1, <3>2
  <2>. QED
    BY <1>1, <2>1, DocumentStep DEF Silent
<1>2. CASE p # r
  <2>1. Unposted(r)
    BY <1>2, OthersStay DEF Unposted, Unwritten
  <2>2. \A m \in Said(transcript) \cup Said(rec[p].messages) : m.by # r
    BY <1>2, <2>1 DEF Silent
  <2>3. UserMessage(p).by = p /\ Reply(p).by = p
    BY DEF UserMessage, Reply
  <2>4. \A m \in Said(rec'[p].messages) : m.by # r
    BY <1>2, <2>2, <2>3, RecordSaid
  <2>. QED
    BY <1>0, <2>1, <2>2, <2>4, TranscriptSaid, DocumentStep DEF Silent
<1>. QED
  BY <1>1, <1>2

LEMMA JoinOnce ==
    ASSUME NEW a \in Seq(Message), NEW b \in Seq(Message), UserOnce(a), UserOnce(b),
           \A i \in DOMAIN a, j \in DOMAIN b : b[j].role = "user" => a[i].by # b[j].by
    PROVE  UserOnce(a \o b)
<1>1. /\ DOMAIN a = 1 .. Len(a) /\ DOMAIN b = 1 .. Len(b) /\ Len(a) \in Nat /\ Len(b) \in Nat
      /\ DOMAIN (a \o b) = 1 .. (Len(a) + Len(b))
      /\ \A i \in DOMAIN (a \o b) : (a \o b)[i] = IF i <= Len(a) THEN a[i] ELSE b[i - Len(a)]
  OBVIOUS
<1> DEFINE ab == a \o b
<1>2. ASSUME NEW i \in DOMAIN ab
      PROVE  \/ i \in DOMAIN a /\ ab[i] = a[i]
             \/ i > Len(a) /\ i - Len(a) \in DOMAIN b /\ ab[i] = b[i - Len(a)]
  <2>1. CASE i <= Len(a)
    BY <1>1, <2>1
  <2>2. CASE ~(i <= Len(a))
    BY <1>1, <2>2
  <2>. QED
    BY <2>1, <2>2
<1>3. DOMAIN ab \subseteq Int
  BY <1>1
<1> HIDE DEF ab
<1>4. ASSUME NEW i \in DOMAIN ab, NEW j \in DOMAIN ab, i # j, ab[i].role = "user", ab[j].role = "user"
      PROVE  ab[i].by # ab[j].by
  <2>1. CASE i \in DOMAIN a /\ ab[i] = a[i] /\ j \in DOMAIN a /\ ab[j] = a[j]
    BY <1>4, <2>1 DEF UserOnce
  <2>2. CASE /\ i > Len(a) /\ i - Len(a) \in DOMAIN b /\ ab[i] = b[i - Len(a)]
             /\ j > Len(a) /\ j - Len(a) \in DOMAIN b /\ ab[j] = b[j - Len(a)]
    <3>1. i - Len(a) # j - Len(a)
      BY <1>1, <1>3, <1>4
    <3>. QED
      BY <1>4, <2>2, <3>1 DEF UserOnce
  <2>3. CASE i \in DOMAIN a /\ ab[i] = a[i] /\ j - Len(a) \in DOMAIN b /\ ab[j] = b[j - Len(a)]
    BY <1>4, <2>3
  <2>4. CASE j \in DOMAIN a /\ ab[j] = a[j] /\ i - Len(a) \in DOMAIN b /\ ab[i] = b[i - Len(a)]
    BY <1>4, <2>4
  <2>. QED
    BY <1>2, <2>1, <2>2, <2>3, <2>4
<1>. QED
  BY <1>4 DEF UserOnce, ab

\* No write brings a turn's message into a sequence that has it.
LEMMA StepOnce ==
    ASSUME TypeOK, CasInv, EventInv, NEW p \in Requests, Step(p), Calm', Once,
           RouteRecord(p), TurnRecord(p), OwnMessages(p), Silent(p)
    PROVE  Once'
<1>0. /\ transcript \in Seq(Message) /\ rec[p].messages \in Seq(Message) /\ rec[p].stored \in Nat
      /\ UserMessage(p) \in Message /\ Reply(p) \in Message
      /\ UserOnce(transcript) /\ UserOnce(rec[p].messages)
  BY DEF TypeOK, Record, Document, UserMessage, Reply, Message, Roles, Once
<1>1. UserOnce(rec'[p].messages)
  <2>1. UserOnce(<<>>)
    BY DEF UserOnce
  <2>2. ASSUME NEW m \in Message,
               m.role = "user" => \A i \in DOMAIN rec[p].messages : rec[p].messages[i].by # m.by
        PROVE  UserOnce(Append(rec[p].messages, m))
    <3>1. /\ Append(rec[p].messages, m) = rec[p].messages \o <<m>>
          /\ <<m>> \in Seq(Message) /\ DOMAIN <<m>> = {1} /\ <<m>>[1] = m
      BY <1>0
    <3>2. UserOnce(<<m>>)
      BY <3>1 DEF UserOnce
    <3>. QED
      BY <1>0, <2>2, <3>1, <3>2, JoinOnce
  <2>3. AppendUserTurn(p) => UserOnce(Append(rec[p].messages, UserMessage(p)))
    <3>1. UserMessage(p).by = p
      BY DEF UserMessage
    <3>2. AppendUserTurn(p) => \A i \in DOMAIN rec[p].messages : rec[p].messages[i].by # p
      BY DEF AppendUserTurn, OwnMessages, Said
    <3>. QED
      BY <1>0, <2>2, <3>1, <3>2
  <2>4. UserOnce(Append(rec[p].messages, Reply(p)))
    <3>1. Reply(p).role # "user"
      BY DEF Reply
    <3>. QED
      BY <1>0, <2>2, <3>1
  <2>. QED
    BY <1>0, <2>1, <2>3, <2>4, MessagesStep
<1>2. CASE WriteMessages(p)
  <2>1. PICK a, b \in Seq(Message) :
           /\ transcript' = a \o b
           /\ Len(a) <= rec[p].stored
           /\ \A i \in DOMAIN a : i \in DOMAIN transcript /\ a[i] = transcript[i]
           /\ \A i \in DOMAIN b : /\ rec[p].stored + i \in DOMAIN rec[p].messages
                                  /\ b[i] = rec[p].messages[rec[p].stored + i]
    BY <1>2, WriteSplits
  <2>2. UserOnce(a)
    BY <1>0, <2>1 DEF UserOnce
  <2>3. UserOnce(b)
    <3>1. \A i, j \in DOMAIN b : i # j => rec[p].stored + i # rec[p].stored + j
      BY <1>0
    <3>2. ASSUME NEW i \in DOMAIN b, NEW j \in DOMAIN b, i # j, b[i].role = "user", b[j].role = "user"
          PROVE  b[i].by # b[j].by
      <4> DEFINE k == rec[p].stored + i
                 l == rec[p].stored + j
                 msgs == rec[p].messages
      <4>1. k \in DOMAIN msgs /\ l \in DOMAIN msgs /\ k # l /\ b[i] = msgs[k] /\ b[j] = msgs[l]
        BY <2>1, <3>1, <3>2
      <4>2. UserOnce(msgs)
        BY <1>0
      <4> HIDE DEF k, l, msgs
      <4>. QED
        BY <3>2, <4>1, <4>2 DEF UserOnce
    <3>. QED
      BY <3>2 DEF UserOnce
  <2>4. /\ DOMAIN b = 1 .. Len(b) /\ DOMAIN a = 1 .. Len(a) /\ Len(a) \in Nat /\ Len(b) \in Nat
        /\ DOMAIN rec[p].messages = 1 .. Len(rec[p].messages) /\ Len(rec[p].messages) \in Nat
    BY <1>0
  <2>5. ASSUME NEW i \in DOMAIN a, NEW j \in DOMAIN b, b[j].role = "user" PROVE a[i].by # b[j].by
    <3>1. rec[p].stored + j \in DOMAIN rec[p].messages /\ j >= 1 /\ pc[p] = "appending"
      <4>1. pc[p] = "appending"
        BY <1>2 DEF WriteMessages
      <4>2. rec[p].stored + j \in DOMAIN rec[p].messages
        BY <2>1
      <4>3. j >= 1
        BY <2>4
      <4>. QED
        BY <4>1, <4>2, <4>3
    <3>2. p \in Turns
      BY <1>0, <2>4, <3>1 DEF RouteRecord, Requests
    <3>3. CASE stage[p] = "request"
      <4>1. Len(rec[p].messages) = rec[p].stored + 1 /\ rec[p].messages[Len(rec[p].messages)].by = p
        BY <3>1, <3>2, <3>3 DEF TurnRecord
      <4>2. rec[p].stored + j = Len(rec[p].messages)
        BY <1>0, <2>4, <3>1, <4>1
      <4>3. b[j].by = p
        BY <2>1, <4>1, <4>2
      <4>4. a[i].by # p
        BY <2>1, <3>1, <3>3 DEF Silent, Unposted, Said
      <4>. QED
        BY <4>3, <4>4
    <3>4. CASE stage[p] # "request"
      <4>1. CASE rec[p].stored = 0
        BY <2>1, <2>4, <4>1
      <4>2. CASE \A k \in rec[p].stored + 1 .. Len(rec[p].messages) : rec[p].messages[k].role = "assistant"
        <5>1. rec[p].stored + j \in rec[p].stored + 1 .. Len(rec[p].messages)
          BY <1>0, <2>4, <3>1
        <5>. QED
          BY <2>1, <2>5, <4>2, <5>1
      <4>. QED
        BY <3>2, <3>4, <4>1, <4>2 DEF TurnRecord
    <3>. QED
      BY <3>3, <3>4
  <2>6. UserOnce(a \o b)
    BY <2>2, <2>3, <2>5, JoinOnce
  <2>. QED
    BY <1>1, <2>1, <2>6, DocumentStep DEF Once
<1>3. CASE ~WriteMessages(p)
  BY <1>1, <1>3, MessagesStep, DocumentStep, CalmStep DEF Once
<1>. QED
  BY <1>2, <1>3

\* A turn tells what it empties, and no message that may be read tells what is queued.
LEMMA StepNotes ==
    ASSUME TypeOK, CasInv, TraceInv, EventInv, NEW p \in Requests, Step(p), Calm', NoteInv
    PROVE  TurnsSpeak' /\ NotesApart' /\ NotesUnqueued'
<1>0. /\ Calm /\ ~Reset(p) /\ ~AssignState(p) /\ ~CheckVersion(p)
      /\ RouteRecord(p) /\ TurnRecord(p) /\ OwnMessages(p) /\ Silent(p)
      /\ TurnsSpeak /\ NotesApart /\ NotesUnqueued
  BY CalmStep DEF NoteInv
<1>1. Turns \cap Routes = {} /\ Requests = Turns \cup Routes
  BY RequestsAssumption DEF Requests
<1>2. ASSUME NEW m \in Heard', m \notin Heard
      PROVE  /\ m.by = p /\ p \in Turns
             /\ m.role = "assistant" => m.notes = {}
             /\ Unwritten(p)' \/ m.notes = {}
  <2>1. CASE AppendUserTurn(p) /\ m = UserMessage(p)
    <3>1. p \in Turns /\ pc'[p] = "saving" /\ stage'[p] = "request"
      BY <2>1 DEF AppendUserTurn, EventInv, OwnRecord, TypeOK
    <3>. QED
      BY <2>1, <3>1 DEF UserMessage, Unwritten
  <2>2. CASE Stream(p) /\ m = Reply(p)
    BY <2>2 DEF Stream, Reply, EventInv, OwnRecord
  <2>. QED
    BY <1>0, <1>2, <2>1, <2>2, HeardStep
<1>3. TurnsSpeak'
  BY <1>0, <1>2 DEF TurnsSpeak
\* A message that can be read for the first time: its turn's first save replaces what it read.
<1>4. ASSUME NEW m \in Heard, Unwritten(m.by), ~Unwritten(m.by)'
      PROVE  /\ SaveState(p) /\ m.by = p /\ p \in Turns
             /\ m.notes = states.doc.events
  <2>1. m.by \in Turns /\ m.by \in Requests
    BY <1>0, <1>1 DEF TurnsSpeak
  <2>2. /\ p = m.by /\ pc[p] = "saving" /\ stage[p] = "request"
        /\ SaveState(p) \/ SaveNothing(p)
    BY <1>4, <2>1, FirstWrite
  <2>3. LastIsMine(p)
    BY <1>0, <2>1, <2>2 DEF TurnRecord
  <2>4. /\ rec[p].messages \in Seq(Message) /\ Len(rec[p].messages) \in Nat /\ rec[p].stored \in Nat
        /\ DOMAIN rec[p].messages = 1 .. Len(rec[p].messages)
    BY DEF TypeOK, Record
  <2>5. SaveState(p)
    BY <2>2, <2>3, <2>4 DEF LastIsMine, SaveNothing, Dirty, Grew
  <2>6. m \in Said(rec[p].messages)
    BY <1>0, <1>4, <2>2 DEF Heard, Silent, Unposted
  <2>7. PICK k \in 1 .. Len(rec[p].messages) : m = rec[p].messages[k]
    BY <2>4, <2>6 DEF Said
  <2>8. k = Len(rec[p].messages)
    <3>1. /\ Len(rec[p].messages) = rec[p].stored + 1
          /\ \A i \in 1 .. rec[p].stored : rec[p].messages[i].by # p
      BY <2>3 DEF LastIsMine
    <3>2. k \notin 1 .. rec[p].stored
      BY <2>2, <2>7, <3>1
    <3>. QED
      BY <2>4, <3>1, <3>2
  <2>9. m.notes = rec[p].base.events
    BY <2>3, <2>7, <2>8 DEF LastIsMine
  <2>10. rec[p].base = states.doc
    <3>1. rec[p].epoch = epoch
      BY <1>0 DEF CasInv, TypeOK, Record, Calm
    <3>. QED
      BY <1>0, <2>2, <2>5, <3>1 DEF CasInv, LevelWithStore, Holding, SaveState, Calm
  <2>. QED
    BY <2>1, <2>2, <2>5, <2>9, <2>10
<1>5. ASSUME NEW m \in Heard', NEW n \in Heard', m.by # n.by,
             ~Unwritten(m.by)', ~Unwritten(n.by)'
      PROVE  m.notes \cap n.notes = {}
  <2>1. CASE m \notin Heard \/ n \notin Heard
    BY <1>2, <1>5, <2>1
  <2>2. CASE m \in Heard /\ n \in Heard
    <3>1. CASE ~Unwritten(m.by) /\ ~Unwritten(n.by)
      BY <1>0, <1>5, <2>2, <3>1 DEF NotesApart
    <3>2. CASE Unwritten(m.by)
      <4>1. ~Unwritten(n.by) /\ m.notes = states.doc.events
        BY <1>4, <1>5, <2>2, <3>2
      <4>. QED
        BY <1>0, <2>2, <4>1 DEF NotesUnqueued
    <3>3. CASE Unwritten(n.by)
      <4>1. ~Unwritten(m.by) /\ n.notes = states.doc.events
        BY <1>4, <1>5, <2>2, <3>3
      <4>. QED
        BY <1>0, <2>2, <4>1 DEF NotesUnqueued
    <3>. QED
      BY <3>1, <3>2, <3>3
  <2>. QED
    BY <2>1, <2>2
<1>6. ASSUME NEW m \in Heard', ~Unwritten(m.by)'
      PROVE  m.notes \cap states'.doc.events = {}
  <2>1. CASE m \notin Heard
    BY <1>2, <1>6, <2>1
  <2>2. CASE m \in Heard /\ SaveState(p) /\ p \in Turns
    <3>1. states'.doc.events = rec[p].doc.events /\ pc[p] = "saving"
      BY <2>2 DEF SaveState, StoreDocument
    <3>. QED
      BY <1>0, <2>2, <3>1 DEF TurnRecord
  <2>3. CASE m \in Heard /\ SaveState(p) /\ p \in Routes
    <3>1. /\ states'.doc.events = rec[p].doc.events /\ pc[p] = "saving" /\ stage[p] = "request"
          /\ rec[p].doc.events \subseteq rec[p].base.events \cup {p}
          /\ states.version = rec[p].version
      BY <1>0, <2>3 DEF SaveState, StoreDocument, RouteRecord
    <3>2. rec[p].epoch = epoch
      BY <1>0 DEF CasInv, TypeOK, Record, Calm
    <3>3. rec[p].base = states.doc
      BY <1>0, <3>1, <3>2 DEF CasInv, LevelWithStore, Holding, Calm
    <3>4. Unwritten(p)
      BY <3>1 DEF Unwritten
    <3>5. p \notin m.notes
      <4>1. CASE m \in Said(rec[p].messages)
        BY <1>0, <3>4, <4>1 DEF OwnMessages
      <4>2. CASE m \in Said(transcript)
        <5>1. transcript \in Seq(CleanMessage(p))
          BY <3>4 DEF TraceInv, StoreClean
        <5>2. m \in CleanMessage(p)
          BY <4>2, <5>1 DEF Said
        <5>. QED
          BY <5>2 DEF CleanMessage
      <4>3. ASSUME NEW q \in Requests \ {p}, m \in Said(rec[q].messages) PROVE p \notin m.notes
        <5>1. rec[q].messages \in Seq(CleanMessage(p))
          BY <3>4 DEF TraceInv, RecordClean
        <5>2. m \in CleanMessage(p)
          BY <4>3, <5>1 DEF Said
        <5>. QED
          BY <5>2 DEF CleanMessage
      <4>. QED
        BY <2>3, <4>1, <4>2, <4>3 DEF Heard
    <3>6. ~Unwritten(m.by)
      BY <1>1, <1>4, <1>6, <2>3
    <3>7. m.notes \cap states.doc.events = {}
      BY <1>0, <2>3, <3>6 DEF NotesUnqueued
    <3>. QED
      BY <3>1, <3>3, <3>5, <3>7
  <2>4. CASE m \in Heard /\ ~SaveState(p)
    <3>1. states' = states
      BY <1>0, <2>4, DocumentStep
    <3>. QED
      BY <1>0, <1>4, <1>6, <2>4, <3>1 DEF NotesUnqueued
  <2>. QED
    BY <1>1, <2>1, <2>2, <2>3, <2>4
<1>. QED
  BY <1>3, <1>5, <1>6 DEF NotesApart, NotesUnqueued

LEMMA StepNoteInv ==
    ASSUME TypeOK, CasInv, TraceInv, EventInv, NoteInv, NEW p \in Requests, Step(p)
    PROVE  NoteInv'
<1>. SUFFICES ASSUME Calm'
              PROVE  /\ \A r \in Requests : (RouteRecord(r) /\ TurnRecord(r) /\ OwnMessages(r) /\ Silent(r))'
                     /\ Once' /\ TurnsSpeak' /\ NotesApart' /\ NotesUnqueued'
  BY DEF NoteInv
<1>0. /\ \A r \in Requests : RouteRecord(r) /\ TurnRecord(r) /\ OwnMessages(r) /\ Silent(r)
      /\ Once
  BY CalmStep DEF NoteInv
<1>1. ASSUME NEW r \in Requests
      PROVE  RouteRecord(r)' /\ TurnRecord(r)' /\ OwnMessages(r)' /\ Silent(r)'
  <2>1. CASE r = p
    BY <1>0, <2>1, StepRoute, StepTurn, StepOwnMessages, StepSilent
  <2>2. CASE r # p
    <3>1. rec'[r] = rec[r] /\ pc'[r] = pc[r] /\ stage'[r] = stage[r]
      BY <2>2, OthersStay, DocumentStep
    <3>2. RouteRecord(r)' /\ TurnRecord(r)' /\ OwnMessages(r)'
      BY <1>0, <3>1 DEF RouteRecord, TurnRecord, LastIsMine, OwnMessages, Unwritten
    <3>. QED
      BY <1>0, <3>2, StepSilent
  <2>. QED
    BY <2>1, <2>2
<1>. QED
  BY <1>0, <1>1, StepOnce, StepNotes

\* No event is told to the model twice, whichever turns race, die or force their write-back
\* (append_user_turn, save, write_messages).
THEOREM EventsToldOnce == Spec => []ToldOnce
<1>1. Init => NoteInv
  <2>. SUFFICES ASSUME Init PROVE NoteInv
    OBVIOUS
  <2>1. /\ transcript = <<>> /\ \A r \in Requests : rec[r] = NewRecord /\ pc[r] = "idle" /\ stage[r] = "request"
    BY DEF Init
  <2>2. NewRecord.messages = <<>> /\ NewRecord.stored = 0 /\ NewRecord.doc.events = {}
    BY DEF NewRecord, NewDocument
  <2>3. Said(<<>>) = {} /\ UserOnce(<<>>)
    BY DEF Said, UserOnce
  <2>4. Heard = {}
    BY <2>1, <2>2, <2>3 DEF Heard
  <2>5. Once /\ TurnsSpeak /\ NotesApart /\ NotesUnqueued
    BY <2>1, <2>2, <2>3, <2>4 DEF Once, TurnsSpeak, NotesApart, NotesUnqueued
  <2>6. ASSUME NEW r \in Requests PROVE RouteRecord(r) /\ TurnRecord(r) /\ OwnMessages(r) /\ Silent(r)
    BY <2>1, <2>2, <2>3 DEF RouteRecord, TurnRecord, OwnMessages, Silent
  <2>. QED
    BY <2>5, <2>6 DEF NoteInv
<1>2. TypeOK /\ CasInv /\ TraceInv /\ EventInv /\ NoteInv /\ [Next]_vars => NoteInv'
  <2>1. CASE UNCHANGED vars
    BY <2>1 DEF vars, NoteInv, Calm, RouteRecord, TurnRecord, LastIsMine, OwnMessages, Silent, Unposted,
                Unwritten, Once, TurnsSpeak, NotesApart, NotesUnqueued, Heard
  <2>. QED
    BY <2>1, StepNoteInv DEF Next
<1>3. TypeOK /\ TraceInv /\ NoteInv => ToldOnce
  <2>. SUFFICES ASSUME TypeOK, TraceInv, NoteInv, Calm, NEW i \in DOMAIN transcript, NEW j \in DOMAIN transcript, i # j
                PROVE  transcript[i].notes \cap transcript[j].notes = {}
    BY DEF ToldOnce, Calm
  <2> DEFINE m == transcript[i]
             n == transcript[j]
  <2>1. m \in Heard /\ n \in Heard /\ m \in Said(transcript) /\ n \in Said(transcript)
    BY DEF Heard, Said
  <2>2. m \in Message /\ n \in Message
    BY DEF TypeOK
  <2>3. CASE m.role = "assistant" \/ n.role = "assistant"
    BY <2>1, <2>3 DEF NoteInv, TurnsSpeak
  <2>4. CASE m.role = "user" /\ n.role = "user"
    <3>1. m.by # n.by
      BY <2>4 DEF NoteInv, Once, UserOnce
    <3>2. m.by \in Requests /\ n.by \in Requests
      BY <2>2 DEF Message
    <3>3. ~Unwritten(m.by) /\ ~Unwritten(n.by)
      BY <2>1, <3>2 DEF NoteInv, Silent, Unposted
    <3>. QED
      BY <2>1, <3>1, <3>3 DEF NoteInv, NotesApart
  <2>5. m.role \in {"user", "assistant"} /\ n.role \in {"user", "assistant"}
    BY <2>2 DEF Message, Roles
  <2>. QED
    BY <2>3, <2>4, <2>5
<1>. QED
  BY <1>1, <1>2, <1>3, EventsHold, SessionTypes, PTL DEF Spec

-----------------------------------------------------------------------------
(***************************************************************************)
(* A settled turn is stored.  While no two turns have overlapped, the turn *)
(* in flight holds all that the transcript holds, and what it holds beyond *)
(* it is its own: so a write, from whatever stored length on, replaces the *)
(* transcript by the turn's messages.  A settled turn's messages stay its  *)
(* beginning, since whoever writes next has read them.  Routes are no part *)
(* of it: they never have a message to write.  A reset ends every claim,   *)
(* since no record is of the epoch it starts; and a turn of an old epoch   *)
(* can write into the new one only before any other has settled there.     *)
(***************************************************************************)
RouteQuiet(r) ==
    /\ rec[r].stored = Len(rec[r].messages)
    /\ pc[r] \notin {"appending", "streaming"}

\* A turn's own messages are the last of its record: the user's, and the reply if there is one.
Busy == {"saving", "storing", "appending", "streaming", "adopting", "ok"}

SpeaksAt(messages, t, k, answered) ==
    /\ messages[k].by = t /\ messages[k].role = "user"
    /\ \A i \in 1 .. k - 1 : messages[i].by # t
    /\ Len(messages) \in {k, k + 1}
    /\ Len(messages) = k + 1 =>
          answered /\ messages[k + 1].by = t /\ messages[k + 1].role = "assistant"

Speaks(t) ==
    /\ pc[t] \in {"idle", "loading", "handling", "streaming"} => stage[t] = "request"
    /\ pc[t] = "handling" => \A i \in DOMAIN rec[t].messages : rec[t].messages[i].by # t
    /\ pc[t] \in Busy =>
          \E k \in DOMAIN rec[t].messages : SpeaksAt(rec[t].messages, t, k, stage[t] # "request")

Before(a, b) == Len(a) <= Len(b) /\ \A i \in 1 .. Len(a) : a[i] = b[i]

Synced(t) ==
    /\ Before(transcript, rec[t].messages)
    /\ rec[t].stored <= Len(transcript)
    /\ \A i \in Len(transcript) + 1 .. Len(rec[t].messages) : rec[t].messages[i].by = t

Kept(t) ==
    /\ Before(rec[t].messages, transcript)
    /\ \A i \in Len(rec[t].messages) + 1 .. Len(transcript) : transcript[i].by # t

OneByOne ==
    ~overlapped =>
        /\ \A t, u \in Turns : Unsettled(t) /\ Unsettled(u) => t = u
        /\ \A t, u \in Turns : Unsettled(t) /\ pc[u] = "ok" => rec[u].epoch <= rec[t].epoch
        /\ \A t \in Turns :
              Unsettled(t) /\ pc[t] # "loading" /\ rec[t].epoch = epoch => Synced(t)
        /\ \A t \in Turns : pc[t] = "ok" /\ rec[t].epoch = epoch => Kept(t)

PostInv ==
    /\ \A r \in Routes : RouteQuiet(r)
    /\ \A t \in Turns : Speaks(t)
    /\ OneByOne

\* What a step of p does to its messages, to the transcript and to the epoch.
Still == UNCHANGED <<transcript, epoch, overlapped>>
SameMessages(p) ==
    rec'[p].messages = rec[p].messages /\ rec'[p].epoch = rec[p].epoch

Ends(p) ==
    /\ Still
    /\ pc'[p] \in {"unknown", "failed", "refused", "lost", "crashed"}
    /\ rec'[p] = NewRecord \/ (rec'[p] = rec[p] /\ pc[p] = "idle")
Starts(p) ==
    /\ UNCHANGED <<transcript, epoch, stage>>
    /\ overlapped' = (overlapped \/ (p \in Turns /\ \E t \in Requests : Unsettled(t)))
    /\ pc[p] = "idle" /\ pc'[p] = "loading"
    /\ rec'[p].messages = <<>> /\ rec'[p].stored = 0 /\ rec'[p].epoch = epoch
Reads(p) ==
    /\ Still /\ UNCHANGED stage
    /\ pc[p] = "loading" /\ pc'[p] = "handling"
    /\ rec'[p].messages = transcript /\ rec'[p].stored = Len(transcript)
    /\ rec'[p].epoch = rec[p].epoch
Posts(p) ==
    /\ Still /\ UNCHANGED stage
    /\ p \in Turns /\ pc[p] = "handling" /\ pc'[p] = "saving"
    /\ rec'[p].messages = Append(rec[p].messages, UserMessage(p))
    /\ rec'[p].stored = rec[p].stored /\ rec'[p].epoch = rec[p].epoch
Keeps(p) ==
    /\ Still /\ SameMessages(p) /\ rec'[p].stored = rec[p].stored
    /\ stage' = stage \/ (pc[p] = "adopting" /\ stage'[p] = "forced")
    /\ pc[p] \in {"saving", "storing", "adopting"} \/ (pc[p] = "handling" /\ p \in Routes)
    /\ pc'[p] \in {"saving", "storing", "adopting", "appending", "streaming", "ok"}
    /\ pc'[p] = "appending" => Grew(p)
    /\ pc'[p] \in {"streaming", "ok"} => ~Grew(p) /\ stage' = stage
    /\ pc'[p] = "streaming" => p \in Turns /\ stage[p] = "request"
Writes(p) ==
    /\ WriteMessages(p)
    /\ pc[p] = "appending" /\ UNCHANGED <<epoch, overlapped, stage>>
    /\ SameMessages(p) /\ rec'[p].stored = Len(rec[p].messages)
    /\ pc'[p] \in {"streaming", "ok"}
    /\ pc'[p] = "streaming" => p \in Turns /\ stage[p] = "request"
Streams(p) ==
    /\ Still
    /\ pc[p] = "streaming" /\ pc'[p] = "saving" /\ stage'[p] = "writeback"
    /\ rec'[p].messages \in {rec[p].messages, Append(rec[p].messages, Reply(p))}
    /\ rec'[p].stored \in {0, rec[p].stored} /\ rec'[p].epoch = rec[p].epoch
Resets(p) ==
    /\ p \in Routes
    /\ epoch' = epoch + 1 /\ UNCHANGED <<rec, stage, overlapped>>
    /\ pc[p] = "handling" /\ pc'[p] = "ok"

LEMMA PostStep ==
    ASSUME TypeOK, NEW p \in Requests, Step(p)
    PROVE  \/ Ends(p) \/ Starts(p) \/ Reads(p) \/ Posts(p) \/ Keeps(p)
           \/ Writes(p) \/ Streams(p) \/ Resets(p)
<1>0. rec \in [Requests -> Record] /\ rec[p] \in Record
  BY DEF TypeOK
<1>. USE DEF TypeOK
<1>1. CASE ReadState(p)
  <2>1. CASE states.version = 0
    BY <1>0, <1>1, <2>1 DEF ReadState, Ends, Still
  <2>2. CASE states.version # 0
    <3>1. /\ rec'[p] = LoadedRecord
          /\ pc'[p] = "loading" /\ pc[p] = "idle" /\ UNCHANGED <<transcript, epoch, stage>>
      BY <1>0, <1>1, <2>2 DEF ReadState
    <3>2. /\ LoadedRecord.messages = <<>> /\ LoadedRecord.stored = 0
          /\ LoadedRecord.epoch = epoch
      BY DEF LoadedRecord
    <3>3. overlapped' = (overlapped \/ (p \in Turns /\ \E t \in Requests : Unsettled(t)))
      BY <1>1, <2>2, Zenon DEF ReadState
    <3>. QED
      BY <3>1, <3>2, <3>3 DEF Starts
  <2>. QED
    BY <2>1, <2>2
<1>2. CASE ReadMessages(p)
  BY <1>0, <1>2 DEF ReadMessages, Record, Reads, Still
<1>3. CASE AppendUserTurn(p)
  BY <1>0, <1>3 DEF AppendUserTurn, Record, Posts, Still
<1>4. CASE HandleRoute(p)
  <2>1. /\ rec'[p].messages = rec[p].messages /\ rec'[p].stored = rec[p].stored
        /\ rec'[p].epoch = rec[p].epoch
    <3>1. CASE rec' = [rec EXCEPT ![p].doc.events = @ \cup {p}]
      BY <1>0, <3>1 DEF Record
    <3>2. CASE rec' = [rec EXCEPT ![p].doc.seen = @ \cup {p}]
      BY <1>0, <3>2 DEF Record
    <3>3. CASE UNCHANGED rec
      BY <3>3
    <3>. QED
      BY <1>4, <3>1, <3>2, <3>3 DEF HandleRoute
  <2>. QED
    BY <1>4, <2>1 DEF HandleRoute, Keeps, SameMessages, Still
<1>5. CASE Reset(p)
  BY <1>5 DEF Reset, Resets
<1>6. CASE HandlerRaises(p) \/ Crash(p)
  BY <1>0, <1>6 DEF HandlerRaises, Crash, Forget, Ends, Still
<1>7. CASE SaveConflicts(p)
  <2>1. CASE stage[p] = "writeback"
    BY <1>7, <2>1 DEF SaveConflicts, AfterConflict, Keeps, SameMessages, Still
  <2>2. CASE stage[p] # "writeback"
    BY <1>0, <1>7, <2>2 DEF SaveConflicts, AfterConflict, Forget, Ends, Still
  <2>. QED
    BY <2>1, <2>2
<1>8. CASE SaveNothing(p)
  BY <1>8 DEF SaveNothing, AfterSave, Dirty, Keeps, SameMessages, Still
<1>9. CASE CheckVersion(p)
  BY <1>9 DEF CheckVersion, Keeps, SameMessages, Still
<1>10. CASE SaveState(p) \/ AssignState(p)
  <2>1. /\ rec'[p].messages = rec[p].messages /\ rec'[p].stored = rec[p].stored
        /\ rec'[p].epoch = rec[p].epoch
    BY <1>0, <1>10 DEF SaveState, AssignState, StoreDocument, Record
  <2>2. /\ pc[p] \in {"saving", "storing"} /\ UNCHANGED <<transcript, epoch, overlapped, stage>>
        /\ pc'[p] = IF Grew(p) THEN "appending" ELSE AfterSave(p)
    BY <1>10 DEF SaveState, AssignState, StoreDocument
  <2>. QED
    BY <2>1, <2>2 DEF AfterSave, Keeps, SameMessages, Still
<1>11. CASE WriteMessages(p)
  <2>1. SameMessages(p) /\ rec'[p].stored = Len(rec[p].messages)
    BY <1>0, <1>11 DEF WriteMessages, Record, SameMessages
  <2>2. pc[p] = "appending" /\ UNCHANGED <<epoch, overlapped, stage>> /\ pc'[p] = AfterSave(p)
    BY <1>11 DEF WriteMessages
  <2>. QED
    BY <1>11, <2>1, <2>2 DEF AfterSave, Writes
<1>12. CASE Stream(p)
  <2>1. PICK replied, saw, cleared \in BOOLEAN :
           rec' = [rec EXCEPT ![p] = Streamed(p, replied, saw, cleared)]
    BY <1>12 DEF Stream
  <2>2. /\ rec'[p].messages = IF replied THEN Append(rec[p].messages, Reply(p)) ELSE rec[p].messages
        /\ rec'[p].stored = IF cleared THEN 0 ELSE rec[p].stored
        /\ rec'[p].epoch = rec[p].epoch
    BY <1>0, <2>1 DEF Streamed, Revised, Record
  <2>3. rec'[p].messages \in {rec[p].messages, Append(rec[p].messages, Reply(p))}
    BY <2>2
  <2>4. rec'[p].stored \in {0, rec[p].stored}
    BY <2>2
  <2>5. pc[p] = "streaming" /\ pc'[p] = "saving" /\ stage'[p] = "writeback" /\ Still
    BY <1>12 DEF Stream, Still
  <2>. QED
    BY <2>2, <2>3, <2>4, <2>5 DEF Streams
<1>13. CASE Adopt(p)
  <2>1. SameMessages(p) /\ rec'[p].stored = rec[p].stored
    BY <1>0, <1>13 DEF Adopt, Record, SameMessages
  <2>. QED
    BY <1>13, <2>1 DEF Adopt, Keeps, Still
<1>. QED
  BY <1>1, <1>2, <1>3, <1>4, <1>5, <1>6, <1>7, <1>8, <1>9, <1>10, <1>11, <1>12, <1>13 DEF Step

LEMMA StepQuiet ==
    ASSUME TypeOK, NEW p \in Routes, Step(p), RouteQuiet(p)
    PROVE  RouteQuiet(p)'
<1>0. /\ p \in Requests /\ p \notin Turns
      /\ Len(rec[p].messages) \in Nat /\ rec[p].stored \in Nat
      /\ rec[p].messages \in Seq(Message)
  BY RequestsAssumption DEF Requests, TypeOK, Record
<1>1. NewRecord.stored = Len(NewRecord.messages)
  BY DEF NewRecord
<1>. QED
  BY <1>0, <1>1, PostStep DEF RouteQuiet, Ends, Starts, Reads, Posts, Keeps, Grew, SameMessages,
     Writes, Streams, Resets

LEMMA StepSpeaks ==
    ASSUME TypeOK, TraceInv, NEW p \in Turns, Step(p), Speaks(p)
    PROVE  Speaks(p)'
<1> DEFINE m == rec[p].messages
<1>0. /\ p \in Requests /\ p \notin Routes
      /\ m \in Seq(Message) /\ Len(m) \in Nat /\ DOMAIN m = 1 .. Len(m)
      /\ UserMessage(p) \in Message /\ Reply(p) \in Message
  <2>1. p \in Requests /\ p \notin Routes
    BY RequestsAssumption DEF Requests
  <2>2. m \in Seq(Message) /\ UserMessage(p) \in Message /\ Reply(p) \in Message
    BY <2>1 DEF TypeOK, Record, Document, UserMessage, Reply, Message, Roles
  <2>. QED
    BY <2>1, <2>2
<1>1. CASE Ends(p)
  BY <1>1 DEF Ends, Speaks, Busy
<1>2. CASE Starts(p)
  BY <1>2 DEF Starts, Speaks, Busy
<1>3. CASE Reads(p)
  <2>1. Unwritten(p)
    BY <1>3 DEF Reads, Unwritten
  <2>2. \A i \in DOMAIN transcript : transcript[i].by # p
    <3>1. transcript \in Seq(CleanMessage(p))
      BY <1>0, <2>1 DEF TraceInv, StoreClean
    <3>2. \A i \in DOMAIN transcript : transcript[i] \in CleanMessage(p)
      BY <3>1
    <3>. QED
      BY <3>2 DEF CleanMessage
  <2>. QED
    BY <1>3, <2>2 DEF Reads, Speaks, Busy
<1>4. CASE Posts(p)
  <2> DEFINE said == UserMessage(p)
  <2>1. said.by = p /\ said.role = "user"
    BY DEF UserMessage
  <2> HIDE DEF said
  <2>2. /\ Len(Append(m, said)) = Len(m) + 1
        /\ DOMAIN Append(m, said) = 1 .. Len(m) + 1
        /\ Append(m, said)[Len(m) + 1] = said
        /\ \A i \in 1 .. Len(m) : Append(m, said)[i] = m[i]
    BY <1>0
  <2>3. \A i \in 1 .. Len(m) : m[i].by # p
    BY <1>0, <1>4 DEF Posts, Speaks
  <2>4. rec'[p].messages = Append(m, said) /\ pc'[p] = "saving"
    BY <1>4 DEF Posts, said
  <2> HIDE DEF m
  <2>5. SpeaksAt(rec'[p].messages, p, Len(m) + 1, stage'[p] # "request")
    BY <1>0, <2>1, <2>2, <2>3, <2>4 DEF SpeaksAt
  <2>6. Len(m) + 1 \in DOMAIN rec'[p].messages
    BY <1>0, <2>2, <2>4
  <2>. QED
    BY <2>4, <2>5, <2>6 DEF Speaks, Busy
<1>5. CASE Keeps(p) \/ Writes(p)
  <2>1. /\ rec'[p].messages = m
        /\ stage'[p] = stage[p] \/ stage'[p] # "request"
        /\ pc[p] \in Busy /\ pc'[p] \in Busy
        /\ pc'[p] = "streaming" => stage'[p] = "request"
    BY <1>0, <1>5 DEF Keeps, Writes, SameMessages, Busy
  <2>2. PICK k \in DOMAIN m : SpeaksAt(m, p, k, stage[p] # "request")
    BY <2>1 DEF Speaks
  <2>3. SpeaksAt(m, p, k, stage'[p] # "request")
    BY <2>1, <2>2 DEF SpeaksAt
  <2>. QED
    BY <2>1, <2>3 DEF Speaks, Busy
<1>6. CASE Streams(p)
  <2>1. pc[p] = "streaming" /\ pc'[p] = "saving" /\ stage'[p] # "request" /\ stage[p] = "request"
    BY <1>6 DEF Streams, Speaks
  <2>2. PICK k \in DOMAIN m : SpeaksAt(m, p, k, stage[p] # "request")
    BY <2>1 DEF Speaks, Busy
  <2>3. Len(m) = k
    BY <2>1, <2>2 DEF SpeaksAt
  <2> DEFINE said == Reply(p)
  <2>4. said.by = p /\ said.role = "assistant"
    BY DEF Reply
  <2>5. rec'[p].messages = m \/ rec'[p].messages = Append(m, said)
    BY <1>6 DEF Streams
  <2> HIDE DEF said
  <2>6. /\ Len(Append(m, said)) = Len(m) + 1
        /\ DOMAIN Append(m, said) = 1 .. Len(m) + 1
        /\ Append(m, said)[Len(m) + 1] = said
        /\ \A i \in 1 .. Len(m) : Append(m, said)[i] = m[i]
    BY <1>0
  <2> HIDE DEF m
  <2>7. CASE rec'[p].messages = m
    <3>1. SpeaksAt(m, p, k, stage'[p] # "request")
      BY <2>1, <2>2 DEF SpeaksAt
    <3>. QED
      BY <2>1, <2>7, <3>1 DEF Speaks
  <2>8. CASE rec'[p].messages = Append(m, said)
    <3>1. k \in 1 .. Len(m) /\ \A i \in 1 .. k - 1 : i \in 1 .. Len(m)
      BY <1>0, <2>3
    <3>2. SpeaksAt(Append(m, said), p, k, stage'[p] # "request")
      BY <1>0, <2>1, <2>2, <2>3, <2>4, <2>6, <3>1 DEF SpeaksAt
    <3>3. k \in DOMAIN Append(m, said)
      BY <1>0, <2>6, <3>1
    <3>. QED
      BY <2>1, <2>8, <3>2, <3>3 DEF Speaks
  <2>. QED
    BY <2>5, <2>7, <2>8
<1>7. ~Resets(p)
  BY <1>0 DEF Resets
<1>. QED
  BY <1>0, <1>1, <1>2, <1>3, <1>4, <1>5, <1>6, <1>7, PostStep

\* The write of a request that holds all the transcript holds leaves the request's messages.
LEMMA WriteReplaces ==
    ASSUME TypeOK, NEW p \in Requests, WriteMessages(p),
           Before(transcript, rec[p].messages), rec[p].stored <= Len(transcript)
    PROVE  /\ Len(transcript') = Len(rec[p].messages)
           /\ \A i \in 1 .. Len(rec[p].messages) : transcript'[i] = rec[p].messages[i]
<1> DEFINE msgs == rec[p].messages
           n == rec[p].stored
           a == SubSeq(transcript, 1, n)
           b == SubSeq(msgs, n + 1, Len(msgs))
<1>1. msgs \in Seq(Message) /\ n \in Nat /\ transcript \in Seq(Message)
  BY DEF TypeOK, Record
<1>2. /\ Len(transcript) \in Nat /\ Len(msgs) \in Nat
      /\ n <= Len(transcript) /\ Len(transcript) <= Len(msgs)
      /\ \A i \in 1 .. Len(transcript) : transcript[i] = msgs[i]
  BY <1>1 DEF Before
<1>3. transcript' = a \o b
  <2>1. (IF n < Len(transcript) THEN n ELSE Len(transcript)) = n
    BY <1>1, <1>2
  <2>. QED
    BY <2>1 DEF WriteMessages
<1> HIDE DEF msgs, n
<1>4. a \in Seq(Message) /\ Len(a) = n /\ \A i \in 1 .. n : a[i] = transcript[i]
  <2>1. \A i \in 1 .. n : transcript[i] \in Message
    BY <1>1, <1>2, ElementOfSeq
  <2>. QED
    BY <1>1, <1>2, <2>1, SubSeqProperties
<1>5. /\ b \in Seq(Message) /\ Len(b) = Len(msgs) - n
      /\ \A i \in 1 .. Len(msgs) - n : b[i] = msgs[n + i]
  <2>1. \A i \in n + 1 .. Len(msgs) : msgs[i] \in Message
    BY <1>1, <1>2, ElementOfSeq
  <2>2. n + 1 \in Int /\ Len(msgs) \in Int
    BY <1>1, <1>2
  <2>3. /\ b \in Seq(Message)
        /\ Len(b) = IF n + 1 <= Len(msgs) THEN Len(msgs) - (n + 1) + 1 ELSE 0
        /\ \A i \in 1 .. Len(msgs) - (n + 1) + 1 : b[i] = msgs[n + 1 + i - 1]
    BY <1>1, <1>2, <2>1, <2>2, SubSeqProperties
  <2> HIDE DEF b
  <2>. QED
    BY <1>1, <1>2, <2>3
<1> HIDE DEF a, b
<1>6. Len(transcript') = Len(msgs)
  <2>1. Len(a \o b) = n + (Len(msgs) - n)
    BY <1>4, <1>5, ConcatProperties
  <2>. QED
    BY <1>1, <1>2, <1>3, <2>1
<1>7. ASSUME NEW i \in 1 .. Len(msgs) PROVE transcript'[i] = msgs[i]
  <2>0. /\ i \in 1 .. Len(a) + Len(b) /\ Len(a) = n
        /\ \A k \in 1 .. Len(a) + Len(b) : (a \o b)[k] = IF k <= Len(a) THEN a[k] ELSE b[k - Len(a)]
    <3>1. a \in Seq(Message) /\ b \in Seq(Message) /\ Len(a) = n /\ Len(b) = Len(msgs) - n
      BY <1>4, <1>5
    <3>2. \A k \in 1 .. Len(a) + Len(b) : (a \o b)[k] = IF k <= Len(a) THEN a[k] ELSE b[k - Len(a)]
      BY <3>1, ConcatProperties
    <3>3. Len(a) + Len(b) = Len(msgs)
      BY <1>1, <1>2, <3>1
    <3>. QED
      BY <3>1, <3>2, <3>3
  <2>1. CASE i <= n
    <3>1. (a \o b)[i] = a[i]
      BY <2>0, <2>1
    <3>2. i \in 1 .. n /\ i \in 1 .. Len(transcript)
      BY <1>1, <1>2, <2>1
    <3>. QED
      BY <1>2, <1>3, <1>4, <3>1, <3>2
  <2>2. CASE ~(i <= n)
    <3>1. i - n \in 1 .. Len(msgs) - n /\ n + (i - n) = i
      BY <1>1, <1>2, <2>2
    <3>2. (a \o b)[i] = b[i - n]
      BY <2>0, <2>2
    <3>. QED
      BY <1>3, <1>5, <3>1, <3>2
  <2>. QED
    BY <2>1, <2>2
<1>. QED
  BY <1>6, <1>7 DEF msgs

\* The turn that moves: in flight it stays level with the transcript, and it settles level.
LEMMA MoverSynced ==
    ASSUME TypeOK, NEW p \in Turns, Step(p),
           Unsettled(p) /\ pc[p] # "loading" /\ rec[p].epoch = epoch => Synced(p),
           rec'[p].epoch = epoch'
    PROVE  /\ pc'[p] \in InFlight /\ pc'[p] # "loading" => Synced(p)'
           /\ pc'[p] = "ok" => Kept(p)'
<1> DEFINE m == rec[p].messages
<1>0. /\ p \in Requests /\ p \notin Routes
      /\ m \in Seq(Message) /\ Len(m) \in Nat /\ rec[p].stored \in Nat
      /\ transcript \in Seq(Message) /\ Len(transcript) \in Nat
      /\ UserMessage(p).by = p /\ Reply(p).by = p
  BY RequestsAssumption DEF Requests, TypeOK, Record, UserMessage, Reply
<1>1. CASE Ends(p) \/ Starts(p)
  BY <1>1 DEF Ends, Starts, InFlight
<1>2. CASE Reads(p)
  BY <1>0, <1>2 DEF Reads, Still, Synced, Before
\* In every other case the turn was level before the step.
<1>3. ~Ends(p) /\ ~Starts(p) /\ ~Reads(p) => Synced(p) /\ rec'[p].epoch = rec[p].epoch
  BY <1>0, PostStep DEF Posts, Keeps, Writes, Streams, Resets, Still, SameMessages, Unsettled, InFlight
<1>4. ASSUME NEW said, said.by = p, Synced(p), transcript' = transcript,
             rec'[p].messages = Append(m, said), rec'[p].stored \in {0, rec[p].stored}
      PROVE  Synced(p)'
  <2>1. /\ Len(Append(m, said)) = Len(m) + 1
        /\ Append(m, said)[Len(m) + 1] = said
        /\ \A i \in 1 .. Len(m) : Append(m, said)[i] = m[i]
    BY <1>0
  <2> HIDE DEF m
  <2>2. /\ Len(transcript) <= Len(m) /\ \A i \in 1 .. Len(transcript) : transcript[i] = m[i]
        /\ rec[p].stored <= Len(transcript)
        /\ \A i \in Len(transcript) + 1 .. Len(m) : m[i].by = p
    BY <1>4 DEF Synced, Before, m
  <2>3. ASSUME NEW i \in Len(transcript) + 1 .. Len(m) + 1 PROVE Append(m, said)[i].by = p
    <3>1. i = Len(m) + 1 \/ i \in Len(transcript) + 1 .. Len(m)
      BY <1>0
    <3>2. i = Len(m) + 1 \/ i \in 1 .. Len(m)
      BY <1>0
    <3>. QED
      BY <1>4, <2>1, <2>2, <3>1, <3>2
  <2>4. Before(transcript, Append(m, said))
    BY <1>0, <2>1, <2>2 DEF Before
  <2>5. rec'[p].stored <= Len(transcript)
    BY <1>0, <1>4, <2>2
  <2>. QED
    BY <1>4, <2>1, <2>3, <2>4, <2>5 DEF Synced
<1>5. CASE Posts(p)
  BY <1>0, <1>3, <1>4, <1>5 DEF Posts, Ends, Starts, Reads, Still
<1>6. CASE Streams(p)
  <2>1. Synced(p)
    BY <1>3, <1>6 DEF Streams, Ends, Starts, Reads
  <2>2. CASE rec'[p].messages = m
    BY <1>0, <1>6, <2>1, <2>2 DEF Streams, Still, Synced, Before
  <2>3. CASE rec'[p].messages = Append(m, Reply(p))
    BY <1>0, <1>4, <1>6, <2>1, <2>3 DEF Streams, Still
  <2>4. pc'[p] = "saving"
    BY <1>6 DEF Streams
  <2>. QED
    BY <1>6, <2>2, <2>3, <2>4 DEF Streams
<1>7. CASE Keeps(p)
  <2>1. Synced(p)
    BY <1>0, <1>3, <1>7 DEF Keeps, Ends, Starts, Reads
  <2>2. transcript' = transcript /\ rec'[p].messages = m /\ rec'[p].stored = rec[p].stored
    BY <1>7 DEF Keeps, Still, SameMessages
  <2>3. Synced(p)'
    BY <2>1, <2>2 DEF Synced, Before
  <2>4. CASE pc'[p] = "ok"
    <3>1. ~(rec[p].stored < Len(m))
      BY <1>7, <2>4 DEF Keeps, Grew
    <3>2. Len(transcript) = Len(m)
      BY <1>0, <2>1, <3>1 DEF Synced, Before
    <3>. QED
      BY <1>0, <2>1, <2>2, <2>3, <2>4, <3>2 DEF Synced, Kept, Before
  <2>. QED
    BY <2>3, <2>4
<1>8. CASE Writes(p)
  <2>1. Synced(p)
    BY <1>3, <1>8 DEF Writes, Ends, Starts, Reads
  <2>2. /\ Len(transcript') = Len(m)
        /\ \A i \in 1 .. Len(m) : transcript'[i] = m[i]
    BY <1>0, <1>8, <2>1, WriteReplaces DEF Writes, Synced
  <2>3. rec'[p].messages = m /\ rec'[p].stored = Len(m)
    BY <1>8 DEF Writes, SameMessages
  <2> HIDE DEF m
  <2>. QED
    BY <1>0, <2>2, <2>3 DEF Synced, Kept, Before
<1>9. ~Resets(p)
  BY <1>0 DEF Resets
<1>. QED
  BY <1>0, <1>1, <1>2, <1>5, <1>6, <1>7, <1>8, <1>9, PostStep

\* A turn that has settled is kept by the write of any turn level with the transcript.
LEMMA WriteKeeps ==
    ASSUME TypeOK, NEW p \in Turns, Writes(p), Synced(p),
           NEW u \in Turns, u # p, Kept(u), rec'[u] = rec[u]
    PROVE  Kept(u)'
<1> DEFINE m == rec[p].messages
           w == rec[u].messages
<1>0. /\ p \in Requests /\ u \in Requests
      /\ Len(m) \in Nat /\ Len(w) \in Nat /\ Len(transcript) \in Nat
  BY DEF Requests, TypeOK, Record
<1>1. /\ Len(transcript') = Len(m)
      /\ \A i \in 1 .. Len(m) : transcript'[i] = m[i]
  BY <1>0, WriteReplaces DEF Writes, Synced
<1>2. /\ Len(transcript) <= Len(m) /\ \A i \in 1 .. Len(transcript) : transcript[i] = m[i]
      /\ \A i \in Len(transcript) + 1 .. Len(m) : m[i].by = p
  BY DEF Synced, Before
<1>3. /\ Len(w) <= Len(transcript) /\ \A i \in 1 .. Len(w) : w[i] = transcript[i]
      /\ \A i \in Len(w) + 1 .. Len(transcript) : transcript[i].by # u
      /\ rec'[u].messages = w
  BY DEF Kept, Before
<1> HIDE DEF m, w
<1>4. ASSUME NEW i \in Len(w) + 1 .. Len(m) PROVE transcript'[i].by # u
  <2>1. i \in 1 .. Len(m) /\ (i \in Len(w) + 1 .. Len(transcript) \/ i \in Len(transcript) + 1 .. Len(m))
    BY <1>0, <1>2, <1>3
  <2>2. i \in Len(w) + 1 .. Len(transcript) => i \in 1 .. Len(transcript)
    BY <1>0
  <2>. QED
    BY <1>1, <1>2, <1>3, <2>1, <2>2
<1>5. Len(w) <= Len(m) /\ \A i \in 1 .. Len(w) : w[i] = transcript'[i]
  <2>1. \A i \in 1 .. Len(w) : i \in 1 .. Len(transcript) /\ i \in 1 .. Len(m)
    BY <1>0, <1>2, <1>3
  <2>. QED
    BY <1>0, <1>1, <1>2, <1>3, <2>1
<1>. QED
  BY <1>1, <1>3, <1>4, <1>5 DEF Kept, Before

LEMMA StepOneByOne ==
    ASSUME TypeOK, CasInv, PostInv, NEW p \in Requests, Step(p), ~overlapped'
    PROVE  OneByOne'
<1>0. /\ \A r \in Requests : rec[r].epoch \in Nat /\ rec[r].epoch <= epoch
      /\ epoch \in Nat
      /\ \A r \in Requests \ {p} : rec'[r] = rec[r] /\ pc'[r] = pc[r] /\ stage'[r] = stage[r]
      /\ p \in Routes => p \notin Turns
      /\ \A t \in Turns : t \in Requests
  BY DocumentStep, OthersStay, RequestsAssumption DEF TypeOK, Record, CasInv, Requests
<1>1. /\ ~overlapped
      /\ Starts(p) /\ p \in Turns => \A t \in Requests : ~Unsettled(t)
  BY PostStep DEF Ends, Starts, Reads, Posts, Keeps, Writes, Streams, Resets, Still
<1>2. /\ \A t, u \in Turns : Unsettled(t) /\ Unsettled(u) => t = u
      /\ \A t, u \in Turns : Unsettled(t) /\ pc[u] = "ok" => rec[u].epoch <= rec[t].epoch
      /\ \A t \in Turns : Unsettled(t) /\ pc[t] # "loading" /\ rec[t].epoch = epoch => Synced(t)
      /\ \A t \in Turns : pc[t] = "ok" /\ rec[t].epoch = epoch => Kept(t)
  BY <1>1 DEF PostInv, OneByOne
\* A turn that is in flight after the step, and was not before, has just started.
<1>3. ASSUME NEW t \in Turns, Unsettled(t)', ~Unsettled(t)
      PROVE  t = p /\ Starts(p)
  <2>1. pc'[t] \in InFlight /\ pc[t] \notin InFlight
    BY <1>3 DEF Unsettled
  <2>2. t = p
    BY <1>0, <2>1
  <2>. QED
    BY <1>0, <2>1, <2>2, PostStep DEF Ends, Reads, Posts, Keeps, Writes, Streams, Resets, InFlight
<1>4. ASSUME NEW t \in Turns, pc'[t] = "ok", pc[t] # "ok"
      PROVE  t = p /\ Unsettled(p)
  <2>1. t = p
    BY <1>0, <1>4
  <2>. QED
    BY <1>0, <1>4, <2>1, PostStep
       DEF Ends, Starts, Reads, Posts, Keeps, Writes, Streams, Resets, Unsettled, InFlight
<1>5. ASSUME NEW r \in Requests, ~Starts(p) \/ r # p
      PROVE  rec'[r].epoch = rec[r].epoch \/ (r = p /\ Ends(p))
  BY <1>0, <1>5, PostStep DEF Reads, Posts, Keeps, Writes, Streams, Resets, SameMessages
<1>6. ASSUME NEW t \in Turns, NEW u \in Turns, Unsettled(t)', Unsettled(u)' PROVE t = u
  BY <1>1, <1>2, <1>3, <1>6, <1>0
<1>7. ASSUME NEW t \in Turns, NEW u \in Turns, Unsettled(t)', pc'[u] = "ok"
      PROVE  rec'[u].epoch <= rec'[t].epoch
  <2>1. t # u /\ pc'[t] \in InFlight
    BY <1>7 DEF Unsettled, InFlight
  <2>2. ~(t = p /\ Ends(p)) /\ ~(u = p /\ Ends(p)) /\ ~(u = p /\ Starts(p))
    BY <1>7, <2>1 DEF Ends, Starts, InFlight
  <2>3. rec'[u].epoch = rec[u].epoch
    BY <1>0, <1>5, <2>2
  <2>4. CASE Unsettled(t)
    <3>1. pc[u] = "ok"
      BY <1>2, <1>4, <1>7, <2>1, <2>4
    <3>2. ~(t = p /\ Starts(p))
      BY <2>4 DEF Starts, Unsettled, InFlight
    <3>3. rec'[t].epoch = rec[t].epoch
      BY <1>0, <1>5, <2>2, <3>2
    <3>. QED
      BY <1>2, <2>3, <2>4, <3>1, <3>3
  <2>5. CASE ~Unsettled(t)
    <3>1. rec'[t].epoch = epoch
      BY <1>3, <1>7, <2>5 DEF Starts
    <3>. QED
      BY <1>0, <2>3, <3>1
  <2>. QED
    BY <2>4, <2>5
\* After a reset no record is of the new epoch.
<1>8. Resets(p) => \A t \in Turns : rec'[t].epoch # epoch'
  BY <1>0 DEF Resets
<1>9. ~Resets(p) => epoch' = epoch
  BY PostStep DEF Ends, Starts, Reads, Posts, Keeps, Writes, Streams, Still
<1>10. ~Resets(p) /\ ~Writes(p) => transcript' = transcript
  BY PostStep DEF Ends, Starts, Reads, Posts, Keeps, Streams, Still
<1>11. Writes(p) => p \in Turns
  BY DEF Writes, PostInv, RouteQuiet, Requests
<1>12. ASSUME NEW t \in Turns, Unsettled(t)', pc'[t] # "loading", rec'[t].epoch = epoch'
       PROVE  Synced(t)'
  <2>0. pc'[t] \in InFlight /\ ~Resets(p)
    BY <1>8, <1>12 DEF Unsettled
  <2>1. CASE t = p
    BY <1>2, <1>12, <2>0, <2>1, MoverSynced
  <2>2. CASE t # p
    <3>1. rec'[t] = rec[t] /\ pc'[t] = pc[t] /\ Unsettled(t)
      BY <1>0, <1>12, <2>2 DEF Unsettled
    <3>2. ~Writes(p)
      BY <1>2, <1>11, <2>2, <3>1 DEF Writes, Unsettled, InFlight
    <3>3. transcript' = transcript /\ epoch' = epoch
      BY <1>9, <1>10, <2>0, <3>2
    <3>4. Synced(t)
      BY <1>2, <1>12, <3>1, <3>3
    <3>. QED
      BY <3>1, <3>3, <3>4 DEF Synced
  <2>. QED
    BY <2>1, <2>2
<1>13. ASSUME NEW t \in Turns, pc'[t] = "ok", rec'[t].epoch = epoch'
       PROVE  Kept(t)'
  <2>0. ~Resets(p) /\ epoch' = epoch
    BY <1>8, <1>9, <1>13
  <2>1. CASE t = p
    BY <1>2, <1>13, <2>1, MoverSynced
  <2>2. CASE t # p
    <3>1. rec'[t] = rec[t] /\ pc'[t] = pc[t]
      BY <1>0, <2>2
    <3>2. Kept(t)
      BY <1>2, <1>13, <2>0, <3>1
    <3>3. CASE Writes(p)
      <4>1. p \in Turns /\ Unsettled(p) /\ pc[p] # "loading"
        BY <1>11, <3>3 DEF Writes, Unsettled, InFlight
      <4>2. rec[t].epoch <= rec[p].epoch
        BY <1>2, <1>13, <3>1, <4>1
      <4>3. rec[p].epoch = epoch
        BY <1>0, <1>13, <2>0, <3>1, <4>2
      <4>4. Synced(p)
        BY <1>2, <4>1, <4>3
      <4>. QED
        BY <2>2, <3>1, <3>2, <3>3, <4>1, <4>4, WriteKeeps
    <3>4. CASE ~Writes(p)
      <4>1. transcript' = transcript
        BY <1>10, <2>0, <3>4
      <4>. QED
        BY <3>1, <3>2, <4>1 DEF Kept
    <3>. QED
      BY <3>3, <3>4
  <2>. QED
    BY <2>1, <2>2
<1>. QED
  BY <1>6, <1>7, <1>12, <1>13 DEF OneByOne

\* What a settled turn's record says of itself, and that the transcript begins with it, is
\* what is promised of the transcript.
LEMMA KeptIsStored ==
    ASSUME NEW t, NEW m \in Seq(Message), NEW s \in Seq(Message), Before(m, s),
           \A i \in Len(m) + 1 .. Len(s) : s[i].by # t,
           NEW k \in DOMAIN m, NEW answered, SpeaksAt(m, t, k, answered)
    PROVE  /\ Of(t, "user", s) = {k} /\ Of(t, "user", m) = {k} /\ s[k] = m[k]
           /\ Of(t, "assistant", s) = IF Of(t, "assistant", m) = {} THEN {} ELSE {k + 1}
<1>1. /\ Len(m) \in Nat /\ Len(s) \in Nat /\ DOMAIN m = 1 .. Len(m) /\ DOMAIN s = 1 .. Len(s)
      /\ Len(m) <= Len(s) /\ \A i \in 1 .. Len(m) : m[i] = s[i]
  BY DEF Before
<1>2. /\ m[k].by = t /\ m[k].role = "user" /\ k \in 1 .. Len(m)
      /\ \A i \in 1 .. k - 1 : m[i].by # t
      /\ Len(m) = k \/ Len(m) = k + 1
      /\ Len(m) = k + 1 => m[k + 1].by = t /\ m[k + 1].role = "assistant"
  BY <1>1 DEF SpeaksAt
\* The two places of the turn, in its record and in any sequence that begins with it.
<1>3. \A i \in 1 .. Len(m) : m[i].by = t => i = k \/ (i = k + 1 /\ Len(m) = k + 1)
  <2>. SUFFICES ASSUME NEW i \in 1 .. Len(m), m[i].by = t PROVE i = k \/ (i = k + 1 /\ Len(m) = k + 1)
    OBVIOUS
  <2>1. i \notin 1 .. k - 1
    BY <1>2
  <2>. QED
    BY <1>1, <1>2, <2>1
<1>4. \A i \in 1 .. Len(s) : s[i].by = t => i \in 1 .. Len(m)
  BY <1>1
<1>5. Of(t, "user", m) = {k}
  BY <1>1, <1>2, <1>3 DEF Of
<1>6. Of(t, "user", s) = {k}
  <2>1. k \in 1 .. Len(s)
    BY <1>1, <1>2
  <2>. QED
    BY <1>1, <1>2, <1>3, <1>4, <2>1 DEF Of
<1>7. CASE Len(m) = k
  <2>1. \A i \in 1 .. Len(m) : m[i].by = t => m[i].role = "user"
    BY <1>1, <1>2, <1>3, <1>7
  <2>2. Of(t, "assistant", m) = {}
    BY <1>1, <2>1 DEF Of
  <2>3. Of(t, "assistant", s) = {}
    BY <1>1, <1>4, <2>1 DEF Of
  <2>. QED
    BY <1>1, <1>2, <1>5, <1>6, <2>2, <2>3
<1>8. CASE Len(m) = k + 1
  <2>1. k + 1 \in 1 .. Len(m) /\ k + 1 \in 1 .. Len(s)
    BY <1>1, <1>2, <1>8
  <2>2. \A i \in 1 .. Len(m) : m[i].by = t /\ m[i].role = "assistant" => i = k + 1
    BY <1>2, <1>3
  <2>3. k + 1 \in Of(t, "assistant", m)
    BY <1>1, <1>2, <1>8, <2>1 DEF Of
  <2>4. Of(t, "assistant", s) = {k + 1}
    <3>1. k + 1 \in Of(t, "assistant", s)
      BY <1>1, <1>2, <1>8, <2>1 DEF Of
    <3>2. \A i \in Of(t, "assistant", s) : i = k + 1
      BY <1>1, <1>4, <2>2 DEF Of
    <3>. QED
      BY <3>1, <3>2
  <2>. QED
    BY <1>1, <1>2, <1>5, <1>6, <2>3, <2>4
<1>. QED
  BY <1>2, <1>7, <1>8

\* While no two turns overlap, a settled turn's message and reply are stored once and side
\* by side, whatever buttons, page reads, failures and crashes race with it (require, save,
\* write_messages, the chat route and its write-back).
THEOREM SettledTurnsAreStored == Spec => []SettledTurnStored
<1>1. Init => PostInv
  <2>. SUFFICES ASSUME Init PROVE PostInv
    OBVIOUS
  <2>1. \A r \in Requests : rec[r] = NewRecord /\ pc[r] = "idle" /\ stage[r] = "request"
    BY DEF Init
  <2>2. NewRecord.stored = Len(NewRecord.messages)
    BY DEF NewRecord
  <2>3. Turns \subseteq Requests /\ Routes \subseteq Requests
    BY DEF Requests
  <2>. QED
    BY <2>1, <2>2, <2>3 DEF PostInv, RouteQuiet, Speaks, Busy, OneByOne, Unsettled, InFlight
<1>2. TypeOK /\ CasInv /\ TraceInv /\ PostInv /\ [Next]_vars => PostInv'
  <2>1. CASE UNCHANGED vars
    BY <2>1 DEF vars, PostInv, RouteQuiet, Speaks, OneByOne, Unsettled, Synced, Kept
  <2>2. ASSUME TypeOK, CasInv, TraceInv, PostInv, NEW p \in Requests, Step(p) PROVE PostInv'
    <3>0. \A r \in Requests \ {p} : rec'[r] = rec[r] /\ pc'[r] = pc[r] /\ stage'[r] = stage[r]
      BY <2>2, DocumentStep, OthersStay
    <3>1. ASSUME NEW r \in Routes PROVE RouteQuiet(r)'
      <4>1. r \in Requests /\ RouteQuiet(r)
        BY <2>2 DEF Requests, PostInv
      <4>2. CASE r = p
        BY <2>2, <4>1, <4>2, StepQuiet
      <4>3. CASE r # p
        BY <3>0, <4>1, <4>3 DEF RouteQuiet
      <4>. QED
        BY <4>2, <4>3
    <3>2. ASSUME NEW t \in Turns PROVE Speaks(t)'
      <4>1. t \in Requests /\ Speaks(t)
        BY <2>2 DEF Requests, PostInv
      <4>2. CASE t = p
        BY <2>2, <4>1, <4>2, StepSpeaks
      <4>3. CASE t # p
        BY <3>0, <4>1, <4>3 DEF Speaks
      <4>. QED
        BY <4>2, <4>3
    <3>3. OneByOne'
      <4>1. CASE overlapped'
        BY <4>1 DEF OneByOne
      <4>2. CASE ~overlapped'
        BY <2>2, <4>2, StepOneByOne
      <4>. QED
        BY <4>1, <4>2
    <3>. QED
      BY <3>1, <3>2, <3>3 DEF PostInv
  <2>. QED
    BY <2>1, <2>2 DEF Next
<1>3. TypeOK /\ PostInv => SettledTurnStored
  <2>. SUFFICES ASSUME TypeOK, PostInv, ~overlapped,
                       NEW t \in Turns, pc[t] = "ok", rec[t].epoch = epoch
                PROVE  \E i \in DOMAIN transcript :
                          /\ Of(t, "user", transcript) = {i}
                          /\ transcript[i] \in {rec[t].messages[k] : k \in Of(t, "user", rec[t].messages)}
                          /\ Of(t, "assistant", transcript) =
                                IF Of(t, "assistant", rec[t].messages) = {} THEN {} ELSE {i + 1}
    BY DEF SettledTurnStored
  <2>1. Kept(t) /\ Speaks(t)
    BY DEF PostInv, OneByOne
  <2> DEFINE m == rec[t].messages
  <2>2. m \in Seq(Message) /\ transcript \in Seq(Message)
    BY DEF TypeOK, Record, Requests
  <2>3. PICK k \in DOMAIN m : SpeaksAt(m, t, k, stage[t] # "request")
    BY <2>1 DEF Speaks, Busy
  <2>4. /\ Of(t, "user", transcript) = {k} /\ Of(t, "user", m) = {k} /\ transcript[k] = m[k]
        /\ Of(t, "assistant", transcript) = IF Of(t, "assistant", m) = {} THEN {} ELSE {k + 1}
    <3>1. Before(m, transcript) /\ \A i \in Len(m) + 1 .. Len(transcript) : transcript[i].by # t
      BY <2>1 DEF Kept
    <3> HIDE DEF m
    <3>. QED
      BY <2>2, <2>3, <3>1, KeptIsStored
  <2>5. k \in DOMAIN transcript
    BY <2>4 DEF Of
  <2>. QED
    BY <2>4, <2>5
<1>. QED
  BY <1>1, <1>2, <1>3, EventsHold, SessionTypes, PTL DEF Spec
==============================================================================
