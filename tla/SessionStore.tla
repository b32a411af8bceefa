---------------------------- MODULE SessionStore ----------------------------
(***************************************************************************)
(* One session of the service and the requests that race on it.            *)
(*                                                                         *)
(* The store keeps a versioned state document and a transcript.  Every     *)
(* request loads both (two reads), edits a record of its own, and saves it *)
(* (a compare-and-set of the document, then a write of the transcript).    *)
(* A chat request saves once before its reply streams and once more, from  *)
(* a background task, after the stream has ended: that second save goes in *)
(* over whatever version it finds.                                         *)
(*                                                                         *)
(* Requests run in a thread pool, so every store call is a step of its own.*)
(* The Redis store's compare-and-set is one step (a Lua script); the       *)
(* in-process store's check and assignment are two.                        *)
(*                                                                         *)
(* Data is abstract: a request's mark stands for whatever it adds to the   *)
(* provenance state (seen) or to the queued app events (events); a message *)
(* is known by the turn and the role that wrote it.                        *)
(***************************************************************************)
EXTENDS Naturals, Sequences, FiniteSets

CONSTANTS
    Turns,         \* the chat requests ever sent on this session (bound)
    Routes,        \* its other requests: buttons, page reads, resets (bound)
    Backings,      \* the stores a deployment may configure, a subset of AllBackings
    OneTurnPerTab  \* does one client send, which waits for a stream to end?

Requests == Turns \cup Routes

AllBackings == {"redis", "process"}

ASSUME RequestsAssumption == Turns \cap Routes = {}
ASSUME BackingsAssumption == Backings \subseteq AllBackings
ASSUME TabAssumption == OneTurnPerTab \in BOOLEAN

VARIABLES
    backing,       \* the store this deployment runs
    states,        \* the stored document and its version, 0 when there is none
    transcript,    \* the stored messages
    pc,            \* where each request is
    stage,         \* which of its saves a request is in
    rec,           \* each request's SessionRecord
    epoch,         \* history: how often the session was deleted
    told,          \* history: events noted in a message that was put in the transcript
    dropped,       \* history: marks removed by a forced write, or by a crash before the message
    overlapped     \* history: were two turns ever in flight together?

vars == <<backing, states, transcript, pc, stage, rec, epoch, told, dropped, overlapped>>

Roles == {"user", "assistant"}
Message == [by : Requests, role : Roles, notes : SUBSET Requests]
Document == [seen : SUBSET Requests, events : SUBSET Requests]
Record == [version : Nat, doc : Document, base : Document,
           messages : Seq(Message), stored : Nat, epoch : Nat]

NewDocument == [seen |-> {}, events |-> {}]
NewRecord == [version |-> 0, doc |-> NewDocument, base |-> NewDocument,
              messages |-> <<>>, stored |-> 0, epoch |-> 0]

InFlight == {"loading", "handling", "saving", "storing", "appending",
             "streaming", "adopting"}
Finished == {"ok", "unknown", "failed", "refused", "lost", "crashed"}

UserMessage(r) == [by |-> r, role |-> "user", notes |-> rec[r].doc.events]
Reply(r) == [by |-> r, role |-> "assistant", notes |-> {}]

\* save's two questions: is there anything to write, and did the transcript grow?
Grew(r) == rec[r].stored < Len(rec[r].messages)
Dirty(r) == rec[r].doc # rec[r].base \/ Grew(r)

\* Where a save that has written everything leads.
AfterSave(r) == IF r \in Turns /\ stage[r] = "request" THEN "streaming" ELSE "ok"

\* Where a save whose version is behind the store's leads: a 409 for the request, a
\* second attempt for a turn's write-back, an exception nobody catches after that.
AfterConflict(r) ==
    CASE stage[r] = "request"   -> "refused"
      [] stage[r] = "writeback" -> "adopting"
      [] stage[r] = "forced"    -> "lost"

\* A turn the client still waits for, and a turn the server has not settled.
Streaming(r) == r \in Turns /\ pc[r] \in InFlight /\ stage[r] = "request"
Unsettled(r) == r \in Turns /\ pc[r] \in InFlight

\* The record require builds from the state document; its messages come next.
LoadedRecord == [version |-> states.version, doc |-> states.doc, base |-> states.doc,
                 messages |-> <<>>, stored |-> 0, epoch |-> epoch]

\* An ended request's record is garbage.
Forget(r) == rec' = [rec EXCEPT ![r] = NewRecord]

-----------------------------------------------------------------------------
\* The session has just been started: version 1, an empty document, no messages.
Init ==
    /\ backing \in Backings
    /\ states = [version |-> 1, doc |-> NewDocument]
    /\ transcript = <<>>
    /\ pc = [r \in Requests |-> "idle"]
    /\ stage = [r \in Requests |-> "request"]
    /\ rec = [r \in Requests |-> NewRecord]
    /\ epoch = 0
    /\ told = {}
    /\ dropped = {}
    /\ overlapped = FALSE

\* require, first half: the state document and its version; a 401 without one.
ReadState(r) ==
    /\ pc[r] = "idle"
    /\ r \in Turns /\ OneTurnPerTab => \A t \in Requests : ~Streaming(t)
    /\ IF states.version = 0
       THEN /\ pc' = [pc EXCEPT ![r] = "unknown"]
            /\ UNCHANGED <<rec, overlapped>>
       ELSE /\ pc' = [pc EXCEPT ![r] = "loading"]
            /\ rec' = [rec EXCEPT ![r] = LoadedRecord]
            /\ overlapped' = (overlapped \/ (r \in Turns /\ \E t \in Requests : Unsettled(t)))
    /\ UNCHANGED <<backing, states, transcript, stage, epoch, told, dropped>>

\* require, second half: the transcript, as it is by now.
ReadMessages(r) ==
    /\ pc[r] = "loading"
    /\ rec' = [rec EXCEPT ![r].messages = transcript, ![r].stored = Len(transcript)]
    /\ pc' = [pc EXCEPT ![r] = "handling"]
    /\ UNCHANGED <<backing, states, transcript, stage, epoch, told, dropped, overlapped>>

\* Mutant: the queue is noted but not emptied.
AppendUserTurnKeepingEvents(r) ==
    /\ r \in Turns /\ pc[r] = "handling"
    /\ rec' = [rec EXCEPT ![r].messages = Append(@, UserMessage(r))]
    /\ pc' = [pc EXCEPT ![r] = "saving"]
    /\ UNCHANGED <<backing, states, transcript, stage, epoch, told, dropped, overlapped>>

\* The chat route: the user's message goes on the record, with a note of every queued
\* app event, and the queue is emptied.
AppendUserTurn(r) ==
    /\ r \in Turns /\ pc[r] = "handling"
    /\ rec' = [rec EXCEPT ![r].messages = Append(@, UserMessage(r)),
                          ![r].doc.events = {}]
    /\ pc' = [pc EXCEPT ![r] = "saving"]
    /\ UNCHANGED <<backing, states, transcript, stage, epoch, told, dropped, overlapped>>

\* Any other route: a button (add to cart, approve, dismiss) queues an app event, a page's
\* read may add provenance (the overview does), most change nothing.
HandleRoute(r) ==
    /\ r \in Routes /\ pc[r] = "handling"
    /\ \/ rec' = [rec EXCEPT ![r].doc.events = @ \cup {r}]
       \/ rec' = [rec EXCEPT ![r].doc.seen = @ \cup {r}]
       \/ UNCHANGED rec
    /\ pc' = [pc EXCEPT ![r] = "saving"]
    /\ UNCHANGED <<backing, states, transcript, stage, epoch, told, dropped, overlapped>>

\* The reset route: the record is ended, so the dependency's save returns at once.
Reset(r) ==
    /\ r \in Routes /\ pc[r] = "handling"
    /\ states' = [version |-> 0, doc |-> NewDocument]
    /\ transcript' = <<>>
    /\ epoch' = epoch + 1
    /\ pc' = [pc EXCEPT ![r] = "ok"]
    /\ UNCHANGED <<backing, stage, rec, told, dropped, overlapped>>

\* The handler raises (an HTTPException, a backend error): the save is skipped.
HandlerRaises(r) ==
    /\ pc[r] = "handling"
    /\ pc' = [pc EXCEPT ![r] = "failed"]
    /\ Forget(r)
    /\ UNCHANGED <<backing, states, transcript, stage, epoch, told, dropped, overlapped>>

\* The effects of a document write by r, and the record's half of save after it.
StoreDocument(r) ==
    /\ states' = [version |-> rec[r].version + 1, doc |-> rec[r].doc]
    /\ rec' = [rec EXCEPT ![r].version = @ + 1, ![r].base = rec[r].doc]
    /\ dropped' = IF stage[r] = "forced"
                  THEN dropped \cup ((states.doc.seen \cup states.doc.events)
                                       \ (rec[r].doc.seen \cup rec[r].doc.events))
                  ELSE dropped
    /\ pc' = [pc EXCEPT ![r] = IF Grew(r) THEN "appending" ELSE AfterSave(r)]
    /\ UNCHANGED told

\* save, when the record has nothing the store lacks.
SaveNothing(r) ==
    /\ pc[r] = "saving" /\ ~Dirty(r)
    /\ pc' = [pc EXCEPT ![r] = AfterSave(r)]
    /\ UNCHANGED <<backing, states, transcript, stage, rec, epoch, told, dropped, overlapped>>

\* Mutant: the messages go out before the version check.
SaveConflictsAfterMessages(r) ==
    /\ pc[r] = "saving" /\ Dirty(r)
    /\ states.version # rec[r].version
    /\ pc' = [pc EXCEPT ![r] = AfterConflict(r)]
    /\ transcript' = SubSeq(transcript, 1, rec[r].stored)
                        \o SubSeq(rec[r].messages, rec[r].stored + 1, Len(rec[r].messages))
    /\ IF stage[r] = "writeback" THEN UNCHANGED rec ELSE Forget(r)
    /\ UNCHANGED <<backing, states, stage, epoch, told, dropped, overlapped>>

\* save's write_state, refused: the stored version is not the record's.
SaveConflicts(r) ==
    /\ pc[r] = "saving" /\ Dirty(r)
    /\ states.version # rec[r].version
    /\ pc' = [pc EXCEPT ![r] = AfterConflict(r)]
    /\ IF stage[r] = "writeback" THEN UNCHANGED rec ELSE Forget(r)
    /\ UNCHANGED <<backing, states, transcript, stage, epoch, told, dropped, overlapped>>

\* Mutant: the version is not compared.
SaveStateUnchecked(r) ==
    /\ backing = "redis"
    /\ pc[r] = "saving" /\ Dirty(r)
    /\ StoreDocument(r)
    /\ UNCHANGED <<backing, transcript, stage, epoch, overlapped>>

\* save's write_state, accepted, as one step (Redis) ...
SaveState(r) ==
    /\ backing = "redis"
    /\ pc[r] = "saving" /\ Dirty(r)
    /\ states.version = rec[r].version
    /\ StoreDocument(r)
    /\ UNCHANGED <<backing, transcript, stage, epoch, overlapped>>

\* ... or as the in-process store's check and, later, its assignment.
CheckVersion(r) ==
    /\ backing = "process"
    /\ pc[r] = "saving" /\ Dirty(r)
    /\ states.version = rec[r].version
    /\ pc' = [pc EXCEPT ![r] = "storing"]
    /\ UNCHANGED <<backing, states, transcript, stage, rec, epoch, told, dropped, overlapped>>

AssignState(r) ==
    /\ pc[r] = "storing"
    /\ StoreDocument(r)
    /\ UNCHANGED <<backing, transcript, stage, epoch, overlapped>>

\* A turn between its first two writes: the document is saved, with its queue emptied, and
\* the message that notes the queue is not stored yet.
Posting(r) == r \in Turns /\ pc[r] = "appending" /\ stage[r] = "request"
NotedBy(r) ==
    UNION {rec[r].messages[i].notes : i \in rec[r].stored + 1 .. Len(rec[r].messages)}
Carried == UNION {NotedBy(r) : r \in {t \in Turns : Posting(t)}}

\* Mutant: the new messages are appended whatever the record's stored length.
WriteMessagesAppending(r) ==
    /\ pc[r] = "appending"
    /\ transcript' = transcript
                        \o SubSeq(rec[r].messages, rec[r].stored + 1, Len(rec[r].messages))
    /\ rec' = [rec EXCEPT ![r].stored = Len(rec[r].messages)]
    /\ pc' = [pc EXCEPT ![r] = AfterSave(r)]
    /\ told' = IF Posting(r) THEN told \cup NotedBy(r) ELSE told
    /\ UNCHANGED <<backing, states, stage, epoch, dropped, overlapped>>

\* save's write_messages: the transcript is replaced from the record's stored length on.
WriteMessages(r) ==
    /\ pc[r] = "appending"
    /\ LET keep == IF rec[r].stored < Len(transcript) THEN rec[r].stored ELSE Len(transcript)
       IN transcript' = SubSeq(transcript, 1, keep)
                          \o SubSeq(rec[r].messages, rec[r].stored + 1, Len(rec[r].messages))
    /\ rec' = [rec EXCEPT ![r].stored = Len(rec[r].messages)]
    /\ pc' = [pc EXCEPT ![r] = AfterSave(r)]
    /\ told' = IF Posting(r) THEN told \cup NotedBy(r) ELSE told
    /\ UNCHANGED <<backing, states, stage, epoch, dropped, overlapped>>

\* The record as a stream leaves it.  The agent replies or fails without a reply, may add
\* provenance, and may clear earlier results, which makes the whole transcript due.
Revised(q, messages, doc, stored) ==
    [q EXCEPT !.messages = messages, !.doc = doc, !.stored = stored]

Streamed(r, replied, saw, cleared) ==
    LET q == rec[r]
    IN Revised(q, IF replied THEN Append(q.messages, Reply(r)) ELSE q.messages,
                  IF saw THEN [q.doc EXCEPT !.seen = @ \cup {r}] ELSE q.doc,
                  IF cleared THEN 0 ELSE q.stored)

\* The stream runs and ends; only a complete turn reports that it cleared results.
Stream(r) ==
    /\ pc[r] = "streaming"
    /\ \E replied, saw, cleared \in BOOLEAN :
          /\ cleared => replied
          /\ rec' = [rec EXCEPT ![r] = Streamed(r, replied, saw, cleared)]
    /\ stage' = [stage EXCEPT ![r] = "writeback"]
    /\ pc' = [pc EXCEPT ![r] = "saving"]
    /\ UNCHANGED <<backing, states, transcript, epoch, told, dropped, overlapped>>

\* Mutant: the version before the stored one is adopted.
AdoptPrevious(r) ==
    /\ pc[r] = "adopting"
    /\ rec' = [rec EXCEPT ![r].version = states.version - 1]
    /\ stage' = [stage EXCEPT ![r] = "forced"]
    /\ pc' = [pc EXCEPT ![r] = "saving"]
    /\ UNCHANGED <<backing, states, transcript, epoch, told, dropped, overlapped>>

\* The write-back met a conflict: it adopts the version it finds, 0 when there is none.
Adopt(r) ==
    /\ pc[r] = "adopting"
    /\ rec' = [rec EXCEPT ![r].version = states.version]
    /\ stage' = [stage EXCEPT ![r] = "forced"]
    /\ pc' = [pc EXCEPT ![r] = "saving"]
    /\ UNCHANGED <<backing, states, transcript, epoch, told, dropped, overlapped>>

\* The process dies, or the platform stops it, between two steps of a request.  Before its
\* first write that leaves what HandlerRaises leaves: nothing.  Between a turn's document and
\* its message it loses the events that were noted in the message.
Crash(r) ==
    /\ \/ pc[r] \in {"storing", "appending", "streaming", "adopting"}
       \/ pc[r] = "saving" /\ stage[r] # "request"
    /\ pc' = [pc EXCEPT ![r] = "crashed"]
    /\ Forget(r)
    /\ dropped' = IF Posting(r) THEN dropped \cup NotedBy(r) ELSE dropped
    /\ UNCHANGED <<backing, states, transcript, stage, epoch, told, overlapped>>

Step(r) ==
    \/ ReadState(r) \/ ReadMessages(r)
    \/ AppendUserTurn(r) \/ HandleRoute(r) \/ Reset(r) \/ HandlerRaises(r)
    \/ SaveNothing(r) \/ SaveConflicts(r) \/ SaveState(r) \/ CheckVersion(r) \/ AssignState(r)
    \/ WriteMessages(r) \/ Stream(r) \/ Adopt(r) \/ Crash(r)

Next == \E r \in Requests : Step(r)

Spec == Init /\ [][Next]_vars

-----------------------------------------------------------------------------
\* Every variable keeps its shape: versions count, records hold documents and messages.
TypeOK ==
    /\ backing \in Backings
    /\ states \in [version : Nat, doc : Document]
    /\ transcript \in Seq(Message)
    /\ pc \in [Requests -> {"idle"} \cup InFlight \cup Finished]
    /\ stage \in [Requests -> {"request", "writeback", "forced"}]
    /\ rec \in [Requests -> Record]
    /\ epoch \in Nat
    /\ told \in SUBSET Requests
    /\ dropped \in SUBSET Requests
    /\ overlapped \in BOOLEAN

Marks(doc) == doc.seen \cup doc.events
NotedIn(messages) == UNION {messages[i].notes : i \in DOMAIN messages}
WrittenIn(messages) == {messages[i].by : i \in DOMAIN messages}

\* A request that was refused with a 409, failed in its handler or found no session left
\* nothing in the store: no provenance, no event, no message, no note of its event
\* (save: "a request that lost a race writes nothing at all").
RefusedLeavesNoTrace ==
    \A r \in Requests :
        pc[r] \in {"refused", "failed", "unknown"} =>
            r \notin Marks(states.doc) \cup WrittenIn(transcript) \cup NotedIn(transcript)

\* Over Redis, a document is only ever replaced by a writer that had read that very
\* document, unless the writer is a turn forcing its write-back, or comes from before a
\* reset (the version count starts over then): the promise of write_state's check.
ReplacesWhatItRead ==
    [][ backing = "redis" /\ states' # states =>
          \/ epoch' # epoch
          \/ \E r \in Requests :
                /\ pc'[r] # pc[r]
                /\ pc[r] = "saving"
                /\ \/ stage[r] = "forced"
                   \/ rec[r].epoch # epoch
                   \/ rec[r].base = states.doc ]_vars

\* An app event whose button got its answer is still queued, or noted in the message that a
\* turn is about to store, or was put in the transcript with such a message; or it was lost
\* in one of two ways, by a turn's forced write or by a crash between a turn's document and
\* its message.  This as long as the session was never reset.
AcceptedEventAccounted ==
    backing = "redis" /\ epoch = 0 =>
        \A r \in Requests :
            (pc[r] = "ok" /\ r \in rec[r].doc.events) =>
                r \in states.doc.events \cup Carried \cup told \cup dropped

\* No app event is told to the model twice: two stored user messages never carry a note
\* of the same event, while the session has not been reset.
ToldOnce ==
    backing = "redis" /\ epoch = 0 =>
        \A i, j \in DOMAIN transcript :
            i # j => transcript[i].notes \cap transcript[j].notes = {}

Of(t, role, messages) == {i \in DOMAIN messages : messages[i].by = t /\ messages[i].role = role}

\* As long as no two turns overlapped, buttons and page reads can race with a turn as they
\* like and die where they like: a settled turn's message is stored once, as the turn wrote
\* it, and its reply is stored exactly if there was one, right after it.
SettledTurnStored ==
    ~overlapped =>
        \A t \in Turns :
            (pc[t] = "ok" /\ rec[t].epoch = epoch) =>
                \E i \in DOMAIN transcript :
                    /\ Of(t, "user", transcript) = {i}
                    /\ transcript[i] \in {rec[t].messages[k] : k \in Of(t, "user", rec[t].messages)}
                    /\ Of(t, "assistant", transcript) =
                          IF Of(t, "assistant", rec[t].messages) = {} THEN {} ELSE {i + 1}

-----------------------------------------------------------------------------
\* What the repository says of the store, and the store does not do.

\* "two requests racing on one session cannot overwrite each other", and write_messages
\* "needs no comparison of its own": a request's own save never shortens or changes what
\* the transcript holds, it appends.
RequestAppends ==
    [][ \A r \in Requests :
          (pc[r] = "appending" /\ pc'[r] # pc[r] /\ pc'[r] # "crashed" /\ stage[r] = "request") =>
              SubSeq(transcript', 1, Len(transcript)) = transcript ]_vars
=============================================================================
