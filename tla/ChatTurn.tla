------------------------------ MODULE ChatTurn ------------------------------
(***************************************************************************)
(* One chat message on its host (sendChatMessageStream and the outputs     *)
(* the agent uploads after it) and what the control plane keeps of it: the *)
(* events of the operation, the registry of outputs and their content.     *)
(*                                                                         *)
(* The agent repeats a request until it is answered.  A request it no      *)
(* longer waits for may still be under way at the control plane, and is    *)
(* handled later.  The text of the answer is a sequence of chunks, known   *)
(* by their numbers; an event of attempt 1 has its number without the      *)
(* attempt's 32 bit shift, since a chat message is never claimed again.    *)
(***************************************************************************)
EXTENDS Naturals, Sequences

CONSTANTS
    MaxFrames,  \* bound: frames of a stream
    MaxOutputs  \* bound: files an answer names

VARIABLES
    stream,     \* of the agent: chunks read and reported, last sequence number
    outputs,    \* the answer's files: staged, or their outcome
    out,        \* the output being reported
    requests,   \* under way at the control plane; the agent waits for the live one
    events,     \* chat_events of the operation
    registry,   \* status in the manifest of each output
    stored,     \* outputs whose content is stored
    session,    \* the chat session: open, deleting (row gone), deleted
    discarded,  \* history: outputs the operator wanted deleted
    pc, cancelled, result, job, claims

client == <<stream, outputs, out, pc, result>>
storage == <<registry, stored, discarded>>
vars == <<client, storage, requests, events, session, cancelled, job, claims>>

Outputs == 1 .. MaxOutputs

Event(n, type, text) ==
    [sequence |-> n, type |-> type, text |-> text, output |-> 0, status |-> "none"]
ArtifactEvent(n, o, s) ==
    [sequence |-> n, type |-> "artifact", text |-> <<>>, output |-> o, status |-> s]
UploadOf(o) == ArtifactEvent(0, o, "upload")
IsUpload(r) == r.event.status = "upload"

NoStream == [frames |-> 0, text |-> 0, flushed |-> 0, sequence |-> 1, ended |-> FALSE]

Init ==
    /\ stream = NoStream
    /\ outputs = <<>> /\ out = 0 /\ requests = {} /\ events = {}
    /\ registry = [o \in Outputs |-> "none"] /\ stored = {} /\ session = "open" /\ discarded = {}
    /\ pc = "idle" /\ cancelled = FALSE /\ result = "none" /\ job = "active" /\ claims = 0

------------------------------------------------------------------------------
(* The agent: a request and what follows its answer.                       *)

New(e) == [event |-> e, stage |-> "new", live |-> TRUE]
Call(e) == pc' = "call" /\ requests' = requests \cup { New(e) }
Fail == pc' = "report" /\ result' = "failed"

(* The execution is over, and what it remembered is gone.                  *)
Leave == pc' = "idle" /\ stream' = NoStream /\ outputs' = <<>> /\ out' = 0 /\ result' = "none"

Abandon == requests' = { [r EXCEPT !.live = FALSE] : r \in requests }

(* The outcome of the present output.                                      *)
Outcome(s) == pc' = "final" /\ outputs' = [outputs EXCEPT ![out] = s]

(* reportChatEvent and uploadChatArtifact return: a refused event ends the *)
(* stream with a failure, and the upload phase without a result.           *)
Returned(r, answer) ==
    \/ /\ answer = "ok" /\ r.event.type # "artifact"
       /\ pc' = "stream" /\ UNCHANGED <<stream, outputs, out, result>>
    \/ /\ answer # "ok" /\ r.event.type # "artifact"
       /\ Fail /\ UNCHANGED <<stream, outputs, out>>
    \/ /\ answer = "ok" /\ r.event.status = "preparing"
       /\ pc' = "upload" /\ UNCHANGED <<stream, outputs, out, result>>
    \/ /\ answer = "ok" /\ IsUpload(r)
       /\ Outcome("ready") /\ UNCHANGED <<stream, out, result>>
    \/ /\ answer = "rejected" /\ IsUpload(r)
       /\ Outcome("rejected") /\ UNCHANGED <<stream, out, result>>
    \/ /\ answer = "ok" /\ r.event.type = "artifact" /\ r.event.status \notin { "preparing", "upload" }
       /\ pc' = "outputs" /\ UNCHANGED <<stream, outputs, out, result>>
    \/ answer = "refused" /\ r.event.type = "artifact" /\ Leave

(* The control plane answers; nobody hears it when the agent has gone on.  *)
Answer(r, answer) ==
    /\ requests' = requests \ { r }
    /\ IF r.live THEN Returned(r, answer) ELSE UNCHANGED client

(* The input, the payload, the managed path and the API key.               *)
Begin ==
    /\ pc = "begin"
    /\ \/ Fail
       \/ ~cancelled /\ pc' = "session" /\ UNCHANGED result
    /\ UNCHANGED <<stream, outputs, out, storage, requests, events, session, cancelled, job, claims>>

(* The session is created at Hermes, or exists.                            *)
ensureHermesChatSession ==
    /\ pc = "session"
    /\ \/ Fail
       \/ ~cancelled /\ pc' = "lock" /\ UNCHANGED result
    /\ UNCHANGED <<stream, outputs, out, storage, requests, events, session, cancelled, job, claims>>

(* Its provider and model are locked and acknowledged.                     *)
lockHermesChatSessionRuntime ==
    /\ pc = "lock"
    /\ \/ Fail
       \/ ~cancelled /\ pc' = "open" /\ UNCHANGED result
    /\ UNCHANGED <<stream, outputs, out, storage, requests, events, session, cancelled, job, claims>>

(* The stream is opened and its start reported.                            *)
OpenStream ==
    /\ pc = "open"
    /\ \/ Fail /\ UNCHANGED requests
       \/ ~cancelled /\ Call(Event(stream.sequence, "started", <<>>)) /\ UNCHANGED result
    /\ UNCHANGED <<stream, outputs, out, storage, events, session, cancelled, job, claims>>

------------------------------------------------------------------------------
(* consumeHermesChatStream.                                                *)

(* What decodeHermesChatEvent makes of a frame that is not an error.       *)
Frames ==
    { f \in [text : BOOLEAN, activity : BOOLEAN, done : BOOLEAN] :
        ~(f.text /\ f.activity) /\ (f.text \/ f.activity \/ f.done) }

Flush(s) ==
    /\ stream' = [s EXCEPT !.sequence = @ + 1, !.flushed = s.text]
    /\ Call(Event(s.sequence + 1, "delta",
                  [i \in 1 .. s.text - s.flushed |-> s.flushed + i]))

(* An activity is reported at once, text when enough is pending; the text  *)
(* of a completed frame counts only when nothing was read before.          *)
ReadFrame(f) ==
    LET fresh == f.text /\ (~f.done \/ stream.text = 0)
        s == [stream EXCEPT !.frames = IF f.done THEN 0 ELSE @ + 1, !.ended = f.done,
                            !.text = IF fresh THEN @ + 1 ELSE @]
    IN /\ pc = "stream" /\ ~cancelled /\ ~stream.ended /\ stream.frames < MaxFrames
       /\ \/ /\ f.activity
             /\ stream' = [s EXCEPT !.sequence = @ + 1]
             /\ Call(Event(s.sequence + 1, "activity", <<>>))
          \/ fresh /\ Flush(s)
          \/ ~f.activity /\ stream' = s /\ UNCHANGED <<pc, requests>>
       /\ UNCHANGED <<outputs, out, result, storage, events, session, cancelled, job, claims>>

(* The end of the stream, or [DONE].                                       *)
EndOfStream ==
    /\ pc = "stream" /\ ~cancelled /\ ~stream.ended
    /\ stream' = [stream EXCEPT !.ended = TRUE, !.frames = 0]
    /\ UNCHANGED <<outputs, out, pc, result, storage, requests, events, session, cancelled, job, claims>>

(* What is pending is reported.                                            *)
FlushRest ==
    /\ pc = "stream" /\ ~cancelled /\ stream.ended /\ stream.flushed < stream.text
    /\ Flush(stream)
    /\ UNCHANGED <<outputs, out, result, storage, events, session, cancelled, job, claims>>

(* An answer without text is a failure.  prepareChatArtifacts stages the   *)
(* files the answer names, as far as they can be read.                     *)
prepareChatArtifacts ==
    /\ pc = "stream" /\ stream.ended /\ stream.flushed = stream.text
    /\ \/ stream.text = 0 /\ Fail /\ UNCHANGED outputs
       \/ /\ stream.text > 0 /\ pc' = "outputs" /\ UNCHANGED result
          /\ outputs' \in UNION { [1 .. n -> { "staged", "missing" }] : n \in 0 .. MaxOutputs }
    /\ UNCHANGED <<stream, out, storage, requests, events, session, cancelled, job, claims>>

Streaming == \E r \in requests : r.live /\ r.event.type \in { "delta", "activity" }

(* An error frame, a broken or too long stream; or one of the idle guards  *)
(* cancels the stream, also while an event of it is being reported.        *)
StreamFails ==
    /\ \/ pc = "stream" /\ ~(stream.ended /\ stream.flushed = stream.text)
       \/ pc = "call" /\ Streaming
    /\ Fail /\ Abandon
    /\ UNCHANGED <<stream, outputs, out, storage, events, session, cancelled, job, claims>>

------------------------------------------------------------------------------
(* processNextWithExecutionContext: the outputs, one after the other.      *)

NextOutput ==
    /\ pc = "outputs" /\ out < Len(outputs) /\ out' = out + 1
    /\ IF outputs[out + 1] = "staged"
       THEN Call(ArtifactEvent(stream.sequence + 2 * out + 1, out + 1, "preparing"))
       ELSE pc' = "final" /\ UNCHANGED requests
    /\ UNCHANGED <<stream, outputs, result, storage, events, session, cancelled, job, claims>>

StartUpload ==
    /\ pc = "upload" /\ Call(UploadOf(out))
    /\ UNCHANGED <<stream, outputs, out, result, storage, events, session, cancelled, job, claims>>

(* The upload's two minutes are over, or its answer was an error that is   *)
(* not repeated; the control plane may still store the file.               *)
UploadFails ==
    /\ pc = "call" /\ \E r \in requests : r.live /\ IsUpload(r)
    /\ Outcome("failed") /\ Abandon
    /\ UNCHANGED <<stream, out, result, storage, events, session, cancelled, job, claims>>

ReportOutcome ==
    /\ pc = "final" /\ Call(ArtifactEvent(stream.sequence + 2 * out, out, outputs[out]))
    /\ UNCHANGED <<stream, outputs, out, result, storage, events, session, cancelled, job, claims>>

OutputsReported ==
    /\ pc = "outputs" /\ out = Len(outputs) /\ pc' = "report" /\ result' = "ok"
    /\ UNCHANGED <<stream, outputs, out, storage, requests, events, session, cancelled, job, claims>>

(* The request, or the reader, returns the cause of the cancellation.      *)
Interrupted ==
    /\ pc \in { "stream", "call" } /\ cancelled /\ Abandon
    /\ IF out = 0 THEN Fail /\ UNCHANGED <<stream, outputs, out>> ELSE Leave
    /\ UNCHANGED <<storage, events, session, cancelled, job, claims>>

(* The terminal event of a message that ends.                              *)
Ended(outcome) ==
    /\ job' = outcome
    /\ LET last == IF events = {} THEN 0
                   ELSE CHOOSE n \in { e.sequence : e \in events } :
                            \A e \in events : e.sequence <= n
       IN events' = events \cup { Event(last + 1, outcome, <<>>) }

(* CompleteJob takes the result under a valid lease.                       *)
Report ==
    /\ pc = "report"
    /\ \/ /\ ~cancelled /\ job = "active" /\ result = "ok" /\ Ended("done")
          /\ pc' = "idle" /\ UNCHANGED <<stream, outputs, out, result>>
       \/ ~cancelled /\ job = "active" /\ result = "failed" /\ Ended("failed") /\ Leave
       \/ (cancelled \/ job # "active") /\ Leave /\ UNCHANGED <<job, events>>
    /\ UNCHANGED <<storage, requests, session, cancelled, claims>>

------------------------------------------------------------------------------
(* The control plane.                                                      *)

(* A request holds the mutex of the artifact manager.                      *)
Locked == \E r \in requests : r.stage \in { "checked", "verified", "moved" }

AtStage(r, stage) == requests' = (requests \ { r }) \cup { [r EXCEPT !.stage = stage] }

(* A valid lease: it has run out once the job is over, and may have once   *)
(* the execution is canceled.                                              *)
LeaseHolds == job = "active"
LeaseGone == job # "active" \/ cancelled

(* The event is inserted, or is there already with the same content.       *)
AppendChatEvent(r) ==
    /\ r.stage = "new" /\ ~IsUpload(r)
    /\ \/ /\ LeaseHolds
          /\ \A e \in events : e.sequence = r.event.sequence => e = r.event
          /\ events' = events \cup { r.event }
          /\ IF r.event.type = "artifact"
             THEN AtStage(r, "record") /\ UNCHANGED client
             ELSE Answer(r, "ok")
       \/ /\ LeaseGone \/ \E e \in events : e.sequence = r.event.sequence /\ e # r.event
          /\ Answer(r, "refused") /\ UNCHANGED events
       \* the content is not accepted
       \/ LeaseHolds /\ r.event.type \in { "delta", "activity" } /\ Answer(r, "refused") /\ UNCHANGED events
    /\ UNCHANGED <<storage, session, cancelled, job, claims>>

(* The manifest as it is read: a ready one without its file is missing.    *)
getLocked(o) == IF registry[o] = "ready" /\ o \notin stored THEN "missing" ELSE registry[o]

(* The manifest follows the event; a ready event without content is        *)
(* missing, and a ready or deleted manifest is left alone.                 *)
Recorded(existing, s) ==
    IF existing \in { "deleted", "ready" } \/ (s = "preparing" /\ existing \notin { "none", "preparing" })
    THEN existing
    ELSE IF s = "ready" THEN "missing" ELSE s

Record(r) ==
    LET o == r.event.output
    IN /\ r.stage = "record" /\ ~Locked
       /\ registry' = [registry EXCEPT ![o] = Recorded(getLocked(o), r.event.status)]
       /\ Answer(r, "ok")
       /\ UNCHANGED <<stored, discarded, events, session, cancelled, job, claims>>

(* Put takes the mutex: stored content is answered, a manifest that is     *)
(* being prepared goes on; a quota or the body may be refused.             *)
PutBegin(r) ==
    LET existing == getLocked(r.event.output)
    IN /\ r.stage = "new" /\ IsUpload(r) /\ ~Locked
       /\ \/ LeaseGone /\ Answer(r, "refused")
          \/ LeaseHolds /\ existing = "ready" /\ Answer(r, "ok")
          \/ LeaseHolds /\ existing \in { "none", "preparing" } /\ AtStage(r, "checked") /\ UNCHANGED client
          \/ LeaseHolds /\ existing # "ready" /\ Answer(r, "rejected")
       /\ UNCHANGED <<storage, events, session, cancelled, job, claims>>

(* The lease is verified again after the transfer.                         *)
PutVerify(r) ==
    /\ r.stage = "checked"
    /\ \/ LeaseGone /\ Answer(r, "refused")
       \/ LeaseHolds /\ AtStage(r, "verified") /\ UNCHANGED client
    /\ UNCHANGED <<storage, events, session, cancelled, job, claims>>

PutMove(r) ==
    /\ r.stage = "verified" /\ AtStage(r, "moved")
    /\ stored' = stored \cup { r.event.output }
    /\ UNCHANGED <<client, registry, discarded, events, session, cancelled, job, claims>>

PutFinish(r) ==
    /\ r.stage = "moved"
    /\ registry' = [registry EXCEPT ![r.event.output] = "ready"]
    /\ Answer(r, "ok")
    /\ UNCHANGED <<stored, discarded, events, session, cancelled, job, claims>>

(* A handler.                                                              *)
Handle(r) ==
    \/ AppendChatEvent(r) \/ Record(r)
    \/ PutBegin(r) \/ PutVerify(r) \/ PutMove(r) \/ PutFinish(r)

(* An error of the control plane: the agent repeats the request, unless it *)
(* is canceled.                                                            *)
HandlerFails(r) ==
    /\ requests' = (requests \ { r }) \cup (IF r.live /\ ~cancelled THEN { New(r.event) } ELSE {})
    /\ stored' = IF r.stage = "moved" THEN stored \ { r.event.output } ELSE stored
    /\ UNCHANGED <<client, registry, discarded, events, session, cancelled, job, claims>>

(* The agent stops waiting for one request and sends it again.             *)
Resend(r) ==
    /\ r.live /\ ~cancelled /\ \A q \in requests : q.live
    /\ requests' = { [r EXCEPT !.live = FALSE], New(r.event) }
    /\ UNCHANGED <<client, storage, events, session, cancelled, job, claims>>

(* Reconcile, of what is aged: an upload that did not complete has failed, *)
(* content expires (when turn and requests are long over) or is missing;   *)
(* other content is removed.                                               *)
Reconciled(aged) ==
    [o \in Outputs |->
        CASE registry[o] = "preparing" /\ o \in aged -> "failed"
          [] registry[o] = "ready" /\ o \in aged /\ job # "active" /\ requests = {} -> "expired"
          [] OTHER -> getLocked(o)]

Kept(aged) ==
    { o \in stored : Reconciled(aged)[o] = "ready" \/ (registry[o] = "none" /\ o \notin aged) }

Reconcile(aged) ==
    /\ ~Locked /\ registry' = Reconciled(aged) /\ stored' = Kept(aged)
    /\ UNCHANGED <<client, discarded, requests, events, session, cancelled, job, claims>>

(* The control plane restarts: its requests are gone, and the rest of a    *)
(* deletion.                                                               *)
RestartControlPlane(aged) ==
    /\ requests' = { New(r.event) : r \in { q \in requests : q.live } }
    /\ session' = IF session = "deleting" THEN "deleted" ELSE session
    /\ registry' = Reconciled(aged) /\ stored' = Kept(aged)
    /\ UNCHANGED <<client, discarded, events, cancelled, job, claims>>

(* After a reconciliation the content goes first, and then the manifest    *)
(* says so, unless it cannot be written.                                   *)
DeleteArtifact(o, aged) ==
    /\ ~Locked /\ registry[o] \notin { "none", "deleted" } /\ discarded' = discarded \cup { o }
    /\ stored' = Kept(aged) \ { o }
    /\ \/ registry' = [Reconciled(aged) EXCEPT ![o] = "deleted"]
       \/ registry' = Reconciled(aged)
    /\ UNCHANGED <<client, requests, events, session, cancelled, job, claims>>

(* deleteChatSession: the job goes first, with its lease ...               *)
DeleteChatSession ==
    /\ session = "open" /\ session' = "deleting"
    /\ job' = "deleted" /\ events' = {} /\ discarded' = Outputs
    /\ UNCHANGED <<client, registry, stored, requests, cancelled, claims>>

(* ... and then the directory, file by file; an error is logged.           *)
DeleteSession ==
    /\ session = "deleting" /\ session' = "deleted" /\ ~Locked
    /\ \E left \in SUBSET Outputs, files \in SUBSET stored :
          /\ registry' = [o \in Outputs |-> IF o \in left THEN registry[o] ELSE "none"]
          /\ stored' = files
    /\ UNCHANGED <<client, discarded, requests, events, cancelled, job, claims>>

------------------------------------------------------------------------------
(* The job around the turn: it is claimed once.                            *)

Claim ==
    /\ pc = "idle" /\ job = "active" /\ claims = 0
    /\ claims' = 1 /\ pc' = "begin"
    /\ UNCHANGED <<stream, outputs, out, result, storage, requests, events, session, cancelled, job>>

(* failExpiredJobLease.                                                    *)
GiveUp ==
    /\ pc = "idle" /\ job = "active" /\ claims = 1 /\ Ended("failed")
    /\ UNCHANGED <<client, storage, requests, session, cancelled, claims>>

CancelActiveChat ==
    /\ job = "active" /\ Ended("failed")
    /\ UNCHANGED <<client, storage, requests, session, cancelled, claims>>

(* The lease is lost.                                                      *)
Cancel ==
    /\ pc # "idle" /\ ~cancelled /\ cancelled' = TRUE
    /\ UNCHANGED <<client, storage, requests, events, session, job, claims>>

Crash ==
    /\ pc # "idle" /\ Leave /\ Abandon
    /\ UNCHANGED <<storage, events, session, cancelled, job, claims>>

Step ==
    \/ Begin \/ ensureHermesChatSession \/ lockHermesChatSessionRuntime \/ OpenStream
    \/ (\E f \in Frames : ReadFrame(f)) \/ EndOfStream \/ FlushRest \/ prepareChatArtifacts
    \/ NextOutput \/ StartUpload \/ ReportOutcome \/ OutputsReported
    \/ Interrupted \/ Report
    \/ \E r \in requests : r.live /\ Handle(r)

(* The control plane records an output the agent waits for.                *)
Answers == \E r \in requests : r.live /\ Record(r)

(* It goes on with what the agent does not wait for.                       *)
HandledLate == \E r \in requests : ~r.live /\ Handle(r)

Faults ==
    \/ StreamFails \/ UploadFails
    \/ HandledLate
    \/ \E r \in requests : HandlerFails(r) \/ Resend(r)
    \/ \E aged \in SUBSET Outputs : Reconcile(aged) \/ RestartControlPlane(aged)

Operator ==
    \/ CancelActiveChat \/ DeleteChatSession \/ DeleteSession
    \/ \E o \in Outputs, aged \in SUBSET Outputs : DeleteArtifact(o, aged)

------------------------------------------------------------------------------
(* One recorded piece comes before another, by number and in the text.     *)
Precedes(d, e) ==
    /\ d.sequence < e.sequence
    /\ \A i \in DOMAIN d.text, j \in DOMAIN e.text : d.text[i] < e.text[j]

(* A message that succeeded is on record as it was answered: the recorded  *)
(* pieces are the whole text, in order and without repetition, whatever    *)
(* requests were lost, repeated or late; every output has one outcome, and *)
(* one that is called ready was stored.                                    *)
SuccessIsTrue ==
    job = "done" =>
        /\ LET deltas == { e \in events : e.type = "delta" }
           IN /\ \A c \in 1 .. stream.text : \E e \in deltas : \E i \in DOMAIN e.text : e.text[i] = c
              /\ \A e \in deltas : \A i \in DOMAIN e.text :
                    e.text[i] \in 1 .. stream.text /\ e.text[i] = e.text[1] + i - 1
              /\ \A d, e \in deltas : d = e \/ Precedes(d, e) \/ Precedes(e, d)
        /\ \A o \in 1 .. Len(outputs) :
              LET final == { e \in events : e.output = o /\ e.status # "preparing" }
              IN /\ \E e \in events : final = { e }
                 /\ (\A e \in final : e.status = "ready") =>
                        registry[o] \in { "ready", "expired" } \/ o \in discarded

(* What the registry calls ready can be downloaded, until the operator     *)
(* deletes it or its session.                                              *)
ReadyIsStored ==
    \A o \in Outputs \ discarded : registry[o] = "ready" => o \in stored

(* "Deleting a chat session deletes its artifact directory."               *)
DeletedIsGone == session = "deleted" => stored = {} /\ \A o \in Outputs : registry[o] = "none"
=============================================================================
