--------------------------- MODULE PipelineProofs ---------------------------
(***************************************************************************)
(* Proofs about the server as a whole, for any number of requests, workers *)
(* and faults: it keeps what the processor keeps, stores no report that it *)
(* refused, and implements Delivery.                                       *)
(***************************************************************************)
EXTENDS Pipeline, ProcessorProofs

\* The states of a handler before the rename.
Early == {"new", "admit", "body", "mkdir", "create", "write"}

\* Where the handler of a request is, and what became of the report.
HandlerOK(r) ==
    /\ handler[r] = "new" => answer[r] = 0
    /\ handler[r] \in Early => r \notin stored
    /\ handler[r] = "stored" => r \in stored
    /\ handler[r] \in Early \cup {"stored"} =>
          answer[r] \in {0, 503} /\ reason[r] = "none"
    /\ r \in stored => answer[r] \in {0, Success(r), 503} /\ reason[r] = "none"

HandlerInv ==
    /\ shape \in [Requests -> Shapes]
    /\ handler \in [Requests -> Early \cup {"stored", "done", "killed"}]
    /\ answer \in [Requests -> Statuses]
    /\ reason \in [Requests -> Reasons]
    /\ \A r \in Requests : HandlerOK(r)

-----------------------------------------------------------------------------
\* The server takes only steps of the processor, as far as the processor's
\* variables go.
LEMMA PipelineStepsProc == [PipelineNext]_pipeline => [ProcNext]_proc
<1> SUFFICES ASSUME [PipelineNext]_pipeline PROVE [ProcNext]_proc
  OBVIOUS
<1>1. CASE UNCHANGED pipeline
  BY <1>1, Zenon DEF pipeline, proc
<1>2. ASSUME NEW r \in Requests, Serve(r) \/ Store(r) \/ Time(r)
      PROVE  [ProcNext]_proc
  BY <1>2, PipelineAssumption, Zenon DEF Serve, Store, Time, ProcNext
<1>3. ASSUME NEW w \in Workers, Work(w) \/ StartWorker(w) \/ StopWorker(w)
      PROVE  [ProcNext]_proc
  BY <1>3, Zenon DEF Work, StartWorker, StopWorker, ProcNext
<1>4. CASE KillWeb \/ KillIngest
  BY <1>4, Zenon DEF KillWeb, KillIngest, ProcNext
<1> QED
  BY <1>1, <1>2, <1>3, <1>4, Zenon DEF PipelineNext

\* What the processor does under any owner, it does in the server.
THEOREM PipelineRunsProcessor == PipelineSpec => ProcSpec
<1>1. PipelineInit => ProcInit
  BY Zenon DEF PipelineInit
<1> QED
  BY <1>1, PipelineStepsProc, PTL DEF PipelineSpec, ProcSpec

\* Initially no request has arrived.
LEMMA HandlerInit == PipelineInit => HandlerInv
<1> SUFFICES ASSUME PipelineInit PROVE HandlerInv
  OBVIOUS
<1>1. AnyShape \in Shapes
  <2>1. [route |-> "upload", noName |-> TRUE, body |-> "json"] \in Shapes
    BY Zenon DEF Shapes
  <2> QED
    BY <2>1, Zenon DEF AnyShape
<1>2. /\ shape \in [Requests -> Shapes]
      /\ handler \in [Requests -> Early \cup {"stored", "done", "killed"}]
      /\ answer \in [Requests -> Statuses]
      /\ reason \in [Requests -> Reasons]
  BY <1>1, Zenon DEF PipelineInit, IntakeInit, Early, Statuses, Reasons
<1>3. \A r \in Requests : HandlerOK(r)
  BY Zenon DEF PipelineInit, IntakeInit, ProcInit, HandlerOK, Early
<1> QED
  BY <1>2, <1>3, Zenon DEF HandlerInv

\* A step that leaves a request and its report alone keeps what is known of it.
LEMMA HandlerFrame ==
    ASSUME NEW r, HandlerOK(r), shape'[r] = shape[r], handler'[r] = handler[r],
           answer'[r] = answer[r], reason'[r] = reason[r],
           r \in stored' <=> r \in stored
    PROVE  HandlerOK(r)'
BY DEF HandlerOK, Success

\* A handler that ends without having stored the report may answer anything but
\* does not leave a report.
LEMMA HandlerEnds ==
    ASSUME NEW r, HandlerOK(r), handler[r] \in Early, handler'[r] = "done",
           stored' = stored
    PROVE  HandlerOK(r)'
BY Zenon DEF HandlerOK, Early

\* A handler that goes on to another place before the rename.
LEMMA HandlerGoesOn ==
    ASSUME NEW r, HandlerOK(r), handler[r] \in Early, handler'[r] \in Early,
           handler'[r] # "new", answer'[r] \in {0, 503}, reason'[r] = "none", stored' = stored
    PROVE  HandlerOK(r)'
BY Zenon DEF HandlerOK, Early

-----------------------------------------------------------------------------
\* The step of one handler: the others, and the reports, are left alone.
Alone(r) ==
    /\ shape' \in [Requests -> Shapes]
    /\ handler' \in [Requests -> Early \cup {"stored", "done", "killed"}]
    /\ answer' \in [Requests -> Statuses]
    /\ reason' \in [Requests -> Reasons]
    /\ \A q \in Requests \ {r} :
          /\ shape'[q] = shape[q] /\ handler'[q] = handler[q]
          /\ answer'[q] = answer[q] /\ reason'[q] = reason[q]

\* A report is acknowledged only when it has been stored, and stays so.
AckStep == Acked' = Acked \/ \E r \in stored : Acked' = Acked \cup {r}

\* It is enough to look at the request that moves.
LEMMA AloneStep ==
    ASSUME HandlerInv, NEW r \in Requests, Alone(r), stored' = stored, HandlerOK(r)',
           r \in Acked' => r \in Acked \/ r \in stored,
           r \in Acked => r \in Acked'
    PROVE  HandlerInv' /\ AckStep
<1>1. ASSUME NEW q \in Requests, q # r PROVE HandlerOK(q)'
  BY <1>1, HandlerFrame, Zenon DEF HandlerInv, Alone
<1>2. HandlerInv'
  BY <1>1, Zenon DEF HandlerInv, Alone
<1>3. ASSUME NEW q \in Requests, q # r PROVE q \in Acked' <=> q \in Acked
  BY <1>3 DEF Acked, Success, Alone
<1>4. Acked \subseteq Requests /\ Acked' \subseteq Requests
  BY Zenon DEF Acked
<1>5. AckStep
  BY <1>3, <1>4 DEF AckStep
<1> QED
  BY <1>2, <1>5, Zenon

\* Every step of a handler apart from the rename.
LEMMA ServeStep ==
    ASSUME HandlerInv, NEW r \in Requests, Handle(r), UNCHANGED proc
    PROVE  HandlerInv' /\ AckStep
<1>0. HandlerOK(r) /\ stored' = stored /\ Success(r) \in {200, 202}
  BY DEF HandlerInv, proc, Success
<1>1. CASE Route(r)
  <2>1. PICK x \in Shapes :
          /\ shape' = [shape EXCEPT ![r] = x]
          /\ CASE x.route = "unknown" ->
                    GotoH(r, "done") /\ Reply(r, 404) /\ UNCHANGED <<counted, reason>>
               [] x.route = "wrongMethod" ->
                    GotoH(r, "done") /\ Reply(r, 405) /\ UNCHANGED <<counted, reason>>
               [] x.route \in {"version", "versionHead"} -> VersionHandler(r, x)
               [] x.route = "upload" -> UploadServeHTTP(r, x)
               [] x.route = "legacy" -> LegacyServeHTTP(r, x)
    BY <1>1, Zenon DEF Route
  <2>2. handler[r] = "new" /\ answer[r] = 0
    BY <1>0, <1>1, Zenon DEF Route, HandlerOK
  <2>3. /\ shape'[r] = x
        /\ x.route \in {"upload", "legacy", "version", "versionHead", "unknown",
                        "wrongMethod"}
    BY <2>1, Zenon DEF HandlerInv, Shapes
  <2>4. \/ /\ GotoH(r, "done") /\ UNCHANGED reason
           /\ Reply(r, 404) \/ Reply(r, 405)
        \/ x.route = "version" /\ Finish(r, 200, "none")
        \/ Finish(r, 405, "method_not_allowed")
        \/ Finish(r, 403, "forbidden")
        \/ GotoH(r, "admit") /\ UNCHANGED <<answer, reason>>
    BY <2>1, <2>3, Zenon DEF UploadServeHTTP, LegacyServeHTTP, VersionHandler
  <2>5. Alone(r)
    BY <2>1, <2>4 DEF Alone, HandlerInv, Finish, Reply, GotoH, Early, Statuses, Reasons
  <2>6. HandlerOK(r)'
    <3>1. handler'[r] \in {"done", "admit"}
      BY <2>4, Zenon DEF HandlerInv, Finish, GotoH
    <3>2. handler'[r] = "admit" => answer'[r] = answer[r] /\ reason'[r] = reason[r]
      BY <2>4, Zenon DEF HandlerInv, Finish, GotoH
    <3> QED
      BY <1>0, <2>2, <3>1, <3>2, HandlerEnds, HandlerGoesOn DEF HandlerOK, Early
  <2>7. r \notin Acked
    BY <1>0, <2>2 DEF Acked
  <2>8. r \notin Acked'
    <3>1. x.route = "version" \/ answer'[r] \in {0, 403, 404, 405}
      BY <2>2, <2>4 DEF HandlerInv, Finish, Reply
    <3> QED
      BY <2>3, <3>1 DEF Acked, Success
  <2> QED
    BY <1>0, <2>5, <2>6, <2>7, <2>8, AloneStep, Zenon
<1>2. CASE Admit(r) \/ ReadBody(r) \/ Prepare(r) \/ WriteFails(r)
  <2>1. handler[r] \in Early \ {"new"} /\ shape' = shape
    BY <1>2, Zenon DEF Admit, ReadBody, Prepare, WriteFails, Early
  <2>2. \/ Finish(r, 403, "forbidden")
        \/ Finish(r, 400, "unreadable_payload")
        \/ Finish(r, 400, "invalid_json")
        \/ Finish(r, 500, "internal_server_error")
        \/ /\ UNCHANGED <<answer, reason>>
           /\ GotoH(r, "body") \/ GotoH(r, "mkdir") \/ GotoH(r, "create")
                 \/ GotoH(r, "write")
    BY <1>2, Zenon DEF Admit, ReadBody, Prepare, WriteFails
  <2>3. Alone(r)
    BY <2>1, <2>2 DEF Alone, HandlerInv, Finish, Reply, GotoH, Early, Statuses, Reasons
  <2>4. HandlerOK(r)'
    <3>1. \/ handler'[r] = "done"
          \/ /\ handler'[r] \in Early \ {"new"}
             /\ answer'[r] = answer[r] /\ reason'[r] = reason[r]
      BY <2>2 DEF HandlerInv, Finish, GotoH, Early
    <3> QED
      BY <1>0, <2>1, <3>1, HandlerEnds, HandlerGoesOn DEF HandlerOK
  <2>5. answer[r] \in {0, 503} /\ answer'[r] \in {0, 503, 400, 403, 500}
    BY <1>0, <2>1, <2>2 DEF HandlerOK, HandlerInv, Finish, Reply
  <2>6. r \notin Acked /\ r \notin Acked'
    BY <1>0, <2>1, <2>5 DEF Acked, Success
  <2> QED
    BY <1>0, <2>3, <2>4, <2>6, AloneStep, Zenon
<1>3. CASE Accept(r)
  <2>1. /\ r \in stored /\ answer[r] \in {0, 503} /\ shape' = shape
        /\ Finish(r, Success(r), "none")
    BY <1>0, <1>3, Zenon DEF Accept, HandlerOK
  <2>2. Alone(r)
    BY <1>0, <2>1 DEF Alone, HandlerInv, Finish, Reply, GotoH, Statuses, Reasons
  <2>3. /\ handler'[r] = "done" /\ reason'[r] = "none"
        /\ answer'[r] \in {Success(r), 503}
    BY <2>1 DEF HandlerInv, Finish, Reply, GotoH
  <2>4. HandlerOK(r)'
    BY <1>0, <2>1, <2>3 DEF HandlerOK, Success, Early
  <2>5. r \notin Acked
    BY <1>0, <2>1 DEF Acked
  <2> QED
    BY <1>0, <2>1, <2>2, <2>4, <2>5, AloneStep, Zenon
<1> QED
  BY <1>1, <1>2, <1>3, Zenon DEF Handle

\* The rename stores the report; the time limit and a kill store and
\* acknowledge nothing.
LEMMA OtherStep ==
    ASSUME HandlerInv, PipelineNext, ~ \E r \in Requests : Serve(r)
    PROVE  HandlerInv' /\ Acked' = Acked
<1>1. ASSUME NEW r \in Requests, Store(r) PROVE HandlerInv' /\ Acked' = Acked
  <2>1. /\ stored' = stored \cup {r} /\ handler[r] = "write"
        /\ handler' = [handler EXCEPT ![r] = "stored"]
        /\ UNCHANGED <<shape, answer, reason>>
    BY <1>1, Zenon DEF Store, Renamed, StoreFile, GotoH
  <2>2. HandlerOK(r)'
    BY <2>1 DEF HandlerOK, HandlerInv, Early
  <2>3. ASSUME NEW q \in Requests, q # r PROVE HandlerOK(q)'
    BY <2>1, <2>3, HandlerFrame, Zenon DEF HandlerInv
  <2> QED
    BY <2>1, <2>2, <2>3, Zenon DEF HandlerInv, Acked, Success
<1>2. ASSUME NEW r \in Requests, Time(r) PROVE HandlerInv' /\ Acked' = Acked
  <2>1. /\ stored' = stored /\ handler[r] \notin {"new", "done", "killed"}
        /\ answer[r] = 0 /\ answer' = [answer EXCEPT ![r] = 503]
        /\ UNCHANGED <<shape, handler, reason>>
    BY <1>2, Zenon DEF Time, TimeIsUp, proc
  <2>2. HandlerOK(r)'
    BY <2>1 DEF HandlerOK, HandlerInv, Early
  <2>3. ASSUME NEW q \in Requests, q # r PROVE HandlerOK(q)'
    BY <2>1, <2>3, HandlerFrame, Zenon DEF HandlerInv
  <2>4. HandlerInv'
    BY <2>1, <2>2, <2>3 DEF HandlerInv, Statuses
  <2>5. Acked' = Acked
    BY <2>1 DEF Acked, Success, HandlerInv
  <2> QED
    BY <2>4, <2>5, Zenon
<1>3. CASE KillWeb
  <2>1. /\ stored' = stored /\ UNCHANGED <<shape, answer, reason>>
        /\ handler' = [r \in Requests |-> IF handler[r] \in {"new", "done"}
                                          THEN handler[r] ELSE "killed"]
    BY <1>3, Zenon DEF KillWeb, IntakeKilled, proc
  <2>2. ASSUME NEW r \in Requests PROVE HandlerOK(r)'
    BY <2>1, <2>2 DEF HandlerOK, HandlerInv, Early, Success
  <2> QED
    BY <2>1, <2>2, Zenon DEF HandlerInv, Acked, Success
<1>4. ASSUME UNCHANGED intake, stored' = stored PROVE HandlerInv' /\ Acked' = Acked
  <2>1. ASSUME NEW r \in Requests PROVE HandlerOK(r)'
    BY <1>4, <2>1, HandlerFrame, Zenon DEF HandlerInv, intake
  <2> QED
    BY <1>4, <2>1, Zenon DEF HandlerInv, Acked, Success, intake
<1>5. ASSUME NEW w \in Workers, Work(w) \/ StartWorker(w) \/ StopWorker(w)
      PROVE  UNCHANGED intake /\ stored' = stored
  BY <1>5, Zenon DEF Work, StartWorker, StopWorker, Step, List, NextFile, Read, Commit,
              UploadFails, Uploaded, Reread, CommitInvalid, InvalidFails,
              InvalidUploaded, RemoveFile, Wake, Stop, Launch, Interrupt, disk
<1>6. CASE KillIngest
  BY <1>4, <1>6, Zenon DEF KillIngest, Killed, disk
<1> QED
  BY <1>1, <1>2, <1>3, <1>4, <1>5, <1>6, Zenon DEF PipelineNext

\* The invariant of the handlers is inductive.
LEMMA HandlerStep == HandlerInv /\ [PipelineNext]_pipeline => HandlerInv'
<1> SUFFICES ASSUME HandlerInv, [PipelineNext]_pipeline PROVE HandlerInv'
  OBVIOUS
<1>1. CASE \E r \in Requests : Serve(r)
  BY <1>1, ServeStep, Zenon DEF Serve
<1>2. CASE PipelineNext /\ ~ \E r \in Requests : Serve(r)
  BY <1>2, OtherStep, Zenon
<1>3. CASE UNCHANGED pipeline
  <2>1. ASSUME NEW r \in Requests PROVE HandlerOK(r)'
    BY <1>3, <2>1, HandlerFrame, Zenon DEF HandlerInv, pipeline, intake, proc
  <2> QED
    BY <1>3, <2>1, Zenon DEF HandlerInv, pipeline, intake
<1> QED
  BY <1>1, <1>2, <1>3, Zenon

\* No request that was refused leaves a report, for any number of requests and
\* whatever times out or is killed (json_hander.go:22-74).
THEOREM RefusedLeavesNothing == PipelineSpec => []RefusedNotStored
<1>1. ProcInv /\ HandlerInv => RefusedNotStored
  <2> SUFFICES ASSUME ProcInv, HandlerInv PROVE RefusedNotStored
    OBVIOUS
  <2>1. stored \subseteq Requests
    BY PipelineAssumption, Zenon DEF ProcInv, FilesInv
  <2> QED
    BY <2>1, Zenon DEF HandlerInv, HandlerOK, RefusedNotStored
<1> QED
  BY <1>1, HandlerInit, HandlerStep, PipelineRunsProcessor, InitInv, StepInv, PTL
     DEF PipelineSpec, ProcSpec

-----------------------------------------------------------------------------
\* The abstract variables, and a step of Delivery.
Recorded == {r \in Reports : rows[r] > 0}
Sound == {r \in Reports : Uploadable(r)}
Same == stored' = stored /\ spool' = spool /\ Recorded' = Recorded /\ unread' = unread
\* A step of the processor, or of its surroundings, is a step of Delivery that
\* acknowledges nothing, or it changes nothing of Delivery.
LEMMA ProcDelivers ==
    ASSUME ProcInv, ProcNext, Acked' = Acked
    PROVE  D!DNext \/ Same
<1> USE DEF D!DNext, D!Take, D!Record, D!GiveUp, D!Release
<1>0. /\ FilesInv /\ KnowsInv /\ stored \subseteq Reports /\ spool \subseteq Reports
      /\ rows \in [Reports -> Nat]
  BY Zenon DEF ProcInv, FilesInv
<1>1. ASSUME NEW r \in Reports, StoreFile(r) PROVE D!Take(r)
  BY <1>1, Zenon DEF StoreFile, histories
<1>2. ASSUME NEW w \in Workers, Read(w) \/ Reread(w)
      PROVE  Same \/ D!GiveUp(cur[w])
  <2>1. rows' = rows /\ stored' = stored /\ spool' = spool
    BY <1>2, Zenon DEF Read, Reread, disk
  <2>2. \/ unread' = unread
        \/ cur[w] \in spool /\ unread' = unread \cup {cur[w]}
    BY <1>2, Zenon DEF Read, Reread
  <2> QED
    BY <2>1, <2>2, Zenon DEF Same, Recorded
<1>3. ASSUME NEW w \in Workers, Commit(w) PROVE D!Record(cur[w])
  <2>1. /\ rows' = [rows EXCEPT ![cur[w]] = @ + 1]
        /\ stored' = stored /\ spool' = spool /\ unread' = unread
    BY <1>3, Zenon DEF Commit, disk, histories
  <2>2. cur[w] \in stored /\ cur[w] \in Reports /\ Uploadable(cur[w])
    BY <1>0, <1>3, Zenon DEF Commit, FilesInv, KnowsInv, Knows, Holding
  <2>3. \A r \in Reports : rows'[r] > 0 <=> rows[r] > 0 \/ r = cur[w]
    BY <1>0, <2>1, <2>2
  <2> QED
    BY <2>1, <2>2, <2>3, Zenon
<1>4. ASSUME NEW w \in Workers, RemoveFile(w) PROVE Same \/ D!Release(cur[w])
  <2>1. /\ rows' = rows /\ stored' = stored /\ unread' = unread
        /\ spool' = spool \/ spool' = spool \ {cur[w]}
    BY <1>4, Zenon DEF RemoveFile
  <2>2. CASE spool' = spool
    BY <2>1, <2>2, Zenon DEF Same, Recorded
  <2>3. CASE spool' = spool \ {cur[w]} /\ cur[w] \in spool
    <3>1. cur[w] \in unread \/ Kept(cur[w])
      BY <1>0, <1>4, <2>3, Zenon DEF RemoveFile, KnowsInv, Knows
    <3>2. cur[w] \in Sound => cur[w] \in Recorded \cup unread
      BY <3>1, Zenon DEF Kept, Sound, Recorded
    <3> QED
      BY <2>1, <2>3, <3>2, Zenon DEF Sound, Recorded
  <2> QED
    BY <2>1, <2>2, <2>3, Zenon
<1>5. ASSUME NEW w \in Workers,
             List(w) \/ NextFile(w) \/ UploadFails(w) \/ Uploaded(w)
                \/ CommitInvalid(w) \/ InvalidFails(w) \/ InvalidUploaded(w)
                \/ Wake(w) \/ Stop(w) \/ Launch(w)
      PROVE  Same
  BY <1>5, Zenon DEF List, NextFile, UploadFails, Uploaded, CommitInvalid, InvalidFails,
              InvalidUploaded, Wake, Stop, Launch, disk, histories, Same, Recorded
<1>6. CASE Killed \/ \E ws \in SUBSET Workers : Interrupt(ws)
  BY <1>6, Zenon DEF Killed, Interrupt, disk, histories, Same, Recorded
<1>7. ASSUME NEW w \in Workers, D!GiveUp(cur[w]) \/ D!Record(cur[w]) \/ D!Release(cur[w]),
             cur[w] \in Reports
      PROVE  D!DNext
  BY <1>7, Zenon DEF D!DNext
<1>8. ASSUME NEW w \in Workers, Read(w) \/ Reread(w) \/ Commit(w) \/ RemoveFile(w)
      PROVE  cur[w] \in Reports
  BY <1>0, <1>8, Zenon DEF Read, Reread, Commit, RemoveFile, FilesInv, Holding
<1>9. ASSUME NEW w \in Workers, Step(w) \/ Launch(w)
      PROVE  D!DNext \/ Same
  BY <1>2, <1>3, <1>4, <1>5, <1>7, <1>8, <1>9, Zenon DEF Step
<1> QED
  BY <1>1, <1>6, <1>9, Zenon DEF ProcNext

\* Every step of the server is a step of Delivery or changes nothing of it.
LEMMA PipelineDelivers ==
    ASSUME ProcInv, HandlerInv, [PipelineNext]_pipeline
    PROVE  [D!DNext]_(D!delivery)
<1>1. CASE \E r \in Requests : Serve(r)
  <2>1. AckStep /\ UNCHANGED proc
    BY <1>1, ServeStep, Zenon DEF Serve
  <2>2. Same
    BY <2>1, Zenon DEF Same, Recorded, proc
  <2>3. CASE Acked' = Acked
    BY <2>2, <2>3, Zenon DEF D!delivery, Same, Recorded
  <2>4. CASE \E r \in stored : Acked' = Acked \cup {r}
    <3>1. PICK r \in stored : Acked' = Acked \cup {r}
      BY <2>4, Zenon
    <3>2. r \in Reports
      BY Zenon DEF ProcInv, FilesInv
    <3>3. D!Acknowledge(r)
      BY <2>2, <3>1, Zenon DEF D!Acknowledge, Same, Recorded
    <3> QED
      BY <3>2, <3>3, Zenon DEF D!DNext
  <2> QED
    BY <2>1, <2>3, <2>4, Zenon DEF AckStep
<1>2. CASE PipelineNext /\ ~ \E r \in Requests : Serve(r)
  <2>1. Acked' = Acked
    BY <1>2, OtherStep, Zenon
  <2>2. ProcNext \/ UNCHANGED proc
    BY PipelineStepsProc, Zenon
  <2>3. D!DNext \/ Same
    BY <2>1, <2>2, ProcDelivers, Zenon DEF Same, Recorded, proc
  <2> QED
    BY <2>1, <2>3, Zenon DEF D!delivery, Same, Recorded
<1>3. CASE UNCHANGED pipeline
  BY <1>3, Zenon DEF D!delivery, pipeline, intake, proc, Acked, Success
<1> QED
  BY <1>1, <1>2, <1>3, Zenon

\* The server implements Delivery, for any number of requests, reports, workers
\* and faults: what it acknowledges it has stored, and what it has stored leaves
\* the spool only when it is recorded, not sound, or could not be read
\* (json_hander.go:65-74, processor.go:189-261).
THEOREM ServerDelivers == PipelineSpec => ImplementsDelivery
<1>1. PipelineInit => D!DInit
  BY DEF PipelineInit, IntakeInit, ProcInit, D!DInit, Acked, Success
<1> QED
  BY <1>1, PipelineDelivers, HandlerInit, HandlerStep, InitInv, StepInv,
     PipelineStepsProc, PTL
     DEF PipelineSpec, PipelineInit, ImplementsDelivery, D!DSpec

\* What Delivery keeps: what is acknowledged was taken, and what was taken and is
\* sound is held, recorded or unreadable.
Owed ==
    /\ Acked \subseteq stored
    /\ stored \cap Sound \subseteq spool \cup Recorded \cup unread

LEMMA OwedStep == Owed /\ [D!DNext]_(D!delivery) => Owed'
<1> SUFFICES ASSUME Owed, [D!DNext]_(D!delivery) PROVE Owed'
  OBVIOUS
<1>0. Sound' = Sound
  BY Zenon DEF Sound, Uploadable, Verdict
<1>1. CASE UNCHANGED D!delivery
  BY <1>0, <1>1, Zenon DEF Owed, D!delivery, Recorded
<1>2. ASSUME NEW r \in Reports,
             \/ D!Take(r) \/ D!Acknowledge(r) \/ D!Record(r) \/ D!GiveUp(r)
             \/ D!Release(r)
      PROVE  Owed'
  BY <1>0, <1>2, Zenon DEF Owed, Recorded, Sound, D!Take, D!Acknowledge, D!Record, D!GiveUp,
                    D!Release
<1> QED
  BY <1>1, <1>2, Zenon DEF D!DNext

\* The promise to the sender, for any number of requests, reports, workers and
\* faults: a sound report whose sender was told 202 or 200 is in the spool or
\* in its table, unless a read of it failed (json_hander.go:74,
\* processor.go:189-261).
THEOREM AcknowledgedIsKept == PipelineSpec => []D!Promise
<1>1. D!DInit => Owed
  BY Zenon DEF D!DInit, Owed
<1>2. Owed => D!Promise
  BY Zenon DEF Owed, Sound, Recorded, D!Promise
<1> QED
  BY <1>1, <1>2, OwedStep, ServerDelivers, PTL DEF ImplementsDelivery, D!DSpec

-----------------------------------------------------------------------------
\* What the metrics count, and the temporary files.
MetricsInv ==
    /\ counted \in [Requests -> Statuses \ {503}]
    /\ temp \subseteq Requests

LEMMA MetricsStep == HandlerInv /\ MetricsInv /\ [PipelineNext]_pipeline => MetricsInv'
<1> SUFFICES ASSUME HandlerInv, MetricsInv, [PipelineNext]_pipeline PROVE MetricsInv'
  OBVIOUS
<1> USE DEF MetricsInv
<1>1. ASSUME NEW r \in Requests, NEW status \in Statuses \ {503}, NEW why,
             Finish(r, status, why)
      PROVE  counted' \in [Requests -> Statuses \ {503}]
  BY <1>1, Zenon DEF Finish
<1>2. {200, 202, 400, 403, 405, 500} \subseteq Statuses \ {503}
  BY DEF Statuses
<1>3. ASSUME NEW r \in Requests, Handle(r) PROVE MetricsInv'
  <2>1. CASE Route(r)
    <3>1. PICK x \in Shapes :
             \/ UNCHANGED counted
             \/ Finish(r, 200, "none") \/ Finish(r, 403, "forbidden")
             \/ Finish(r, 405, "method_not_allowed")
      <4>1. \A x \in Shapes :
               x.route \in {"upload", "legacy", "version", "versionHead", "unknown",
                            "wrongMethod"}
        BY Zenon DEF Shapes
      <4> QED
        BY <2>1, <4>1, Zenon DEF Route, UploadServeHTTP, LegacyServeHTTP, VersionHandler
    <3> QED
      BY <1>1, <1>2, <2>1, <3>1 DEF Route
  <2>2. CASE Admit(r) \/ ReadBody(r) \/ Prepare(r) \/ WriteFails(r)
    <3>1. \/ UNCHANGED counted
          \/ Finish(r, 403, "forbidden") \/ Finish(r, 400, "unreadable_payload")
          \/ Finish(r, 400, "invalid_json") \/ Finish(r, 500, "internal_server_error")
      BY <2>2, Zenon DEF Admit, ReadBody, Prepare, WriteFails
    <3>2. temp' \subseteq temp \cup {r}
      BY <2>2 DEF Admit, ReadBody, Prepare, WriteFails
    <3> QED
      BY <1>1, <1>2, <3>1, <3>2
  <2>3. CASE Accept(r)
    <3>1. Success(r) \in {200, 202}
      BY DEF Success
    <3> QED
      BY <1>1, <1>2, <2>3, <3>1 DEF Accept
  <2> QED
    BY <1>3, <2>1, <2>2, <2>3, Zenon DEF Handle
<1>4. ASSUME NEW r \in Requests, Renamed(r) \/ TimeIsUp(r) PROVE MetricsInv'
  BY <1>4 DEF Renamed, TimeIsUp
<1>5. CASE IntakeKilled \/ UNCHANGED intake
  BY <1>5 DEF IntakeKilled, intake
<1> QED
  BY <1>3, <1>4, <1>5, Zenon DEF PipelineNext, Serve, Store, Time, Work, StartWorker,
                          StopWorker, KillWeb, KillIngest, pipeline

\* The variables of the server keep their types: the handler of an endpoint never
\* counts the 503 of the time limit, which TimeoutHandler writes in its place
\* (webservice.go:92, endpoint_metrics.go:52-96).
THEOREM PipelineTypes == PipelineSpec => []PipelineTypeOK
<1>1. PipelineInit => MetricsInv
  BY DEF PipelineInit, IntakeInit, MetricsInv, Statuses
<1>2. HandlerInv /\ MetricsInv /\ ProcTypeOK => PipelineTypeOK
  BY DEF HandlerInv, MetricsInv, PipelineTypeOK, IntakeTypeOK, Early
<1> QED
  BY <1>1, <1>2, HandlerInit, HandlerStep, MetricsStep, PipelineRunsProcessor,
     ProcessorTypes, PTL DEF PipelineSpec

=============================================================================
