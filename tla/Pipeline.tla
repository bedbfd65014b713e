------------------------------ MODULE Pipeline ------------------------------
(***************************************************************************)
(* The server as a whole: the web service puts reports into the spool      *)
(* directory (Intake), the workers of the ingest service take them out and *)
(* insert them (Processor), and either process may be killed at any step.  *)
(* It implements Delivery.                                                 *)
(***************************************************************************)
EXTENDS Intake, Processor

ASSUME PipelineAssumption == Requests = Reports

pipeline == <<intake, proc>>

PipelineInit == IntakeInit /\ ProcInit

Serve(r) == Handle(r) /\ UNCHANGED proc
Store(r) == Renamed(r) /\ StoreFile(r)
Time(r) == TimeIsUp(r) /\ UNCHANGED proc
Work(w) == Step(w) /\ UNCHANGED intake
StartWorker(w) == Launch(w) /\ UNCHANGED intake
StopWorker(w) == Interrupt({w}) /\ UNCHANGED intake
KillWeb == IntakeKilled /\ UNCHANGED proc
KillIngest == Killed /\ UNCHANGED intake

PipelineNext ==
    \/ \E r \in Requests : Serve(r) \/ Store(r) \/ Time(r)
    \/ \E w \in Workers : Work(w) \/ StartWorker(w) \/ StopWorker(w)
    \/ KillWeb
    \/ KillIngest

PipelineSpec == PipelineInit /\ [][PipelineNext]_pipeline

-----------------------------------------------------------------------------
PipelineTypeOK == IntakeTypeOK /\ ProcTypeOK

\* The abstract view: rows and answers are what the outside sees.
D == INSTANCE Delivery WITH
       Items <- Reports,
       Sound <- {r \in Reports : Uploadable(r)},
       taken <- stored,
       held <- spool,
       acked <- Acked,
       recorded <- {r \in Reports : rows[r] > 0},
       unreadable <- unread

\* Every step of the server is a step of Delivery or changes nothing of it:
\* what is acknowledged was stored, and a stored report leaves the spool only
\* when it has its row, although inserts fail, answers are lost, two workers
\* take the same file and processes are killed (json_hander.go:65-74,
\* processor.go:189-261).
ImplementsDelivery == D!DSpec

\* A request whose answer is not a success may have stored its report all the
\* same, but only because the time was up or the service was killed; and what
\* the metrics count as accepted was stored (json_hander.go:22-74).
RefusedNotStored ==
    \A r \in stored :
       /\ answer[r] \in {0, Success(r), 503}
       /\ reason[r] = "none"

=============================================================================
