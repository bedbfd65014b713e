---------------------------- MODULE ServerProofs ----------------------------
(***************************************************************************)
(* Proofs about the parts of the server, for any number of callers of      *)
(* Quit, of migrating processes and of migrations: what a Run that has     *)
(* returned leaves behind, what a migration leaves behind at every step,   *)
(* and the types of all parts.                                             *)
(***************************************************************************)
EXTENDS Server, Sequences, ProcessorProofs

-----------------------------------------------------------------------------
(***************************************************************************)
(* The ingest service.                                                     *)
(***************************************************************************)
\* What Run of the ingest service holds at each of its lines.
RunInv ==
    /\ iRun \in {"idle", "checked"} =>
           /\ running = "initial" /\ got = {} /\ result = {} /\ iFailed = {}
           /\ \A x \in I!Subs : sub[x] = "off"
    /\ iRun = "started" => running = "open" /\ got = {} /\ result = {}
    /\ iRun = "waiting" => running = "open" /\ got # {} /\ result = iFailed \cap got
    /\ iRun = "returned" /\ running = "closed" /\ "teardownTimeout" \notin result =>
           got = I!Subs /\ iFailed \subseteq result

\* The contexts of the ingest service: whoever cancels the one cancels the other.
IngestContexts == iCtx \in BOOLEAN /\ iGrace \in BOOLEAN /\ (iCtx => iGrace)

\* The rest of its types.
IngestTypes ==
    /\ I!HttpTypeOK
    /\ iRun \in {"idle", "checked", "started", "waiting", "returned"}
    /\ running \in {"initial", "open", "closed"}
    /\ sub \in [I!Subs -> {"off", "running", "shutdown", "done"}]
    /\ iFailed \subseteq I!Done
    /\ got \subseteq I!Done
    /\ result \subseteq I!Subs \cup {"canceled", "teardownTimeout"}
    /\ iQuit \in [Callers -> {"idle", "asked", "wait", "returned"}]
    /\ iForce \in [Callers -> BOOLEAN]

IngestInv == IngestContexts /\ IngestTypes /\ RunInv

\* The server for metrics, as far as its types go.
LEMMA IngestHttp ==
    ASSUME I!HttpTypeOK,
           \/ UNCHANGED <<iListener, iBusy, iCut>>
           \/ I!Listen("metrics") \/ I!ServeFails("metrics") \/ I!Request("metrics")
           \/ I!Respond("metrics") \/ I!Shutdown("metrics") \/ I!Close({"metrics"})
    PROVE  I!HttpTypeOK'
<1> USE DEF I!HttpTypeOK
<1>1. CASE UNCHANGED <<iListener, iBusy, iCut>>
  BY <1>1, Zenon
<1>2. CASE I!Listen("metrics") \/ I!ServeFails("metrics") \/ I!Shutdown("metrics")
  BY <1>2, Zenon DEF I!Listen, I!ServeFails, I!Shutdown, I!Down
<1>3. CASE I!Request("metrics") \/ I!Respond("metrics")
  <2>1. iBusy["metrics"] \in 0 .. MaxBusy /\ MaxBusy \in Nat
    BY ServerAssumption, Zenon
  <2>2. PICK n \in 0 .. MaxBusy : iBusy' = [iBusy EXCEPT !["metrics"] = n]
    BY <1>3, <2>1 DEF I!Request, I!Respond
  <2>3. UNCHANGED <<iListener, iCut>>
    BY <1>3, Zenon DEF I!Request, I!Respond
  <2> QED
    BY <2>2, <2>3, Zenon
<1>4. CASE I!Close({"metrics"})
  <2>1. iListener' \in [{"metrics"} -> {"new", "listening", "failed", "down"}]
    BY <1>4, Zenon DEF I!Close, I!Down
  <2>2. 0 \in 0 .. MaxBusy
    BY ServerAssumption
  <2>3. iBusy' \in [{"metrics"} -> 0 .. MaxBusy] /\ iCut' \subseteq {"metrics"}
    BY <1>4, <2>2, Zenon DEF I!Close
  <2> QED
    BY <2>1, <2>3, Zenon
<1> QED
  BY <1>1, <1>2, <1>3, <1>4, Zenon

\* The contexts are only ever cancelled.
LEMMA IngestContextsStep ==
    ASSUME IngestInv, I!IngestNext
    PROVE  IngestContexts'
<1>0. IngestContexts /\ iForce \in [Callers -> BOOLEAN]
  BY Zenon DEF IngestInv, IngestTypes
<1>1. \/ iCtx' = iCtx /\ iGrace' = iGrace
      \/ iCtx' = TRUE /\ iGrace' = TRUE
      \/ iCtx' = iCtx /\ iGrace' = TRUE
      \/ \E q \in Callers : iCtx' = (iCtx \/ iForce[q]) /\ iGrace' = TRUE
  <2>1. CASE I!Run
    BY <2>1, Zenon DEF I!Run, I!Check, I!StartSubs, I!First, I!Second, I!TeardownTimeout, I!Return
  <2>2. CASE I!WorkersEnd \/ I!MetricsEnd \/ I!MetricsShutdown \/ I!Http
    BY <2>2, Zenon DEF I!WorkersEnd, I!MetricsEnd, I!MetricsShutdown, I!Http, I!End
  <2>3. ASSUME NEW q \in Callers, I!Quit(q)
        PROVE  \/ iCtx' = iCtx /\ iGrace' = iGrace
               \/ iCtx' = (iCtx \/ iForce[q]) /\ iGrace' = TRUE
    BY <2>3, Zenon DEF I!Quit, I!Ask, I!ReadRunning, I!QuitReturns
  <2> QED
    BY <2>1, <2>2, <2>3, Zenon DEF I!IngestNext
<1>2. \A q \in Callers : (iCtx \/ iForce[q]) \in BOOLEAN
  OBVIOUS
<1>3. iCtx' \in BOOLEAN /\ iGrace' \in BOOLEAN
  BY <1>0, <1>1, <1>2, Zenon DEF IngestContexts
<1>4. iCtx' => iGrace'
  BY <1>0, <1>1, Zenon DEF IngestContexts
<1> QED
  BY <1>3, <1>4, Zenon DEF IngestContexts

\* A result that is not the first is the last.
LEMMA BothResults ==
    ASSUME NEW G, G # {}, G \subseteq I!Subs, NEW x \in I!Subs, x \notin G
    PROVE  G \cup {x} = I!Subs
BY Zenon DEF I!Subs

\* Every step keeps what Run knows, and the other types.
LEMMA IngestStep ==
    ASSUME IngestInv, I!IngestNext
    PROVE  IngestTypes' /\ RunInv'
<1> USE DEF IngestInv, IngestTypes, RunInv, I!Subs, I!Done, I!http, I!service, I!callers
<1>1. CASE I!Check
  BY <1>1, IngestHttp, Zenon DEF I!Check
<1>2. CASE I!StartSubs
  BY <1>2, IngestHttp, Zenon DEF I!StartSubs
<1>3. CASE I!First
  BY <1>3, IngestHttp, Zenon DEF I!First
<1>4. CASE I!Second
  <2>1. PICK x \in I!Done \ got :
          /\ iRun = "waiting" /\ iRun' = "returned" /\ running' = "closed"
          /\ got' = got \cup {x} /\ result' = result \cup (iFailed \cap {x})
          /\ UNCHANGED <<iListener, iBusy, iCut, sub, iFailed, iQuit, iForce>>
    BY <1>4, Zenon DEF I!Second, I!Return
  <2>2. got' = I!Subs
    <3>1. got # {} /\ got \subseteq I!Subs /\ x \in I!Subs /\ x \notin got
      BY <2>1, Zenon
    <3> HIDE DEF I!Subs
    <3> QED
      BY <2>1, <3>1, BothResults, Zenon
  <2>4. result' = iFailed
    <3>1. result' = iFailed \cap got'
      BY <2>1, Zenon
    <3> QED
      BY <2>2, <3>1, Zenon
  <2>3. IngestTypes'
    BY <2>1, <2>2, <2>4, IngestHttp, Zenon
  <2> QED
    BY <2>1, <2>2, <2>3, <2>4, Zenon
<1>5. CASE I!TeardownTimeout
  BY <1>5, IngestHttp, Zenon DEF I!TeardownTimeout, I!Return
<1>6. ASSUME NEW x \in I!Subs, NEW e \in BOOLEAN, I!End(x, e), I!HttpTypeOK',
             sub[x] \in {"running", "shutdown"}
      PROVE  IngestTypes' /\ RunInv'
  BY <1>6 DEF I!End
<1>7. CASE I!WorkersEnd
  BY <1>6, <1>7, IngestHttp, Zenon DEF I!WorkersEnd
<1>8. CASE I!MetricsEnd
  BY <1>6, <1>8, IngestHttp, Zenon DEF I!MetricsEnd
<1>9. CASE I!MetricsShutdown
  BY <1>9, IngestHttp, Zenon DEF I!MetricsShutdown
<1>10. CASE I!Http
  BY <1>10, IngestHttp, Zenon DEF I!Http
<1>11. ASSUME NEW q \in Callers, I!Quit(q) PROVE IngestTypes' /\ RunInv'
  BY <1>11, IngestHttp, Zenon DEF I!Quit, I!Ask, I!ReadRunning, I!QuitReturns
<1> QED
  BY <1>1, <1>2, <1>3, <1>4, <1>5, <1>7, <1>8, <1>9, <1>10, <1>11, Zenon
     DEF I!IngestNext, I!Run

LEMMA IngestInitInv == I!IngestInit => IngestInv
<1> SUFFICES ASSUME I!IngestInit PROVE IngestInv
  OBVIOUS
<1>1. IngestContexts
  BY Zenon DEF I!IngestInit, IngestContexts
<1>2. I!HttpTypeOK
  BY ServerAssumption DEF I!IngestInit, I!HttpInit, I!HttpTypeOK
<1>3. IngestTypes
  BY <1>2, Zenon DEF I!IngestInit, IngestTypes, I!Subs, I!Done
<1>4. RunInv
  BY Zenon DEF I!IngestInit, RunInv, I!Subs
<1> QED
  BY <1>1, <1>3, <1>4, Zenon DEF IngestInv

LEMMA IngestStepInv == IngestInv /\ [I!IngestNext]_(I!ingest) => IngestInv'
<1> SUFFICES ASSUME IngestInv, [I!IngestNext]_(I!ingest) PROVE IngestInv'
  OBVIOUS
<1>1. CASE I!IngestNext
  BY <1>1, IngestContextsStep, IngestStep, Zenon DEF IngestInv
<1>2. CASE UNCHANGED I!ingest
  BY <1>2, Zenon DEF I!ingest, I!http, IngestInv, IngestContexts, IngestTypes, RunInv,
              I!HttpTypeOK, I!Done
<1> QED
  BY <1>1, <1>2, Zenon

LEMMA IngestInvReturns == IngestInv => I!ReturnsWithAllResults
BY Zenon DEF IngestInv, IngestTypes, RunInv, I!ReturnsWithAllResults, I!Done

\* Run of the ingest service returns only when the pool and the metrics server
\* have ended, unless it was never started or reports that it gave up, and with
\* the errors of both, whoever calls Quit, at any moment and however often
\* (ingest.go:89, 111-122).
THEOREM IngestReturnsWithAllResults == I!IngestSpec => []I!ReturnsWithAllResults
BY IngestInitInv, IngestStepInv, IngestInvReturns, PTL DEF I!IngestSpec

-----------------------------------------------------------------------------
(***************************************************************************)
(* The web service.                                                        *)
(***************************************************************************)
\* Only a server that is in its select has an open listener.
ListenInv ==
    \A s \in {"primary", "metrics"} :
        /\ serve[s] # "select" => listener[s] # "listening"
        /\ serve[s] = "shutdown" => listener[s] # "new"

\* Nothing of the web service ends by itself without an error.
CauseInv ==
    \/ grace \/ watcher = "closed"
    \/ \E s \in {"primary", "metrics"} :
         listener[s] = "down" \/ serve[s] \in {"shutdown", "done"}
    => failed # {} \/ \E q \in Callers : quit[q] # "idle"

\* Run waits for both.
ClosedInv ==
    \A s \in {"primary", "metrics"} :
        /\ run = "idle" => serve[s] = "off"
        /\ run = "returned" => serve[s] = "done"

WebContexts == ctx \in BOOLEAN /\ grace \in BOOLEAN /\ (ctx => grace)

WebTypes ==
    /\ W!HttpTypeOK
    /\ run \in {"idle", "started", "returned"}
    /\ serve \in [{"primary", "metrics"} ->
                     {"off", "begin", "select", "shutdown", "done"}]
    /\ failed \subseteq {"primary", "metrics"}
    /\ watcher \in {"off", "on", "error", "closed"}
    /\ quit \in [Callers -> {"idle", "asked", "returned"}]
    /\ force \in [Callers -> BOOLEAN]

WebInv == WebContexts /\ WebTypes /\ ListenInv /\ CauseInv /\ ClosedInv

\* Either server, as far as its types go.
LEMMA WebHttp ==
    ASSUME W!HttpTypeOK,
           \/ UNCHANGED <<listener, busy, cut>>
           \/ \E s \in {"primary", "metrics"} :
                W!Listen(s) \/ W!ServeFails(s) \/ W!Request(s) \/ W!Respond(s)
                \/ W!Shutdown(s)
           \/ \E ss \in SUBSET {"primary", "metrics"} : W!Close(ss)
    PROVE  W!HttpTypeOK'
<1> USE DEF W!HttpTypeOK
<1>1. CASE UNCHANGED <<listener, busy, cut>>
  BY <1>1, Zenon
<1>2. ASSUME NEW s \in {"primary", "metrics"}, W!Listen(s) \/ W!ServeFails(s) \/ W!Shutdown(s)
      PROVE  W!HttpTypeOK'
  BY <1>2, Zenon DEF W!Listen, W!ServeFails, W!Shutdown, W!Down
<1>3. ASSUME NEW s \in {"primary", "metrics"}, W!Request(s) \/ W!Respond(s)
      PROVE  W!HttpTypeOK'
  <2>1. busy[s] \in 0 .. MaxBusy /\ MaxBusy \in Nat
    BY ServerAssumption, Zenon
  <2>2. PICK n \in 0 .. MaxBusy : busy' = [busy EXCEPT ![s] = n]
    BY <1>3, <2>1 DEF W!Request, W!Respond
  <2>3. UNCHANGED <<listener, cut>>
    BY <1>3, Zenon DEF W!Request, W!Respond
  <2> QED
    BY <2>2, <2>3, Zenon
<1>4. ASSUME NEW ss \in SUBSET {"primary", "metrics"}, W!Close(ss) PROVE W!HttpTypeOK'
  <2>1. listener' \in [{"primary", "metrics"} -> {"new", "listening", "failed", "down"}]
    BY <1>4, Zenon DEF W!Close, W!Down
  <2>2. 0 \in 0 .. MaxBusy
    BY ServerAssumption
  <2>3. busy' \in [{"primary", "metrics"} -> 0 .. MaxBusy] /\ cut' \subseteq {"primary", "metrics"}
    BY <1>4, <2>2, Zenon DEF W!Close
  <2> QED
    BY <2>1, <2>3, Zenon
<1> QED
  BY <1>1, <1>2, <1>3, <1>4, Zenon

\* The contexts of the web service are only ever cancelled, too.
LEMMA WebContextsStep ==
    ASSUME WebInv, W!WebNext
    PROVE  WebContexts'
<1>0. WebContexts /\ force \in [Callers -> BOOLEAN]
  BY Zenon DEF WebInv, WebTypes
<1>1. \/ ctx' = ctx /\ grace' = grace
      \/ ctx' = TRUE /\ grace' = TRUE
      \/ \E q \in Callers : ctx' = ctx /\ grace' = (grace \/ ~force[q])
  <2>1. CASE W!Start \/ W!Watch \/ W!SelectWatch \/ W!Return
    BY <2>1, Zenon DEF W!Start, W!Watch, W!SelectWatch, W!Return, W!End
  <2>2. ASSUME NEW s \in {"primary", "metrics"}, W!Server(s) \/ W!Http(s)
        PROVE  \/ ctx' = ctx /\ grace' = grace
               \/ ctx' = TRUE /\ grace' = TRUE
    BY <2>2, Zenon DEF W!Server, W!Http, W!Begin, W!SelectGrace, W!SelectServer, W!ShutdownEnds,
                W!End
  <2>3. ASSUME NEW q \in Callers, W!Quit(q)
        PROVE  \/ ctx' = TRUE /\ grace' = TRUE
               \/ ctx' = ctx /\ grace' = (grace \/ ~force[q])
    BY <2>3, Zenon DEF W!Quit, W!Ask, W!QuitCancels
  <2> QED
    BY <2>1, <2>2, <2>3, Zenon DEF W!WebNext
<1>2. \A q \in Callers : (grace \/ ~force[q]) \in BOOLEAN
  OBVIOUS
<1>3. ctx' \in BOOLEAN /\ grace' \in BOOLEAN
  BY <1>0, <1>1, <1>2, Zenon DEF WebContexts
<1>4. ctx' => grace'
  BY <1>0, <1>1, Zenon DEF WebContexts
<1> QED
  BY <1>3, <1>4, Zenon DEF WebContexts

\* Every step of the two servers, the watcher and Quit keeps the listeners in
\* step with their goroutines.
LEMMA WebListenStep ==
    ASSUME WebInv, W!WebNext
    PROVE  WebTypes' /\ ListenInv' /\ ClosedInv'
<1> USE DEF WebInv, WebTypes, ListenInv, ClosedInv, W!http, W!callers
<1> DEFINE Stays == WebTypes' /\ ListenInv' /\ ClosedInv'
<1>a. listener \in [{"primary", "metrics"} -> {"new", "listening", "failed", "down"}]
  BY Zenon DEF W!HttpTypeOK
<1>1. CASE W!Start
  BY <1>1, WebHttp, Zenon DEF W!Start
<1>2. CASE W!Watch
  BY <1>2, WebHttp, Zenon DEF W!Watch
<1>b. ASSUME NEW s \in {"primary", "metrics"}, NEW e \in BOOLEAN,
             serve[s] \notin {"off", "done"},
             W!Goto(s, "done"), failed' = failed \cup (IF e THEN {s} ELSE {}),
             W!HttpTypeOK', listener'[s] # "listening",
             \A r \in {"primary", "metrics"} : r # s => listener'[r] = listener[r],
             UNCHANGED <<run, watcher, quit, force>>
      PROVE  Stays
  BY <1>b, Zenon DEF W!Goto
<1>3. CASE W!SelectWatch
  <2>1. /\ listener'["primary"] # "listening"
        /\ listener'["metrics"] = listener["metrics"]
    BY <1>3, <1>a, Zenon DEF W!SelectWatch, W!Close, W!Down
  <2> QED
    BY <1>3, <1>b, <2>1, WebHttp, Zenon DEF W!SelectWatch, W!End
<1>4. CASE W!Return
  <2>1. W!HttpTypeOK'
    BY <1>4, Zenon DEF W!Return, W!HttpTypeOK
  <2> QED
    BY <1>4, <2>1, Zenon DEF W!Return
<1>5. ASSUME NEW s \in {"primary", "metrics"}, W!Begin(s) PROVE Stays
  <2>1. W!HttpTypeOK' /\ UNCHANGED listener
    BY <1>5, WebHttp, Zenon DEF W!Begin
  <2> QED
    <3>1. CASE W!Goto(s, "done")
      <4>1. serve'[s] # "select"
        BY <3>1, Zenon DEF W!Goto
      <4>2. /\ serve[s] = "begin" /\ UNCHANGED <<run, watcher, quit, force>>
            /\ failed' = failed \cup (IF TRUE THEN {s} ELSE {})
        BY <1>5, <4>1, Zenon DEF W!Begin, W!End, W!Goto
      <4> QED
        BY <1>b, <2>1, <3>1, <4>2, Zenon
    <3>2. CASE ~W!Goto(s, "done")
      <4>1. /\ serve[s] = "begin" /\ serve' = [serve EXCEPT ![s] = "select"]
            /\ watcher' = "on" \/ watcher' = watcher
            /\ UNCHANGED <<run, failed, quit, force>>
        BY <1>5, <3>2, Zenon DEF W!Begin, W!End, W!Goto
      <4> QED
        BY <2>1, <4>1, Zenon
    <3> QED
      BY <3>1, <3>2, Zenon
<1>6. ASSUME NEW s \in {"primary", "metrics"}, W!SelectGrace(s) PROVE Stays
  <2>1. W!HttpTypeOK'
    BY <1>6, WebHttp, Zenon DEF W!SelectGrace
  <2> QED
    BY <1>6, <1>a, <2>1, Zenon DEF W!SelectGrace, W!Shutdown, W!Down, W!Goto
<1>7. ASSUME NEW s \in {"primary", "metrics"}, W!SelectServer(s) \/ W!ShutdownEnds(s)
      PROVE  Stays
  BY <1>7, <1>a, <1>b, WebHttp, Zenon DEF W!SelectServer, W!ShutdownEnds, W!End, W!ServeEnded
<1>8. ASSUME NEW s \in {"primary", "metrics"}, W!Http(s) PROVE Stays
  <2>1. W!HttpTypeOK'
    BY <1>8, WebHttp, Zenon DEF W!Http
  <2> QED
    BY <1>8, <1>a, <2>1, Zenon DEF W!Http, W!Listen, W!ServeFails, W!Request, W!Respond
<1>9. ASSUME NEW q \in Callers, W!Quit(q) PROVE Stays
  <2>1. W!HttpTypeOK'
    BY <1>9, WebHttp, Zenon DEF W!Quit, W!Ask, W!QuitCancels
  <2>2. \A s \in {"primary", "metrics"} : listener'[s] = listener[s] \/ listener'[s] \in {"failed", "down"}
    BY <1>9, <1>a, Zenon DEF W!Quit, W!Ask, W!QuitCancels, W!Close, W!Down
  <2> QED
    BY <1>9, <2>1, <2>2, Zenon DEF W!Quit, W!Ask, W!QuitCancels
<1> QED
  BY <1>1, <1>2, <1>3, <1>4, <1>5, <1>6, <1>7, <1>8, <1>9, Zenon DEF W!WebNext, W!Server

\* Before anything has gone wrong and before anybody has called Quit, every step
\* either is one of these two or ends nothing.
LEMMA WebCauseStep ==
    ASSUME WebInv, W!WebNext
    PROVE  CauseInv'
<1> DEFINE Servers == {"primary", "metrics"}
           Caused == failed # {} \/ \E q \in Callers : quit[q] # "idle"
           Ended(s) == listener[s] = "down" \/ serve[s] \in {"shutdown", "done"}
<1>0. /\ listener \in [Servers -> {"new", "listening", "failed", "down"}]
      /\ serve \in [Servers -> {"off", "begin", "select", "shutdown", "done"}]
      /\ quit \in [Callers -> {"idle", "asked", "returned"}]
  BY Zenon DEF WebInv, WebTypes, W!HttpTypeOK
<1>1. failed \subseteq failed'
  <2>1. CASE W!Start \/ W!Watch \/ W!SelectWatch \/ W!Return
    BY <2>1, Zenon DEF W!Start, W!Watch, W!SelectWatch, W!Return, W!End
  <2>2. ASSUME NEW s \in Servers, W!Server(s) \/ W!Http(s) PROVE failed \subseteq failed'
    BY <2>2, Zenon DEF W!Server, W!Http, W!Begin, W!SelectGrace, W!SelectServer, W!ShutdownEnds,
                W!End
  <2>3. ASSUME NEW q \in Callers, W!Quit(q) PROVE failed \subseteq failed'
    BY <2>3, Zenon DEF W!Quit, W!Ask, W!QuitCancels
  <2> QED
    BY <2>1, <2>2, <2>3, Zenon DEF W!WebNext
<1>2. ASSUME NEW q \in Callers, W!Quit(q) PROVE Caused'
  BY <1>0, <1>2, Zenon DEF W!Quit, W!Ask, W!QuitCancels
<1>3. (\A q \in Callers : ~W!Quit(q)) => UNCHANGED quit
  BY Zenon DEF W!WebNext, W!Start, W!Watch, W!SelectWatch, W!Return, W!Server, W!Http, W!Begin,
         W!SelectGrace, W!SelectServer, W!ShutdownEnds, W!callers
<1>4. Caused => Caused'
  BY <1>1, <1>2, <1>3, Zenon
<1>5. ASSUME ~Caused, ~Caused',
             \/ grace' \/ watcher' = "closed" \/ \E s \in Servers : Ended(s)'
      PROVE  FALSE
  <2>1. /\ ~grace /\ watcher # "closed"
        /\ \A s \in Servers : listener[s] # "down" /\ serve[s] \notin {"shutdown", "done"}
    BY <1>5, Zenon DEF WebInv, CauseInv
  <2>2. failed' = {} /\ failed = {} /\ \A q \in Callers : ~W!Quit(q)
    BY <1>2, <1>5, Zenon
  <2>3. CASE W!Start
    BY <1>0, <1>5, <2>1, <2>3, Zenon DEF W!Start, W!http
  <2>4. CASE W!Watch
    BY <1>0, <1>5, <2>1, <2>4, Zenon DEF W!Watch, W!http
  <2>5. CASE W!SelectWatch
    BY <2>1, <2>2, <2>5, Zenon DEF W!SelectWatch, W!End
  <2>6. CASE W!Return
    BY <1>5, <2>1, <2>6, Zenon DEF W!Return
  <2>7. ASSUME NEW s \in Servers, W!Begin(s) PROVE FALSE
    BY <1>0, <1>5, <2>1, <2>2, <2>7 DEF W!Begin, W!End, W!Goto, W!http
  <2>8. ASSUME NEW s \in Servers, W!SelectGrace(s) \/ W!ShutdownEnds(s) PROVE FALSE
    BY <2>1, <2>8, Zenon DEF W!SelectGrace, W!ShutdownEnds
  <2>9. ASSUME NEW s \in Servers, W!SelectServer(s) PROVE FALSE
    BY <2>1, <2>2, <2>9, Zenon DEF W!SelectServer, W!End, W!ServeEnded
  <2>10. ASSUME NEW s \in Servers, W!Http(s) PROVE FALSE
    BY <1>0, <1>5, <2>1, <2>10, Zenon DEF W!Http, W!Listen, W!ServeFails, W!Request, W!Respond
  <2> QED
    BY <2>2, <2>3, <2>4, <2>5, <2>6, <2>7, <2>8, <2>9, <2>10, Zenon DEF W!WebNext, W!Server
<1> QED
  BY <1>4, <1>5, Zenon DEF CauseInv

LEMMA WebInitInv == W!WebInit => WebInv
<1> SUFFICES ASSUME W!WebInit PROVE WebInv
  OBVIOUS
<1>1. WebContexts
  BY Zenon DEF W!WebInit, WebContexts
<1>2. W!HttpTypeOK
  BY ServerAssumption DEF W!WebInit, W!HttpInit, W!HttpTypeOK
<1>3. WebTypes
  BY <1>2, Zenon DEF W!WebInit, WebTypes
<1>4. ListenInv /\ CauseInv /\ ClosedInv
  BY Zenon DEF W!WebInit, W!HttpInit, ListenInv, CauseInv, ClosedInv
<1> QED
  BY <1>1, <1>3, <1>4, Zenon DEF WebInv

LEMMA WebStepInv == WebInv /\ [W!WebNext]_(W!web) => WebInv'
<1> SUFFICES ASSUME WebInv, [W!WebNext]_(W!web) PROVE WebInv'
  OBVIOUS
<1>1. CASE W!WebNext
  BY <1>1, WebContextsStep, WebListenStep, WebCauseStep, Zenon DEF WebInv
<1>2. CASE UNCHANGED W!web
  BY <1>2, Zenon DEF W!web, W!http, WebInv, WebContexts, WebTypes, ListenInv, CauseInv, ClosedInv,
              W!HttpTypeOK
<1> QED
  BY <1>1, <1>2, Zenon

LEMMA WebInvReturns == WebInv => W!ReturnsClosed
BY Zenon DEF WebInv, ListenInv, CauseInv, ClosedInv, W!ReturnsClosed

\* After Run of the web service neither server accepts requests, whichever of
\* the watcher, the servers and any number of callers of Quit came first, and
\* it returned an error unless somebody called Quit (webservice.go:162-173).
THEOREM WebReturnsClosed == W!WebSpec => []W!ReturnsClosed
BY WebInitInv, WebStepInv, WebInvReturns, PTL DEF W!WebSpec

-----------------------------------------------------------------------------
(***************************************************************************)
(* The migrate command.                                                    *)
(***************************************************************************)
AtLines == {"idle", "check", "read", "verify", "begin", "up", "done", "failed"} \cup M!InTx

\* The old version table stays what it was until it goes, and only a bootstrap
\* that commits, or a database that never had one, comes without it.
OldInv ==
    /\ start \in M!Starts
    /\ at \in [Migrators -> AtLines]
    /\ DOMAIN version = Migrators
    /\ old \in {start.old, M!NoOld}
    /\ start.goose \subseteq goose
    /\ old = M!NoOld /\ start.old # M!NoOld => goose # {}

\* A process past the reading has read the version of the old table, and one
\* that leaves the rest to goose has nothing to take over.
ReadInv ==
    \A m \in Migrators :
        /\ at[m] \in {"verify", "begin"} \cup M!InTx =>
              /\ start.old # M!NoOld /\ ~start.old.dirty
              /\ version[m] = start.old.version
        /\ at[m] = "up" /\ goose = {} => start.old = M!NoOld

\* What the tables are, in a database that was consistent.
TablesInv ==
    M!Consistent =>
        /\ start.tables \subseteq tables
        /\ goose = {} => tables = start.tables
        /\ goose # {} => tables = goose \ {0}

\* A database that is not what it claims to be: nobody gets past the check.
Unsure ==
    /\ start.old # M!NoOld
    /\ start.old.dirty \/ ~(M!ExpectedTables(start.old.version) \subseteq start.tables)

UnsureInv ==
    Unsure =>
        /\ tables = start.tables /\ old = start.old /\ goose = start.goose
        /\ \A m \in Migrators : at[m] \in {"idle", "check", "read", "verify", "failed"}

MigrationInv == OldInv /\ ReadInv /\ TablesInv /\ UnsureInv

-----------------------------------------------------------------------------
\* The four kinds of databases a process may find.
LEMMA StartKinds ==
    ASSUME NEW s \in M!Starts
    PROVE  \/ s = [tables |-> {}, old |-> M!NoOld, goose |-> {}]
           \/ s \in [tables : SUBSET M!Versions,
                     old : [version : 0 .. Last, dirty : BOOLEAN], goose : {{}}]
           \/ \E v \in 0 .. Last :
                s = [tables |-> 1 .. v, old |-> M!NoOld, goose |-> 0 .. v]
           \/ \E v \in 0 .. Last :
                s = [tables |-> 1 .. v, old |-> [version |-> v, dirty |-> FALSE],
                     goose |-> 0 .. v]
<1> DEFINE Fresh == {[tables |-> {}, old |-> M!NoOld, goose |-> {}]}
           Left == [tables : SUBSET M!Versions,
                    old : [version : 0 .. Last, dirty : BOOLEAN], goose : {{}}]
           Goose == {[tables |-> 1 .. v, old |-> o, goose |-> 0 .. v] :
                       v \in 0 .. Last, o \in {M!NoOld}}
           Both == {[tables |-> 1 .. v, old |-> [version |-> v, dirty |-> FALSE],
                     goose |-> 0 .. v] : v \in 0 .. Last}
           OnlyGoose == \E v \in 0 .. Last :
                s = [tables |-> 1 .. v, old |-> M!NoOld, goose |-> 0 .. v]
           AndOld == \E v \in 0 .. Last :
                s = [tables |-> 1 .. v, old |-> [version |-> v, dirty |-> FALSE],
                     goose |-> 0 .. v]
<1>1. s \in Fresh => s = [tables |-> {}, old |-> M!NoOld, goose |-> {}]
  BY Zenon
<1>2. s \in Goose => OnlyGoose
  OBVIOUS
<1>3. s \in Both => AndOld
  BY Zenon
<1>4. M!Starts = Fresh \cup Left \cup Goose \cup Both
  BY SMTT(20) DEF M!Starts
<1> SUFFICES \/ s = [tables |-> {}, old |-> M!NoOld, goose |-> {}]
             \/ s \in Left \/ OnlyGoose \/ AndOld
  OBVIOUS
<1> HIDE DEF Fresh, Left, Goose, Both, OnlyGoose, AndOld
<1> QED
  BY <1>1, <1>2, <1>3, <1>4, Zenon

\* What a database may be at first: without any version table it is empty, with
\* that of goose its tables are the ones listed there.
LEMMA StartsFacts ==
    ASSUME NEW s \in M!Starts
    PROVE  /\ s.old = M!NoOld /\ s.goose = {} => s.tables = {}
           /\ s.goose # {} => s.tables = s.goose \ {0}
           /\ s.old # M!NoOld => s.old.version \in 0 .. Last
<1>1. CASE s = [tables |-> {}, old |-> M!NoOld, goose |-> {}]
  BY <1>1, Zenon
<1>2. CASE s \in [tables : SUBSET M!Versions,
                  old : [version : 0 .. Last, dirty : BOOLEAN], goose : {{}}]
  <2>1. s.old \in [version : 0 .. Last, dirty : BOOLEAN] /\ s.goose = {}
    BY <1>2, Zenon
  <2>2. s.old # M!NoOld
    BY <2>1 DEF M!NoOld
  <2> QED
    BY <2>1, <2>2, Zenon
<1>3. ASSUME NEW v \in 0 .. Last,
             s = [tables |-> 1 .. v, old |-> M!NoOld, goose |-> 0 .. v]
      PROVE  /\ s.goose # {} /\ s.tables = s.goose \ {0} /\ s.old = M!NoOld
  <2>1. 0 \in 0 .. v /\ (0 .. v) \ {0} = 1 .. v
    OBVIOUS
  <2> QED
    BY <1>3, <2>1, Zenon
<1>4. ASSUME NEW v \in 0 .. Last,
             s = [tables |-> 1 .. v, old |-> [version |-> v, dirty |-> FALSE],
                  goose |-> 0 .. v]
      PROVE  /\ s.goose # {} /\ s.tables = s.goose \ {0}
             /\ s.old.version \in 0 .. Last
  <2>1. 0 \in 0 .. v /\ (0 .. v) \ {0} = 1 .. v
    OBVIOUS
  <2> QED
    BY <1>4, <2>1, Zenon
<1> QED
  BY <1>1, <1>2, <1>3, <1>4, StartKinds, Zenon

\* The initial state satisfies the invariant.
LEMMA MigrationInitInv == M!MigrationInit => MigrationInv
<1> SUFFICES ASSUME M!MigrationInit PROVE MigrationInv
  OBVIOUS
<1>1. OldInv
  BY Zenon DEF M!MigrationInit, OldInv, AtLines, M!InTx
<1>2. ReadInv
  BY Zenon DEF M!MigrationInit, ReadInv, M!InTx
<1>3. TablesInv
  BY StartsFacts, Zenon DEF M!MigrationInit, TablesInv
<1>4. UnsureInv
  BY Zenon DEF M!MigrationInit, UnsureInv
<1> QED
  BY <1>1, <1>2, <1>3, <1>4, Zenon DEF MigrationInv

\* A commit seeds the table of goose with the version of the old one, or leaves it.
LEMMA CommitKeeps ==
    ASSUME MigrationInv, NEW m \in Migrators, M!Commit(m)
    PROVE  MigrationInv'
<1>1. /\ at[m] = "commit" /\ at' = [at EXCEPT ![m] = "up"]
      /\ goose' = IF goose = {} THEN 0 .. version[m] ELSE goose
      /\ old' = M!NoOld /\ tables' = tables /\ version' = version /\ start' = start
  BY Zenon DEF M!Commit, M!Goto
<1>2. /\ start \in M!Starts /\ at \in [Migrators -> AtLines]
      /\ start.old # M!NoOld /\ ~start.old.dirty /\ version[m] = start.old.version
      /\ start.goose \subseteq goose
  BY <1>1, Zenon DEF MigrationInv, OldInv, ReadInv, M!InTx
<1>3. 0 \in 0 .. version[m] /\ (0 .. version[m]) \ {0} = 1 .. version[m]
  BY <1>2, StartsFacts, SMTT(20)
<1>4. goose' # {} /\ start.goose \subseteq goose'
  BY <1>1, <1>2, <1>3, Zenon
<1>5. OldInv'
  BY <1>1, <1>2, <1>4, Zenon DEF MigrationInv, OldInv, AtLines
<1>6. ReadInv'
  BY <1>1, <1>2, <1>4, Zenon DEF MigrationInv, ReadInv, M!InTx
<1>7. TablesInv'
  <2>1. CASE goose = {}
    BY <1>1, <1>2, <1>3, <1>4, <2>1, Zenon DEF MigrationInv, TablesInv, M!Consistent
  <2>2. CASE goose # {}
    BY <1>1, <2>2, Zenon DEF MigrationInv, TablesInv, M!Consistent
  <2> QED
    BY <2>1, <2>2, Zenon
<1>8. UnsureInv'
  BY <1>1, Zenon DEF MigrationInv, UnsureInv, Unsure
<1> QED
  BY <1>5, <1>6, <1>7, <1>8, Zenon DEF MigrationInv

\* goose adds a table and its row together.
LEMMA UpKeeps ==
    ASSUME MigrationInv, NEW m \in Migrators, M!Up(m)
    PROVE  MigrationInv'
<1>1. /\ at[m] = "up" /\ old' = old /\ version' = version /\ start' = start
      /\ \/ goose = {} /\ goose' = {0} /\ tables' = tables /\ at' = at
         \/ /\ goose # {} /\ UNCHANGED <<tables, goose>>
            /\ \E l \in {"done", "failed"} : at' = [at EXCEPT ![m] = l]
         \/ /\ goose # {} /\ at' = at
            /\ \E v \in 1 .. Last : /\ tables' = tables \cup {v}
                                  /\ goose' = goose \cup {v}
  BY Zenon DEF M!Up, M!Goto, M!Versions
<1>2. /\ start \in M!Starts /\ at \in [Migrators -> AtLines]
      /\ goose = {} => start.old = M!NoOld
      /\ start.goose \subseteq goose
  BY <1>1, Zenon DEF MigrationInv, OldInv, ReadInv
<1>3. goose' # {} /\ goose \subseteq goose'
  BY <1>1, Zenon
<1>4. /\ at' \in [Migrators -> AtLines]
      /\ \A n \in Migrators : at'[n] = at[n] \/ at'[n] \in {"done", "failed"}
  BY <1>1, <1>2, Zenon DEF AtLines
<1>5. OldInv'
  BY <1>1, <1>2, <1>3, <1>4, Zenon DEF MigrationInv, OldInv
<1>6. ReadInv'
  BY <1>1, <1>3, <1>4, Zenon DEF MigrationInv, ReadInv, M!InTx
<1>7. TablesInv'
  <2>1. CASE goose = {}
    BY <1>1, <1>2, <2>1, StartsFacts, Zenon DEF MigrationInv, TablesInv, M!Consistent
  <2>2. CASE goose # {}
    BY <1>1, <2>2 DEF MigrationInv, TablesInv, M!Consistent
  <2> QED
    BY <2>1, <2>2, Zenon
<1>8. UnsureInv'
  BY <1>1, Zenon DEF MigrationInv, UnsureInv, Unsure
<1> QED
  BY <1>5, <1>6, <1>7, <1>8, Zenon DEF MigrationInv

\* Every action of a process preserves the invariant.
LEMMA MigrationStepInv == MigrationInv /\ [M!MigrationNext]_(M!migration) => MigrationInv'
<1> SUFFICES ASSUME MigrationInv, [M!MigrationNext]_(M!migration) PROVE MigrationInv'
  OBVIOUS
<1> USE DEF MigrationInv, OldInv, ReadInv, TablesInv, UnsureInv, Unsure, M!Consistent,
            AtLines, M!InTx, M!Goto, M!state
<1>0. CASE UNCHANGED M!migration
  BY <1>0, Zenon DEF M!migration
<1>1. ASSUME NEW m \in Migrators, M!Run(m) PROVE MigrationInv'
  BY <1>1, Zenon DEF M!Run
<1>2. ASSUME NEW m \in Migrators, M!Check(m) PROVE MigrationInv'
  BY <1>2, Zenon DEF M!Check
<1>3. ASSUME NEW m \in Migrators, M!ReadVersion(m) PROVE MigrationInv'
  <2>1. OldInv'
    BY <1>3, Zenon DEF M!ReadVersion
  <2>2. ReadInv'
    BY <1>3, SMTT(20) DEF M!ReadVersion
  <2>3. TablesInv' /\ UnsureInv'
    BY <1>3, Zenon DEF M!ReadVersion
  <2> QED
    BY <2>1, <2>2, <2>3, Zenon DEF MigrationInv
<1>4. ASSUME NEW m \in Migrators, M!VerifyExpectedTables(m) PROVE MigrationInv'
  BY <1>4, Zenon DEF M!VerifyExpectedTables
<1>5. ASSUME NEW m \in Migrators, M!Create(m) PROVE MigrationInv'
  BY <1>5, Zenon DEF M!Create
<1>6. ASSUME NEW m \in Migrators, M!Drop(m) PROVE MigrationInv'
  BY <1>6, Zenon DEF M!Drop
<1>7. ASSUME NEW m \in Migrators, M!Commit(m) PROVE MigrationInv'
  BY <1>7, CommitKeeps, Zenon DEF MigrationInv
<1>8. ASSUME NEW m \in Migrators, M!Up(m) PROVE MigrationInv'
  BY <1>8, UpKeeps, Zenon DEF MigrationInv
<1>9. ASSUME NEW m \in Migrators, M!CreateFails(m) \/ M!UpFails(m) \/ M!Fault(m)
      PROVE  MigrationInv'
  BY <1>9, Zenon DEF M!CreateFails, M!UpFails, M!Fault
<1> QED
  BY <1>0, <1>1, <1>2, <1>3, <1>4, <1>5, <1>6, <1>7, <1>8, <1>9, Zenon
  DEF M!MigrationNext, M!Migrate

-----------------------------------------------------------------------------
\* However many processes run the command and wherever they fail or are killed,
\* one of the two version tables tells which tables exist
\* (BootstrapFromGolangMigrate, bootstrap.go:28-36).
THEOREM VersionIsTold == M!MigrationSpec => []M!VersionTold
<1>1. MigrationInv => M!VersionTold
  BY Zenon DEF MigrationInv, OldInv, TablesInv, M!VersionTold
<1> QED
  BY MigrationInitInv, MigrationStepInv, <1>1, PTL DEF M!MigrationSpec

\* No number of processes and failures alters a database that is dirty or has
\* not the expected tables of its version (BootstrapFromGolangMigrate, bootstrap.go:63-71).
THEOREM UnsureIsLeft == M!MigrationSpec => []M!UnsureUntouched
<1>1. MigrationInv => M!UnsureUntouched
  BY Zenon DEF MigrationInv, UnsureInv, Unsure, M!UnsureUntouched
<1> QED
  BY MigrationInitInv, MigrationStepInv, <1>1, PTL DEF M!MigrationSpec

-----------------------------------------------------------------------------
\* The rest of the migration's types: whoever holds the lock is in a transaction.
LockInv ==
    /\ lock \in Migrators \cup {M!NoLock}
    /\ lock # M!NoLock => at[lock] \in M!InTx

SchemaInv ==
    /\ tables \subseteq M!Versions
    /\ goose \subseteq 0 .. Last
    /\ version \in [Migrators -> 0 .. Last]
    /\ faults \in 0 .. MaxFaults

LEMMA StartsTypes ==
    ASSUME NEW s \in M!Starts
    PROVE  /\ s.tables \subseteq M!Versions
           /\ s.goose \subseteq 0 .. Last
           /\ s.old \in [version : -1 .. Last, dirty : BOOLEAN]
<1> USE ServerAssumption
<1>0. M!NoOld \in [version : -1 .. Last, dirty : BOOLEAN]
  BY DEF M!NoOld
<1>1. CASE s = [tables |-> {}, old |-> M!NoOld, goose |-> {}]
  BY <1>0, <1>1, Zenon
<1>2. CASE s \in [tables : SUBSET M!Versions,
                  old : [version : 0 .. Last, dirty : BOOLEAN], goose : {{}}]
  <2>1. s.old \in [version : 0 .. Last, dirty : BOOLEAN]
    BY <1>2, Zenon
  <2>2. s.old \in [version : -1 .. Last, dirty : BOOLEAN]
    BY <2>1
  <2> QED
    BY <1>2, <2>2, Zenon
<1>3. ASSUME NEW v \in 0 .. Last, NEW o \in [version : -1 .. Last, dirty : BOOLEAN],
             s = [tables |-> 1 .. v, old |-> o, goose |-> 0 .. v]
      PROVE  /\ s.tables \subseteq M!Versions
             /\ s.goose \subseteq 0 .. Last
             /\ s.old \in [version : -1 .. Last, dirty : BOOLEAN]
  <2>1. 1 .. v \subseteq M!Versions /\ 0 .. v \subseteq 0 .. Last
    BY DEF M!Versions
  <2> QED
    BY <1>3, <2>1, Zenon
<1>4. ASSUME NEW v \in 0 .. Last
      PROVE  [version |-> v, dirty |-> FALSE] \in [version : -1 .. Last, dirty : BOOLEAN]
  OBVIOUS
<1>5. CASE \E v \in 0 .. Last : s = [tables |-> 1 .. v, old |-> M!NoOld, goose |-> 0 .. v]
  BY <1>0, <1>3, <1>5, Zenon
<1>6. CASE \E v \in 0 .. Last :
             s = [tables |-> 1 .. v, old |-> [version |-> v, dirty |-> FALSE],
                  goose |-> 0 .. v]
  BY <1>3, <1>4, <1>6, Zenon
<1> QED
  BY <1>1, <1>2, <1>5, <1>6, StartKinds, Zenon

LEMMA SchemaStep ==
    ASSUME MigrationInv, SchemaInv, [M!MigrationNext]_(M!migration)
    PROVE  SchemaInv'
<1> USE ServerAssumption DEF SchemaInv, M!state
<1>0. /\ at \in [Migrators -> AtLines] /\ start \in M!Starts
      /\ old \in {start.old, M!NoOld}
      /\ \A m \in Migrators : at[m] = "commit" => version[m] \in 0 .. Last
  BY Zenon DEF MigrationInv, OldInv
<1>1. CASE UNCHANGED M!migration
  BY <1>1, Zenon DEF M!migration
<1>2. ASSUME NEW m \in Migrators, M!ReadVersion(m) PROVE SchemaInv'
  <2>1. CASE UNCHANGED version
    BY <1>2, <2>1, Zenon DEF M!ReadVersion
  <2>2. CASE ~UNCHANGED version
    <3>1. old = start.old /\ old # M!NoOld /\ version' = [version EXCEPT ![m] = old.version]
      BY <1>0, <1>2, <2>2, Zenon DEF M!ReadVersion
    <3>2. old.version \in 0 .. Last
      BY <1>0, <3>1, StartsFacts, Zenon
    <3> QED
      BY <1>2, <3>1, <3>2, Zenon DEF M!ReadVersion
  <2> QED
    BY <2>1, <2>2, Zenon
<1>3. ASSUME NEW m \in Migrators,
             \/ M!Run(m) \/ M!Check(m) \/ M!VerifyExpectedTables(m) \/ M!Create(m)
             \/ M!Drop(m) \/ M!CreateFails(m) \/ M!UpFails(m)
      PROVE  SchemaInv'
  BY <1>3, Zenon DEF M!Run, M!Check, M!VerifyExpectedTables, M!Create, M!Drop, M!CreateFails,
              M!UpFails
<1>4. ASSUME NEW m \in Migrators, M!Commit(m) PROVE SchemaInv'
  <2>1. 0 .. version[m] \subseteq 0 .. Last
    BY <1>0, <1>4 DEF M!Commit
  <2> QED
    BY <1>4, <2>1, Zenon DEF M!Commit
<1>5. ASSUME NEW m \in Migrators, M!Up(m) PROVE SchemaInv'
  <2>1. \/ goose' = {0} /\ UNCHANGED tables
        \/ UNCHANGED <<tables, goose>>
        \/ \E v \in M!Versions : tables' = tables \cup {v} /\ goose' = goose \cup {v}
    BY <1>5, Zenon DEF M!Up
  <2>2. 0 \in 0 .. Last /\ M!Versions \subseteq 0 .. Last
    BY DEF M!Versions
  <2>3. UNCHANGED <<version, faults>>
    BY <1>5, Zenon DEF M!Up
  <2> QED
    BY <2>1, <2>2, <2>3, Zenon
<1>6. ASSUME NEW m \in Migrators, M!Fault(m) PROVE SchemaInv'
  BY <1>6 DEF M!Fault
<1> QED
  BY <1>1, <1>2, <1>3, <1>4, <1>5, <1>6, Zenon DEF M!MigrationNext, M!Migrate

LEMMA LockStep ==
    ASSUME MigrationInv, LockInv, [M!MigrationNext]_(M!migration)
    PROVE  LockInv'
<1> USE DEF LockInv, M!InTx, M!Goto, M!Free, M!NoLock
<1>0. at \in [Migrators -> AtLines]
  BY Zenon DEF MigrationInv, OldInv
<1>1. CASE UNCHANGED M!migration
  BY <1>1, Zenon DEF M!migration
<1>2. ASSUME NEW m \in Migrators, M!Migrate(m) PROVE LockInv'
  <2>1. CASE M!Run(m) \/ M!Check(m) \/ M!ReadVersion(m) \/ M!VerifyExpectedTables(m)
    BY <1>0, <2>1, Zenon DEF M!Run, M!Check, M!ReadVersion, M!VerifyExpectedTables
  <2>2. CASE M!Create(m)
    BY <1>0, <2>2, Zenon DEF M!Create
  <2>3. CASE M!Drop(m)
    BY <1>0, <2>3, Zenon DEF M!Drop
  <2>4. CASE M!Commit(m)
    BY <1>0, <2>4, Zenon DEF M!Commit
  <2>5. CASE M!Up(m)
    BY <1>0, <2>5, Zenon DEF M!Up
  <2> QED
    BY <1>2, <2>1, <2>2, <2>3, <2>4, <2>5, Zenon DEF M!Migrate
<1>3. ASSUME NEW m \in Migrators, M!CreateFails(m) \/ M!UpFails(m) \/ M!Fault(m)
      PROVE  LockInv'
  BY <1>0, <1>3, Zenon DEF M!CreateFails, M!UpFails, M!Fault
<1> QED
  BY <1>1, <1>2, <1>3, Zenon DEF M!MigrationNext

-----------------------------------------------------------------------------
\* The process.  The flags are apart: they and the rest need different provers.
DaemonFlags ==
    /\ ready \in BOOLEAN /\ asked \in BOOLEAN
    /\ closed \in BOOLEAN /\ termSent \in BOOLEAN

DaemonRest ==
    /\ main \in {"execute", "setup", "start", "serving", "migrating", "stop",
                 "wait", "exited"}
    /\ kind \in {"ingest", "web"}
    /\ cmd \in {"serve", "migrate", "version", "error"}
    /\ service \in {"none", "made", "running", "returned"}
    /\ handler \in {"receive", "waitReady", "quit", "waitRun", "ended"}
    /\ signals \in Seq({"term", "hup"}) /\ Len(signals) <= 1
    /\ sent \in 0 .. MaxSignals

LEMMA DaemonFlagsStep == DaemonFlags /\ [D!DaemonNext]_(D!daemon) => DaemonFlags'
<1> SUFFICES ASSUME DaemonFlags, [D!DaemonNext]_(D!daemon) PROVE DaemonFlags'
  OBVIOUS
<1> USE DEF DaemonFlags
<1>1. \/ UNCHANGED <<ready, asked, closed, termSent>>
      \/ ready' = TRUE /\ UNCHANGED <<asked, closed, termSent>>
      \/ closed' = TRUE /\ UNCHANGED <<ready, asked, termSent>>
      \/ (\E s \in {"term", "hup"} : termSent' = (termSent \/ s = "term"))
           /\ UNCHANGED <<ready, asked, closed>>
      \/ asked' = (asked \/ service # "none") /\ UNCHANGED <<ready, closed, termSent>>
  BY Zenon DEF D!DaemonNext, D!Main, D!Handler, D!Execute, D!Migrated, D!SetupFails,
         D!Setup, D!Start, D!StopSignals, D!Exit, D!ServiceReturns, D!Receive,
         D!WaitReady, D!Quit, D!QuitReturns, D!Signal, D!daemon, D!sending
<1> QED
  BY <1>1, Zenon

LEMMA DaemonRestStep == DaemonRest /\ [D!DaemonNext]_(D!daemon) => DaemonRest'
<1> SUFFICES ASSUME DaemonRest, [D!DaemonNext]_(D!daemon) PROVE DaemonRest'
  OBVIOUS
<1> USE ServerAssumption DEF DaemonRest, D!given, D!sending
<1>1. CASE UNCHANGED D!daemon
  BY <1>1, Zenon DEF D!daemon
<1>2. CASE D!Main
  BY <1>2, Zenon DEF D!Main, D!Execute, D!Migrated, D!SetupFails, D!Setup, D!Start,
              D!StopSignals, D!Exit
<1>3. CASE D!ServiceReturns
  BY <1>3, Zenon DEF D!ServiceReturns
<1>0. /\ <<>> \in Seq({"term", "hup"}) /\ Len(<<>>) <= 1
      /\ \A s \in {"term", "hup"} : <<s>> \in Seq({"term", "hup"}) /\ Len(<<s>>) <= 1
  OBVIOUS
<1>4. CASE D!Handler
  <2>1. signals' = signals \/ signals' = <<>>
    BY <1>4, Zenon DEF D!Handler, D!Receive, D!WaitReady, D!Quit, D!QuitReturns
  <2>2. signals' \in Seq({"term", "hup"}) /\ Len(signals') <= 1
    BY <1>0, <2>1, Zenon
  <2>3. /\ handler' \in {"receive", "waitReady", "quit", "waitRun", "ended"}
        /\ UNCHANGED <<main, kind, cmd, service, sent>>
    BY <1>4, Zenon DEF D!Handler, D!Receive, D!WaitReady, D!Quit, D!QuitReturns
  <2> QED
    BY <2>2, <2>3, Zenon
<1>5. CASE D!Signal
  <2>1. \E s \in {"term", "hup"} : signals' = IF signals = <<>> THEN <<s>> ELSE signals
    BY <1>5, Zenon DEF D!Signal
  <2>2. signals' \in Seq({"term", "hup"}) /\ Len(signals') <= 1
    BY <1>0, <2>1, Zenon
  <2>3. /\ sent < MaxSignals /\ sent' = sent + 1
        /\ UNCHANGED <<main, kind, cmd, service, handler>>
    BY <1>5, Zenon DEF D!Signal
  <2>4. sent' \in 0 .. MaxSignals
    BY <2>3
  <2> QED
    BY <2>2, <2>3, <2>4, Zenon
<1> QED
  BY <1>1, <1>2, <1>3, <1>4, <1>5, Zenon DEF D!DaemonNext

-----------------------------------------------------------------------------
(***************************************************************************)
(* The whole server: a step of it is a step of one part, and each part     *)
(* keeps its own invariant.                                                *)
(***************************************************************************)
DaemonInv == DaemonFlags /\ DaemonRest
SchemasInv == MigrationInv /\ SchemaInv /\ LockInv

LEMMA PartSteps ==
    ASSUME [Next]_vars
    PROVE  /\ [D!DaemonNext]_(D!daemon)
           /\ [I!IngestNext]_(I!ingest)
           /\ [W!WebNext]_(W!web)
           /\ [M!MigrationNext]_(M!migration)
           /\ [ProcNext]_proc
<1>1. \/ UNCHANGED daemon \/ D!DaemonNext
  BY Zenon DEF Next, vars, OfDaemon, OfIngest, OfWeb, OfMigration, OfProcessor
<1>2. \/ UNCHANGED ingest \/ I!IngestNext
  BY Zenon DEF Next, vars, OfDaemon, OfIngest, OfWeb, OfMigration, OfProcessor
<1>3. \/ UNCHANGED web \/ W!WebNext
  BY Zenon DEF Next, vars, OfDaemon, OfIngest, OfWeb, OfMigration, OfProcessor
<1>4. \/ UNCHANGED migration \/ M!MigrationNext
  BY Zenon DEF Next, vars, OfDaemon, OfIngest, OfWeb, OfMigration, OfProcessor
<1>5. \/ UNCHANGED proc \/ ProcServe
  BY Zenon DEF Next, vars, OfDaemon, OfIngest, OfWeb, OfMigration, OfProcessor
<1>6. UNCHANGED daemon => UNCHANGED D!daemon
  BY Zenon DEF daemon, D!daemon, D!given, D!sending
<1>7. UNCHANGED ingest => UNCHANGED I!ingest
  BY Zenon DEF ingest, I!ingest, I!http
<1>8. UNCHANGED web => UNCHANGED W!web
  BY Zenon DEF web, W!web, W!http
<1>9. UNCHANGED migration => UNCHANGED M!migration
  BY Zenon DEF migration, M!migration, M!state
<1>10. ProcServe => ProcNext
  BY Zenon DEF ProcServe, ProcNext
<1> QED
  BY <1>1, <1>2, <1>3, <1>4, <1>5, <1>6, <1>7, <1>8, <1>9, <1>10, Zenon

LEMMA DaemonInitInv == D!DaemonInit => DaemonInv
<1> SUFFICES ASSUME D!DaemonInit PROVE DaemonInv
  OBVIOUS
<1>1. DaemonFlags
  BY Zenon DEF D!DaemonInit, DaemonFlags
<1>2. DaemonRest
  BY ServerAssumption DEF D!DaemonInit, DaemonRest
<1> QED
  BY <1>1, <1>2, Zenon DEF DaemonInv

LEMMA SchemasInitInv == M!MigrationInit => SchemasInv
<1> SUFFICES ASSUME M!MigrationInit PROVE SchemasInv
  OBVIOUS
<1>1. SchemaInv
  BY ServerAssumption, StartsTypes DEF M!MigrationInit, SchemaInv
<1>2. LockInv
  BY Zenon DEF M!MigrationInit, LockInv
<1> QED
  BY <1>1, <1>2, MigrationInitInv, Zenon DEF SchemasInv

LEMMA DaemonInvTypes == DaemonInv => D!DaemonTypeOK
BY Zenon DEF DaemonInv, DaemonFlags, DaemonRest, D!DaemonTypeOK

LEMMA IngestInvTypes == IngestInv => I!IngestTypeOK
BY Zenon DEF IngestInv, IngestContexts, IngestTypes, I!IngestTypeOK

LEMMA WebInvTypes == WebInv => W!WebTypeOK
BY Zenon DEF WebInv, WebContexts, WebTypes, W!WebTypeOK

LEMMA SchemasInvTypes == SchemasInv => M!MigrationTypeOK
<1> SUFFICES ASSUME SchemasInv PROVE M!MigrationTypeOK
  OBVIOUS
<1>1. start \in M!Starts /\ old \in {start.old, M!NoOld} /\ at \in [Migrators -> AtLines]
  BY Zenon DEF SchemasInv, MigrationInv, OldInv
<1>2. M!NoOld \in [version : -1 .. Last, dirty : BOOLEAN]
  BY ServerAssumption DEF M!NoOld
<1>3. old \in [version : -1 .. Last, dirty : BOOLEAN]
  BY <1>1, <1>2, StartsTypes, Zenon
<1> QED
  BY <1>1, <1>3, Zenon DEF SchemasInv, SchemaInv, LockInv, AtLines, M!MigrationTypeOK

LEMMA SchemasStepInv == SchemasInv /\ [M!MigrationNext]_(M!migration) => SchemasInv'
BY MigrationStepInv, SchemaStep, LockStep, Zenon DEF SchemasInv

LEMMA DaemonStepInv == DaemonInv /\ [D!DaemonNext]_(D!daemon) => DaemonInv'
BY DaemonFlagsStep, DaemonRestStep, Zenon DEF DaemonInv

\* Every variable of the server keeps its type: at most one signal waits in the
\* channel of installSignalHandler (main.go), no more requests are counted than
\* are served, whoever holds the lock of the migration is in a transaction, and
\* the queries of a batch are never more than the batch (processor.go).
THEOREM ServerTypes == Spec => []ServerTypeOK
<1>1. Init => DaemonInv /\ IngestInv /\ WebInv /\ SchemasInv /\ TypeInv
  BY DaemonInitInv, IngestInitInv, WebInitInv, SchemasInitInv, TypeInvInit, Zenon DEF Init
<1>2. DaemonInv /\ IngestInv /\ WebInv /\ SchemasInv /\ TypeInv /\ [Next]_vars =>
          (DaemonInv /\ IngestInv /\ WebInv /\ SchemasInv /\ TypeInv)'
  BY PartSteps, DaemonStepInv, IngestStepInv, WebStepInv, SchemasStepInv, TypeInvStep, Zenon
<1>3. DaemonInv /\ IngestInv /\ WebInv /\ SchemasInv /\ TypeInv => ServerTypeOK
  BY DaemonInvTypes, IngestInvTypes, WebInvTypes, SchemasInvTypes, TypeInvTypes, Zenon
  DEF ServerTypeOK
<1> QED
  BY <1>1, <1>2, <1>3, PTL DEF Spec

\* A Run of either service that has returned left nothing running and nothing
\* untold, whoever calls Quit and whatever fails (ingest.go:89, 111-122;
\* webservice.go:162-173).
THEOREM ServerReturnsComplete == Spec => []ReturnsComplete
<1>1. Init => IngestInv /\ WebInv
  BY IngestInitInv, WebInitInv, Zenon DEF Init
<1>2. IngestInv /\ WebInv /\ [Next]_vars => (IngestInv /\ WebInv)'
  BY PartSteps, IngestStepInv, WebStepInv, Zenon
<1>3. IngestInv /\ WebInv => ReturnsComplete
  BY IngestInvReturns, WebInvReturns, Zenon DEF ReturnsComplete
<1> QED
  BY <1>1, <1>2, <1>3, PTL DEF Spec

\* However many hosts run the migrate command and wherever they fail, one of the
\* version tables tells which tables exist, and a database that is dirty or has
\* not the tables of its version is left alone (bootstrap.go:28-36, 63-71).
THEOREM ServerMigrationSure == Spec => []MigrationSure
<1>1. Init => MigrationInv
  BY MigrationInitInv, Zenon DEF Init
<1>2. MigrationInv /\ [Next]_vars => MigrationInv'
  BY PartSteps, MigrationStepInv, Zenon
<1>3. MigrationInv => MigrationSure
  BY Zenon DEF MigrationInv, OldInv, TablesInv, UnsureInv, Unsure, M!VersionTold,
         M!UnsureUntouched, MigrationSure
<1> QED
  BY <1>1, <1>2, <1>3, PTL DEF Spec

=============================================================================
