--------------------------- MODULE UploaderProofs ---------------------------
(***************************************************************************)
(* What Uploader promises for every number of callers, every clock, every  *)
(* set of flags and every combination of faults: who may send a report, of *)
(* what consent the metrics of it are, and what is left when everybody has *)
(* returned; and what more it promises to one uploader at a time.          *)
(***************************************************************************)
EXTENDS Uploader, TLAPS

USE DEF callVars, jobVars, history, consentHistory, store

\* A file of a directory is absent or holds a payload.
LEMMA DirRead ==
    ASSUME NEW d \in Dir, NEW t \in Times
    PROVE  d[t] \in Payload \cup {None}
BY Zenon DEF Dir

\* Steps of the callers keep every variable in its type.
LEMMA TypeStep == TypeOK /\ [Next]_vars => TypeOK'
<1> SUFFICES ASSUME TypeOK, [Next]_vars
             PROVE  TypeOK'
  OBVIOUS
<1> USE DEF TypeOK, StoreTypeOK
<1>0. NoFile \in Dir /\ NoJob \in [Times -> JobPC]
  BY Zenon DEF NoFile, NoJob, Dir, JobPC
<1>1. ASSUME NEW u \in Uploaders, Start(u) PROVE TypeOK'
  BY <1>1, UploaderAssumption DEF Start, Attempt, Observe, CallPC
<1>2. ASSUME NEW u \in Uploaders, Leave(u) PROVE TypeOK'
  BY <1>0, <1>2, UploaderAssumption DEF Leave, CallPC
<1>3. ASSUME NEW u \in Uploaders, CallStep(u) PROVE TypeOK'
  <2> USE DEF CallPC
  <2>0. CASE ReadOptOut(u)
    BY <2>0, <1>2, Zenon DEF ReadOptOut
  <2>1. CASE ReadConsent(u)
    BY <2>1, <1>2, Zenon DEF ReadConsent
  <2>2. CASE List(u)
    BY <2>2, Zenon DEF List, JobPC
  <2>3. CASE JobsDone(u)
    BY <1>0, <2>3, Zenon DEF JobsDone, Oldest, Reports
  <2>4. CASE Evict(u)
    <3>1. PICK t \in victims[u] :
            uploaded' = Remove(uploaded, t) \/ uploaded' = uploaded
      BY <2>4, Zenon DEF Evict
    <3>2. t \in Times /\ None \in Payload \cup {None}
      BY <3>1, Zenon
    <3>3. uploaded' \in Dir
      BY <3>1, <3>2, Zenon DEF Remove, Dir
    <3> QED
      BY <2>4, <3>3 DEF Evict
  <2>5. CASE Return(u)
    <3>1. CASE Leave(u)
      BY <3>1, <1>2, Zenon
    <3>2. CASE ~Leave(u)
      <4>1. attempts[u] \in Nat /\ attempts[u] + 1 \in 0 .. MaxAttempts
        BY <2>5, <3>2, UploaderAssumption DEF Return
      <4>2. /\ attempts' = [attempts EXCEPT ![u] = attempts[u] + 1]
            /\ call' = [call EXCEPT ![u] = "sleep"]
            /\ UNCHANGED <<store, mode, snap, victims, errs, jobVars, history>>
        BY <2>5, <3>2, Zenon DEF Return
      <4>3. attempts' \in [Uploaders -> 0 .. MaxAttempts]
        BY <4>1, <4>2, Zenon
      <4> QED
        BY <4>2, <4>3, Zenon
    <3> QED BY <3>1, <3>2
  <2>6. CASE Retry(u)
    BY <2>6, Zenon DEF Retry, Attempt, Observe
  <2> QED
    BY <1>3, <2>0, <2>1, <2>2, <2>3, <2>4, <2>5, <2>6, Zenon DEF CallStep
<1> DEFINE Kinds == SUBSET {"send", "other"}
           JobTypes == /\ pc \in [Uploaders -> [Times -> JobPC]]
                       /\ errs \in [Uploaders -> Kinds]
                       /\ data \in [Uploaders -> Dir]
                       /\ stash \in [Uploaders -> Dir]
<1>4. ASSUME NEW u \in Uploaders, NEW t \in Times,
             \E kinds \in Kinds : Finish(u, t, kinds)
      PROVE  JobTypes'
  <2>1. PICK kinds \in Kinds : Finish(u, t, kinds)
    BY <1>4, Zenon
  <2>2. pc' \in [Uploaders -> [Times -> JobPC]]
    BY <2>1, Zenon DEF Finish, Goto, JobPC
  <2>3. errs' \in [Uploaders -> Kinds]
    BY <2>1, Zenon DEF Finish
  <2>4. None \in Payload \cup {None}
    OBVIOUS
  <2>5. data' \in [Uploaders -> Dir]
    BY <2>1, <2>4, Zenon DEF Finish, Dir
  <2>6. stash' \in [Uploaders -> Dir]
    BY <2>1, <2>4, Zenon DEF Finish, Dir
  <2> QED
    BY <2>2, <2>3, <2>5, <2>6, Zenon
<1>5. ASSUME NEW u \in Uploaders, NEW t \in Times, JobStep(u, t) PROVE TypeOK'
  <2>0. /\ local[t] \in Payload \cup {None}
        /\ data[u][t] \in Payload \cup {None}
        /\ stash[u][t] \in Payload \cup {None}
    BY DirRead, Zenon
  <2>1. CASE Check(u, t)
    <3>1. \/ \E kinds \in Kinds : Finish(u, t, kinds)
          \/ Goto(u, t, "read") /\ UNCHANGED <<errs, data, stash>>
      BY <2>1, Zenon DEF Check
    <3>2. JobTypes'
      <4>1. CASE \E kinds \in Kinds : Finish(u, t, kinds)
        BY <4>1, <1>4, Zenon
      <4>2. CASE Goto(u, t, "read") /\ UNCHANGED <<errs, data, stash>>
        BY <4>2, Zenon DEF Goto, JobPC
      <4> QED BY <3>1, <4>1, <4>2
    <3> QED
      BY <2>1, <3>2, Zenon DEF Check
  <2>2. CASE Read(u, t)
    <3>1. Consented(u \in snap, local[t]) \in Payload \cup {None}
      BY <2>0, Zenon DEF Consented, Payload
    <3>2. \/ \E kinds \in Kinds : Finish(u, t, kinds)
          \/ /\ Goto(u, t, "stash") /\ UNCHANGED <<errs, stash>>
             /\ data' = [data EXCEPT ![u][t] = Consented(u \in snap, local[t])]
      BY <2>2, Zenon DEF Read
    <3>3. JobTypes'
      <4>1. CASE \E kinds \in Kinds : Finish(u, t, kinds)
        BY <4>1, <1>4, Zenon
      <4>2. CASE /\ Goto(u, t, "stash") /\ UNCHANGED <<errs, stash>>
                 /\ data' = [data EXCEPT ![u][t] = Consented(u \in snap, local[t])]
        <5>1. pc' \in [Uploaders -> [Times -> JobPC]]
          BY <4>2, Zenon DEF Goto, JobPC
        <5>2. data' \in [Uploaders -> Dir]
          BY <3>1, <4>2, Zenon DEF Dir
        <5> QED BY <4>2, <5>1, <5>2
      <4> QED BY <3>2, <4>1, <4>2
    <3> QED
      BY <2>2, <3>3, Zenon DEF Read
  <2>3. CASE Stash(u, t)
    <3>1. \/ \E kinds \in Kinds : Finish(u, t, kinds)
          \/ /\ Goto(u, t, "mark") /\ UNCHANGED <<errs, data>>
             /\ stash' = [stash EXCEPT ![u][t] = local[t]]
      BY <2>3, Zenon DEF Stash
    <3>2. JobTypes'
      <4>1. CASE \E kinds \in Kinds : Finish(u, t, kinds)
        BY <4>1, <1>4, Zenon
      <4>2. CASE /\ Goto(u, t, "mark") /\ UNCHANGED <<errs, data>>
                 /\ stash' = [stash EXCEPT ![u][t] = local[t]]
        <5>1. pc' \in [Uploaders -> [Times -> JobPC]]
          BY <4>2, Zenon DEF Goto, JobPC
        <5>2. stash' \in [Uploaders -> Dir]
          BY <2>0, <4>2, Zenon DEF Dir
        <5> QED BY <4>2, <5>1, <5>2
      <4> QED BY <3>1, <4>1, <4>2
    <3> QED
      BY <2>3, <3>2, Zenon DEF Stash
  <2>4. CASE Mark(u, t)
    BY <2>0, <2>4, Zenon DEF Mark, Goto, JobPC, AtomicWrite, Dir
  <2>5. CASE Claim(u, t)
    <3>1. \/ \E kinds \in Kinds : Finish(u, t, kinds)
          \/ Goto(u, t, "send") /\ UNCHANGED <<errs, data, stash>>
      BY <2>5, Zenon DEF Claim
    <3>2. JobTypes'
      <4>1. CASE \E kinds \in Kinds : Finish(u, t, kinds)
        BY <4>1, <1>4, Zenon
      <4>2. CASE Goto(u, t, "send") /\ UNCHANGED <<errs, data, stash>>
        BY <4>2, Zenon DEF Goto, JobPC
      <4> QED BY <3>1, <4>1, <4>2
    <3>3. local' \in Dir
      BY <2>5, Zenon DEF Claim, Remove, Dir
    <3> QED
      BY <2>5, <3>2, <3>3, Zenon DEF Claim
  <2>6. CASE Deliver(u, t)
    BY <2>6, UploaderAssumption DEF Deliver, Goto, JobPC
  <2>7. CASE Accepted(u, t)
    <3>1. JobTypes'
      BY <2>7, <1>4, Zenon DEF Accepted
    <3>2. ackedData' \in Dir
      BY <2>0, <2>7, Zenon DEF Accepted, Dir
    <3> QED
      BY <2>7, <3>1, <3>2 DEF Accepted
  <2>8. CASE UndoWrite(u, t)
    BY <2>0, <2>8, Zenon DEF UndoWrite, Goto, JobPC, AtomicWrite, Dir
  <2>9. CASE UndoRemove(u, t)
    <3>1. JobTypes'
      BY <2>9, <1>4, Zenon DEF UndoRemove
    <3>2. uploaded' \in Dir
      BY <2>9, Zenon DEF UndoRemove, Remove, Dir
    <3> QED
      BY <2>9, <3>1, <3>2, Zenon DEF UndoRemove
  <2> QED
    BY <1>5, <2>1, <2>2, <2>3, <2>4, <2>5, <2>6, <2>7, <2>8, <2>9, Zenon DEF JobStep
<1>6. ASSUME NEW u \in Uploaders, NEW t \in Times, JobFault(u, t) PROVE TypeOK'
  <2>1. CASE SendFails(u, t)
    BY <2>1, Zenon DEF SendFails, Goto, JobPC
  <2>2. CASE AckLost(u, t)
    BY <2>2 DEF AckLost, Goto, JobPC
  <2>3. CASE JobFails(u, t)
    BY <2>3, <1>4, Zenon DEF JobFails
  <2> QED
    BY <1>6, <2>1, <2>2, <2>3, Zenon DEF JobFault
<1>7. CASE Environment
  <2>1. CASE Collect
    BY <2>1, Zenon DEF Collect, AtomicWrite, Dir
  <2>2. CASE ConsentChanges
    BY <2>2, Zenon DEF ConsentChanges, SetState, SetOptOut, ConsentFiles, SysConfigs
  <2>3. CASE TimePasses
    BY <2>3, StoreAssumption DEF TimePasses, Tick, Times
  <2> QED
    BY <1>7, <2>1, <2>2, <2>3, Zenon DEF Environment
<1>8. CASE UNCHANGED vars
  BY <1>8, Zenon DEF vars
<1> QED
  BY <1>1, <1>2, <1>3, <1>5, <1>6, <1>7, <1>8, Zenon
  DEF Next, UploaderNext, CallFails, Crash

\* Every variable keeps its type; in particular BackoffUpload never makes more
\* than MaxAttempts retries.
THEOREM TypeCorrect == Spec => []TypeOK
<1>1. Init => TypeOK
  BY StoreAssumption, UploaderAssumption
  DEF Init, TypeOK, StoreTypeOK, Dir, Payload, CallPC, JobPC, Times,
      NoFile, NoJob
<1> QED
  BY <1>1, TypeStep, PTL DEF Spec

-----------------------------------------------------------------------------
(***************************************************************************)
(* The claim on a report.  Removing the collected file is what entitles a  *)
(* goroutine to send it, and UndoProcessed gives the entitlement back.     *)
(***************************************************************************)
Holds(u, t) == pc[u][t] \in {"send", "got", "undoWrite"}

\* The claim is in one place: the local directory, one goroutine, or, once the
\* report was accepted (or its holder was killed), nowhere.
ClaimInv ==
    /\ \A t \in Times : \A u, v \in Uploaders :
           Holds(u, t) /\ Holds(v, t) => u = v
    /\ \A t \in Times : \A u \in Uploaders :
           Holds(u, t) =>
               local[t] = None /\ accepted[t] = 0 /\ collected[t] # None
    /\ \A t \in Times :
           local[t] # None => accepted[t] = 0 /\ collected[t] # None
    /\ \A t \in Times : accepted[t] + copies[t] > 0 => collected[t] # None
    /\ \A t \in Times : accepted[t] <= 1

\* While a report can still be sent, every delivery of it was one whose answer
\* was lost.
CopiesInv ==
    \A t \in Times :
        /\ copies[t] <= lostAcks[t] + 1
        /\ local[t] # None => copies[t] <= lostAcks[t]
        /\ \A u \in Uploaders :
               pc[u][t] \in {"send", "undoWrite"} => copies[t] <= lostAcks[t]

\* A step that leaves the local directory and the server alone, and by which no
\* goroutine obtains or uses a claim, keeps both.
LEMMA ClaimFrame ==
    ASSUME ClaimInv, CopiesInv,
           UNCHANGED <<local, collected, accepted, copies, lostAcks>>,
           \A u \in Uploaders, t \in Times :
               pc'[u][t] \in {"send", "got", "undoWrite"} =>
                   pc'[u][t] = pc[u][t]
    PROVE  ClaimInv' /\ CopiesInv'
BY Zenon DEF ClaimInv, CopiesInv, Holds

\* Every step hands the claim on: Claim takes it from the local directory,
\* Accepted ends it and UndoWrite puts it back.
LEMMA ClaimStep ==
    TypeOK /\ ClaimInv /\ CopiesInv /\ [Next]_vars => ClaimInv' /\ CopiesInv'
<1> SUFFICES ASSUME TypeOK, ClaimInv, CopiesInv, [Next]_vars
             PROVE  ClaimInv' /\ CopiesInv'
  OBVIOUS
<1>0. /\ pc \in [Uploaders -> [Times -> JobPC]]
      /\ accepted \in [Times -> Nat]
      /\ copies \in [Times -> Nat]
      /\ lostAcks \in [Times -> Nat]
      /\ local \in [Times -> Payload \cup {None}]
      /\ collected \in [Times -> Payload \cup {None}]
      /\ now \in Times
  BY UploaderAssumption DEF TypeOK, StoreTypeOK, Dir
<1>1. ASSUME NEW u \in Uploaders, Start(u) PROVE ClaimInv' /\ CopiesInv'
  BY <1>1, ClaimFrame, Zenon DEF Start
<1>2. ASSUME NEW u \in Uploaders, Leave(u) PROVE ClaimInv' /\ CopiesInv'
  BY <1>0, <1>2, ClaimFrame, Zenon DEF Leave, NoJob
<1>3. ASSUME NEW u \in Uploaders, CallStep(u) PROVE ClaimInv' /\ CopiesInv'
  <2>0. CASE ReadOptOut(u)
    BY <2>0, <1>2, ClaimFrame, Zenon DEF ReadOptOut
  <2>1. CASE ReadConsent(u)
    BY <2>1, <1>2, ClaimFrame, Zenon DEF ReadConsent
  <2>2. CASE List(u)
    BY <1>0, <2>2, ClaimFrame, Zenon DEF List
  <2>3. CASE JobsDone(u)
    BY <1>0, <2>3, ClaimFrame, Zenon DEF JobsDone, NoJob
  <2>4. CASE Evict(u)
    BY <2>4, ClaimFrame, Zenon DEF Evict
  <2>5. CASE Return(u)
    BY <2>5, <1>2, ClaimFrame, Zenon DEF Return
  <2>6. CASE Retry(u)
    BY <2>6, ClaimFrame, Zenon DEF Retry
  <2> QED
    BY <1>3, <2>0, <2>1, <2>2, <2>3, <2>4, <2>5, <2>6, Zenon DEF CallStep
<1>4. ASSUME NEW u \in Uploaders, NEW t \in Times, JobStep(u, t)
      PROVE  ClaimInv' /\ CopiesInv'
  <2> USE <1>0 DEF Goto, Finish
  <2>1. CASE Check(u, t)
    BY <2>1, ClaimFrame DEF Check
  <2>2. CASE Read(u, t)
    BY <2>2, ClaimFrame DEF Read
  <2>3. CASE Stash(u, t)
    <3>1. /\ pc[u][t] = "stash"
          /\ \E p \in {"done", "mark"} : pc' = [pc EXCEPT ![u][t] = p]
          /\ UNCHANGED <<local, collected, accepted, copies, lostAcks>>
      BY <2>3, Zenon DEF Stash
    <3> QED
      BY <3>1, ClaimFrame
  <2>4. CASE Mark(u, t)
    BY <2>4, ClaimFrame, Zenon DEF Mark
  <2>5. CASE Claim(u, t)
    <3>1. CASE local[t] = None
      BY <2>5, <3>1, ClaimFrame DEF Claim
    <3>2. CASE local[t] # None
      <4>1. /\ local' = [local EXCEPT ![t] = None]
            /\ pc' = [pc EXCEPT ![u][t] = "send"]
            /\ UNCHANGED <<collected, accepted, copies, lostAcks>>
        BY <2>5, <3>2, Zenon DEF Claim, Remove
      <4> QED
        BY <3>2, <4>1, Zenon DEF ClaimInv, CopiesInv, Holds
    <3> QED
      BY <3>1, <3>2, Zenon
  <2>6. CASE Deliver(u, t)
    BY <2>6 DEF Deliver, ClaimInv, CopiesInv, Holds
  <2>7. CASE Accepted(u, t)
    BY <2>7 DEF Accepted, ClaimInv, CopiesInv, Holds
  <2>8. CASE UndoWrite(u, t)
    BY <2>8, Zenon DEF UndoWrite, AtomicWrite, ClaimInv, CopiesInv, Holds
  <2>9. CASE UndoRemove(u, t)
    BY <2>9, ClaimFrame, Zenon DEF UndoRemove
  <2> QED
    BY <1>4, <2>1, <2>2, <2>3, <2>4, <2>5, <2>6, <2>7, <2>8, <2>9, Zenon DEF JobStep
<1>5. ASSUME NEW u \in Uploaders, NEW t \in Times, JobFault(u, t)
      PROVE  ClaimInv' /\ CopiesInv'
  <2> USE <1>0 DEF Goto, Finish
  <2>1. CASE SendFails(u, t)
    BY <2>1 DEF SendFails, ClaimInv, CopiesInv, Holds
  <2>2. CASE AckLost(u, t)
    BY <2>2 DEF AckLost, ClaimInv, CopiesInv, Holds
  <2>3. CASE JobFails(u, t)
    BY <2>3, ClaimFrame, Zenon DEF JobFails
  <2> QED
    BY <1>5, <2>1, <2>2, <2>3, Zenon DEF JobFault
<1>6. CASE Environment
  <2>1. CASE Collect
    <3>1. PICK payload \in Payload :
            /\ local' = [local EXCEPT ![now] = payload]
            /\ collected' = [collected EXCEPT ![now] = payload]
      BY <2>1, Zenon DEF Collect, AtomicWrite
    <3>2. UNCHANGED <<uploaded, accepted, copies, lostAcks, pc>> /\ collected[now] = None
      BY <2>1, Zenon DEF Collect
    <3>3. payload # None /\ accepted[now] = 0 /\ copies[now] = 0
      BY <1>0, <3>2 DEF Payload, None, ClaimInv
    <3> QED
      BY <1>0, <3>1, <3>2, <3>3 DEF ClaimInv, CopiesInv, Holds
  <2>2. CASE ConsentChanges
    BY <2>2, ClaimFrame, Zenon DEF ConsentChanges, SetState, SetOptOut
  <2>3. CASE TimePasses
    BY <2>3, ClaimFrame, Zenon DEF TimePasses, Tick
  <2> QED
    BY <1>6, <2>1, <2>2, <2>3, Zenon DEF Environment
<1>7. CASE UNCHANGED vars
  BY <1>7, ClaimFrame, Zenon DEF vars
<1> QED
  BY <1>1, <1>2, <1>3, <1>4, <1>5, <1>6, <1>7, Zenon
  DEF Next, UploaderNext, CallFails, Crash

\* A report's claim is never in two places, in every reachable state.
THEOREM ClaimCorrect == Spec => [](ClaimInv /\ CopiesInv)
<1>1. Init => ClaimInv /\ CopiesInv
  BY DEF Init, ClaimInv, CopiesInv, Holds, NoFile, NoJob, Times
<1> QED
  BY <1>1, TypeCorrect, ClaimStep, PTL DEF Spec

\* At most one 202 per report, for any number of concurrent uploads of the
\* source, any crashes, failing calls and lost answers: MarkAsProcessed and
\* UndoProcessed hand the claim on a report from one goroutine to the next.
THEOREM AcceptedAtMostOnce == Spec => []AcceptedOnce
BY ClaimCorrect, PTL DEF ClaimInv, AcceptedOnce

\* Every delivery of a report but one is a delivery whose answer was lost.
THEOREM DuplicatesNeedLostAcks == Spec => []DuplicateOnlyAfterLostAck
<1>1. TypeOK /\ CopiesInv => DuplicateOnlyAfterLostAck
  BY UploaderAssumption DEF TypeOK, CopiesInv, DuplicateOnlyAfterLostAck
<1> QED
  BY <1>1, TypeCorrect, ClaimCorrect, PTL

-----------------------------------------------------------------------------
(***************************************************************************)
(* Consent: metrics leave the machine with consent only, and what is kept  *)
(* for an undo is what was collected.                                      *)
(***************************************************************************)
\* An attempt that is about to read the source's file began, or went on, at a
\* time when the system was not opted out; while it is not, that holds of every
\* attempt; while the source's consent is granted, it was granted in each of
\* these; and it was in every attempt that read it as given.
SeenInv ==
    /\ \A u \in grantedDuring : u \in systemDuring
    /\ \A u \in systemDuring : call[u] # "idle"
    /\ IsOptedOut = "false" =>
           \A u \in Uploaders : call[u] # "idle" => u \in systemDuring
    /\ SourceConsent = "true" => \A u \in systemDuring : u \in grantedDuring
    /\ \A u \in Uploaders : call[u] = "source" => u \in systemDuring
    /\ \A u \in snap : u \in grantedDuring

\* What is read of the consent files is told by the files alone.
LEMMA SameConsent ==
    ASSUME UNCHANGED <<consentFile, sysConfig>>
    PROVE  IsOptedOut' = IsOptedOut /\ SourceConsent' = SourceConsent
BY Zenon DEF IsOptedOut, SourceConsent

\* What a step that changes neither the files nor what the callers have seen of
\* them has to leave alone.
LEMMA SeenFrame ==
    ASSUME SeenInv, UNCHANGED <<consentFile, sysConfig, snap, consentHistory>>,
           \A u \in Uploaders : /\ call'[u] = "idle" <=> call[u] = "idle"
                                /\ call'[u] = "source" => call[u] = "source",
           systemDuring \subseteq Uploaders
    PROVE  SeenInv'
BY SameConsent, Zenon DEF SeenInv

\* Every step of a caller keeps it: between the two reads of GetState the caller
\* stays one for which the system was not opted out.
LEMMA SeenCaller == TypeOK /\ SeenInv /\ UploaderNext => SeenInv'
<1> SUFFICES ASSUME TypeOK, SeenInv, UploaderNext
             PROVE  SeenInv'
  OBVIOUS
<1>0. /\ call \in [Uploaders -> CallPC]
      /\ snap \subseteq Uploaders
      /\ systemDuring \subseteq Uploaders
      /\ grantedDuring \subseteq Uploaders
  BY Zenon DEF TypeOK
<1>1. ASSUME NEW u \in Uploaders, Attempt(u), UNCHANGED <<consentFile, sysConfig>>
      PROVE  SeenInv'
  BY <1>0, SameConsent, <1>1, Zenon DEF Attempt, Observe, SeenInv
<1>2. ASSUME NEW u \in Uploaders, Leave(u) PROVE SeenInv'
  BY <1>0, SameConsent, <1>2, Zenon DEF Leave, SeenInv
<1>b. ASSUME NEW u \in Uploaders, NEW p, p \notin {"idle", "source"},
             call[u] # "idle", call' = [call EXCEPT ![u] = p],
             UNCHANGED <<consentFile, sysConfig, snap, consentHistory>>
      PROVE  SeenInv'
  BY <1>0, <1>b, SeenFrame, Zenon
<1>c. ASSUME UNCHANGED <<consentFile, sysConfig, call, snap, consentHistory>>
      PROVE  SeenInv'
  BY <1>0, <1>c, SeenFrame, Zenon
<1>3. ASSUME NEW u \in Uploaders, CallStep(u) PROVE SeenInv'
  <2>0. CASE ReadOptOut(u)
    <3>1. CASE IsOptedOut = "false"
      <4>1. /\ call[u] = "consent"
            /\ call' = [call EXCEPT ![u] = "source"]
            /\ UNCHANGED <<consentFile, sysConfig, snap, systemDuring, grantedDuring>>
        BY <2>0, <3>1, Zenon DEF ReadOptOut
      <4> QED
        BY <1>0, SameConsent, <3>1, <4>1, Zenon DEF SeenInv
    <3>2. CASE IsOptedOut # "false"
      BY <2>0, <3>2, <1>2, <1>b, Zenon DEF ReadOptOut
    <3> QED
      BY <3>1, <3>2, Zenon
  <2>1. CASE ReadConsent(u)
    <3>1. CASE Leave(u)
      BY <3>1, <1>2, Zenon
    <3>2. CASE ~Leave(u)
      <4>1. /\ call[u] = "source"
            /\ call' = [call EXCEPT ![u] = "list"]
            /\ snap' = IF SourceConsent = "true" THEN snap \cup {u} ELSE snap
            /\ UNCHANGED <<consentFile, sysConfig, systemDuring, grantedDuring>>
        BY <2>1, <3>2, Zenon DEF ReadConsent
      <4> QED
        BY <1>0, SameConsent, <4>1, Zenon DEF SeenInv
    <3> QED
      BY <3>1, <3>2, Zenon
  <2>2. CASE List(u)
    BY <1>b, <2>2, Zenon DEF List
  <2>3. CASE JobsDone(u)
    BY <1>b, <2>3, Zenon DEF JobsDone
  <2>4. CASE Evict(u)
    BY <1>c, <2>4, Zenon DEF Evict
  <2>5. CASE Return(u)
    BY <1>2, <1>b, <2>5, Zenon DEF Return
  <2>6. CASE Retry(u)
    BY <1>1, <2>6, Zenon DEF Retry
  <2> QED
    BY <1>3, <2>0, <2>1, <2>2, <2>3, <2>4, <2>5, <2>6, Zenon DEF CallStep
<1>4. ASSUME NEW u \in Uploaders, NEW t \in Times, JobStep(u, t) \/ JobFault(u, t)
      PROVE  SeenInv'
  BY <1>4, <1>c, Zenon
  DEF JobStep, JobFault, Check, Read, Stash, Mark, Claim, Deliver, Accepted,
      UndoWrite, UndoRemove, SendFails, AckLost, JobFails
<1>5. ASSUME NEW u \in Uploaders, Start(u) PROVE SeenInv'
  BY <1>1, <1>5, Zenon DEF Start
<1> QED
  BY <1>2, <1>3, <1>4, <1>5, Zenon DEF UploaderNext, CallFails, Crash

\* A change of the consent files counts for every attempt in progress.
LEMMA SeenChange == TypeOK /\ SeenInv /\ ConsentChanges => SeenInv'
<1> SUFFICES ASSUME TypeOK, SeenInv, ConsentChanges
             PROVE  SeenInv'
  OBVIOUS
<1>1. /\ systemDuring' = IF IsOptedOut' = "false"
                         THEN {u \in Uploaders : call[u] # "idle"}
                         ELSE systemDuring
      /\ grantedDuring' = IF SourceConsent' = "true" THEN systemDuring'
                                                    ELSE grantedDuring
      /\ UNCHANGED <<call, snap>>
  BY Zenon DEF ConsentChanges
<1>2. systemDuring \subseteq systemDuring' /\ grantedDuring \subseteq grantedDuring'
  BY <1>1, Zenon DEF SeenInv, TypeOK
<1> QED
  BY <1>1, <1>2, Zenon DEF SeenInv, TypeOK

\* Goroutines exist only inside an attempt; metrics in memory come from a report
\* collected with metrics and are held by an attempt that read consent as given
\* only; and what is kept for an undo is what was collected.
ConsentInv ==
    /\ \A u \in Uploaders, t \in Times : pc[u][t] # "none" => call[u] = "jobs"
    /\ \A u \in Uploaders, t \in Times :
           data[u][t] = "full" =>
               u \in snap /\ collected[t] = "full" /\ pc[u][t] # "none"
    /\ \A u \in Uploaders, t \in Times : stash[u][t] \in {None, collected[t]}
    /\ LocalIsOriginal

\* Every step of a caller keeps it.
LEMMA ConsentStep == TypeOK /\ ConsentInv /\ [Next]_vars => ConsentInv'
<1> SUFFICES ASSUME TypeOK, ConsentInv, [Next]_vars
             PROVE  ConsentInv'
  OBVIOUS
<1>0. /\ pc \in [Uploaders -> [Times -> JobPC]]
      /\ call \in [Uploaders -> CallPC]
      /\ snap \subseteq Uploaders
      /\ data \in [Uploaders -> [Times -> Payload \cup {None}]]
      /\ stash \in [Uploaders -> [Times -> Payload \cup {None}]]
      /\ local \in [Times -> Payload \cup {None}]
      /\ collected \in [Times -> Payload \cup {None}]
      /\ now \in Times
  BY Zenon DEF TypeOK, StoreTypeOK, Dir
<1>1. ASSUME NEW u \in Uploaders, call[u] \in {"idle", "sleep"}, Attempt(u),
             UNCHANGED <<local, collected, pc, data, stash>>
      PROVE  ConsentInv'
  BY <1>0, <1>1, Zenon DEF Attempt, ConsentInv, LocalIsOriginal
<1>2. ASSUME NEW u \in Uploaders, Leave(u) PROVE ConsentInv'
  BY <1>0, <1>2 DEF Leave, NoJob, NoFile, None, ConsentInv, LocalIsOriginal
<1>b. ASSUME NEW u \in Uploaders, NEW t \in Times, NEW kinds,
             pc[u][t] # "none", Finish(u, t, kinds),
             UNCHANGED <<local, collected, call, snap>>
      PROVE  ConsentInv'
  BY <1>0, <1>b DEF Finish, Goto, None, ConsentInv, LocalIsOriginal
<1>c. ASSUME NEW u \in Uploaders, NEW t \in Times, NEW p,
             pc[u][t] # "none", p # "none", Goto(u, t, p),
             UNCHANGED <<local, collected, call, snap,
                         data, stash>>
      PROVE  ConsentInv'
  BY <1>0, <1>c DEF Goto, ConsentInv, LocalIsOriginal
<1>3. ASSUME NEW u \in Uploaders, CallStep(u) PROVE ConsentInv'
  <2>0. CASE ReadOptOut(u)
    <3>1. CASE Leave(u)
      BY <3>1, <1>2, Zenon
    <3>2. CASE ~Leave(u)
      <4>1. /\ call[u] = "consent" /\ \A v \in Uploaders \ {u} : call'[v] = call[v]
            /\ UNCHANGED <<local, collected, snap, pc, data, stash>>
        BY <1>0, <2>0, <3>2, Zenon DEF ReadOptOut
      <4> QED
        BY <1>0, <4>1, Zenon DEF ConsentInv, LocalIsOriginal
    <3> QED
      BY <3>1, <3>2, Zenon
  <2>1. CASE ReadConsent(u)
    <3>1. CASE Leave(u)
      BY <3>1, <1>2, Zenon
    <3>2. CASE ~Leave(u)
      <4>1. /\ call[u] = "source"
            /\ call' = [call EXCEPT ![u] = "list"]
            /\ snap' = snap \/ snap' = snap \cup {u}
            /\ UNCHANGED <<store, jobVars>>
        BY <2>1, <3>2, Zenon DEF ReadConsent
      <4> QED
        BY <1>0, <4>1 DEF ConsentInv, LocalIsOriginal
    <3> QED
      BY <3>1, <3>2, Zenon
  <2>2. CASE List(u)
    BY <1>0, <2>2, Zenon DEF List, ConsentInv, LocalIsOriginal
  <2>3. CASE JobsDone(u)
    BY <1>0, <2>3, SMTT(20) DEF JobsDone, NoJob, NoFile, None, ConsentInv, LocalIsOriginal
  <2>4. CASE Evict(u)
    BY <1>0, <2>4, Zenon DEF Evict, ConsentInv, LocalIsOriginal
  <2>5. CASE Return(u)
    <3>1. CASE Leave(u)
      BY <3>1, <1>2, Zenon
    <3>2. CASE ~Leave(u)
      <4>1. /\ call[u] = "cleanup"
            /\ call' = [call EXCEPT ![u] = "sleep"]
            /\ UNCHANGED <<store, snap, jobVars>>
        BY <2>5, <3>2, Zenon DEF Return
      <4> QED
        BY <1>0, <4>1, Zenon DEF ConsentInv, LocalIsOriginal
    <3> QED
      BY <3>1, <3>2, Zenon
  <2>6. CASE Retry(u)
    BY <2>6, <1>1, Zenon DEF Retry
  <2> QED
    BY <1>3, <2>0, <2>1, <2>2, <2>3, <2>4, <2>5, <2>6, Zenon DEF CallStep
<1>4. ASSUME NEW u \in Uploaders, NEW t \in Times, JobStep(u, t)
      PROVE  ConsentInv'
  <2>1. CASE Check(u, t)
    <3>1. CASE Goto(u, t, "read") /\ UNCHANGED <<data, stash>>
      BY <2>1, <3>1, <1>c, Zenon DEF Check
    <3>2. CASE Finish(u, t, {}) \/ Finish(u, t, {"other"})
      BY <2>1, <3>2, <1>b, Zenon DEF Check
    <3> QED
      BY <2>1, <3>1, <3>2, Zenon DEF Check
  <2>2. CASE Read(u, t)
    <3>1. CASE Finish(u, t, {}) \/ Finish(u, t, {"other"})
      BY <2>2, <3>1, <1>b, Zenon DEF Read
    <3>2. CASE ~(Finish(u, t, {}) \/ Finish(u, t, {"other"}))
      <4>1. /\ pc[u][t] # "none"
            /\ pc' = [pc EXCEPT ![u][t] = "stash"]
            /\ data' = [data EXCEPT ![u][t] = Consented(u \in snap, local[t])]
            /\ UNCHANGED <<local, collected, call,
                           snap, stash>>
        BY <2>2, <3>2, Zenon DEF Read, Goto
      <4>2. Consented(u \in snap, local[t]) = "full" =>
                u \in snap /\ local[t] = "full"
        BY Zenon DEF Consented
      <4> QED
        BY <1>0, <4>1, <4>2 DEF None, ConsentInv, LocalIsOriginal
    <3> QED
      BY <3>1, <3>2, Zenon
  <2>3. CASE Stash(u, t)
    <3>1. CASE Finish(u, t, {"other"})
      BY <2>3, <3>1, <1>b, Zenon DEF Stash
    <3>2. CASE ~Finish(u, t, {"other"})
      <4>1. /\ pc[u][t] # "none"
            /\ pc' = [pc EXCEPT ![u][t] = "mark"]
            /\ stash' = [stash EXCEPT ![u][t] = local[t]]
            /\ UNCHANGED <<local, collected, call,
                           snap, data>>
        BY <2>3, <3>2, Zenon DEF Stash, Goto
      <4> QED
        BY <1>0, <4>1 DEF ConsentInv, LocalIsOriginal
    <3> QED
      BY <3>1, <3>2, Zenon
  <2>4. CASE Mark(u, t)
    BY <2>4, <1>c, Zenon DEF Mark
  <2>5. CASE Claim(u, t)
    <3>1. CASE local[t] = None
      BY <2>5, <3>1, <1>b, Zenon DEF Claim
    <3>2. CASE local[t] # None
      <4>1. /\ pc[u][t] # "none"
            /\ pc' = [pc EXCEPT ![u][t] = "send"]
            /\ local' = [local EXCEPT ![t] = None]
            /\ UNCHANGED <<collected, call, snap,
                         data, stash>>
        BY <2>5, <3>2, Zenon DEF Claim, Remove, Goto
      <4> QED
        BY <1>0, <4>1 DEF ConsentInv, LocalIsOriginal
    <3> QED
      BY <3>1, <3>2, Zenon
  <2>6. CASE Deliver(u, t)
    BY <2>6, <1>c, Zenon DEF Deliver
  <2>7. CASE Accepted(u, t)
    BY <2>7, <1>b, Zenon DEF Accepted
  <2>8. CASE UndoWrite(u, t)
    <3>1. /\ pc[u][t] # "none"
          /\ pc' = [pc EXCEPT ![u][t] = "undoRemove"]
          /\ local' = [local EXCEPT ![t] = stash[u][t]]
          /\ UNCHANGED <<collected, call, snap,
                         data, stash>>
      BY <2>8, Zenon DEF UndoWrite, AtomicWrite, Goto
    <3> QED
      BY <1>0, <3>1 DEF ConsentInv, LocalIsOriginal
  <2>9. CASE UndoRemove(u, t)
    BY <2>9, <1>b, Zenon DEF UndoRemove
  <2> QED
    BY <1>4, <2>1, <2>2, <2>3, <2>4, <2>5, <2>6, <2>7, <2>8, <2>9, Zenon DEF JobStep
<1>5. ASSUME NEW u \in Uploaders, NEW t \in Times, JobFault(u, t)
      PROVE  ConsentInv'
  <2>1. CASE SendFails(u, t)
    BY <2>1, <1>c, Zenon DEF SendFails
  <2>2. CASE AckLost(u, t)
    BY <2>2, <1>c, Zenon DEF AckLost
  <2>3. CASE JobFails(u, t)
    BY <2>3, <1>b, Zenon DEF JobFails
  <2> QED
    BY <1>5, <2>1, <2>2, <2>3, Zenon DEF JobFault
<1>6. CASE Environment
  <2>1. CASE Collect
    BY <1>0, <2>1 DEF Collect, AtomicWrite, None, ConsentInv, LocalIsOriginal
  <2>2. CASE ConsentChanges
    BY <1>0, <2>2, Zenon
    DEF ConsentChanges, SetState, SetOptOut, ConsentInv, LocalIsOriginal
  <2>3. CASE TimePasses
    BY <1>0, <2>3, Zenon DEF TimePasses, Tick, ConsentInv, LocalIsOriginal
  <2> QED
    BY <1>6, <2>1, <2>2, <2>3, Zenon DEF Environment
<1>7. CASE UNCHANGED vars
  BY <1>0, <1>7, Zenon DEF vars, ConsentInv, LocalIsOriginal
<1>8. ASSUME NEW u \in Uploaders, Start(u) PROVE ConsentInv'
  BY <1>8, <1>1, Zenon DEF Start
<1> QED
  BY <1>2, <1>3, <1>4, <1>5, <1>6, <1>7, <1>8, Zenon
  DEF Next, UploaderNext, CallFails, Crash

\* Metrics in memory are there with consent, in every reachable state.
THEOREM ConsentCorrect == Spec => [](SeenInv /\ ConsentInv)
<1>1. Init => SeenInv /\ ConsentInv
  BY DEF Init, SeenInv, ConsentInv, LocalIsOriginal, NoFile, NoJob, None
<1>2. TypeOK /\ SeenInv /\ [Next]_vars => SeenInv'
  <2> SUFFICES ASSUME TypeOK, SeenInv, [Next]_vars
               PROVE  SeenInv'
    OBVIOUS
  <2>1. CASE Collect \/ TimePasses \/ UNCHANGED vars
    BY <2>1, SeenFrame, Zenon DEF Collect, TimePasses, Tick, vars, TypeOK
  <2> QED
    BY <2>1, SeenCaller, SeenChange, Zenon DEF Next, Environment
<1> QED
  BY <1>1, <1>2, TypeCorrect, ConsentStep, PTL DEF Spec

\* Metrics leave the machine only if they were collected, and in an attempt in
\* which the system was not opted out at some time and the source's consent was
\* granted at that time or later.
THEOREM MetricsNeedConsent == Spec => []ConsentAtBothPoints
<1>1. SeenInv /\ ConsentInv => ConsentAtBothPoints
  BY Zenon DEF SeenInv, ConsentInv, ConsentAtBothPoints
<1> QED
  BY <1>1, ConsentCorrect, PTL

\* A failed upload, at whatever point and in whatever company, never alters a
\* collected report.
THEOREM LocalStaysOriginal == Spec => []LocalIsOriginal
<1>1. ConsentInv => LocalIsOriginal
  BY Zenon DEF ConsentInv
<1> QED
  BY <1>1, ConsentCorrect, PTL

-----------------------------------------------------------------------------
(***************************************************************************)
(* What is left when every caller has returned, if nobody is killed and    *)
(* no file-system call fails.                                              *)
(***************************************************************************)
Undisturbed == Faults \cap {"crash", "io"} = {}

\* A report that is in both directories has a goroutine about to take it out of
\* one of them, and a report that is in neither, or only marked, was accepted or
\* is held by a goroutine, which kept it for an undo.
SettledInv ==
    /\ \A u \in Uploaders, t \in Times : pc[u][t] # "none" => collected[t] # None
    /\ \A t \in Times : uploaded[t] # None => collected[t] # None
    /\ \A u \in Uploaders, t \in Times :
           pc[u][t] = "claim" \/ pc[u][t] = "mark" \/ Holds(u, t) => stash[u][t] # None
    /\ \A t \in Times : local[t] # None /\ uploaded[t] # None =>
           \E u \in Uploaders : pc[u][t] \in {"claim", "undoRemove"}
    /\ \A t \in Times : collected[t] # None /\ local[t] = None =>
           accepted[t] = 1 \/ \E u \in Uploaders : Holds(u, t)

\* A step that leaves the files and the server alone, and by which no goroutine
\* appears, gets hold of a stash or leaves the places that matter, keeps it.
LEMMA SettledFrame ==
    ASSUME SettledInv, UNCHANGED <<local, uploaded, collected, accepted>>,
           \A u \in Uploaders, t \in Times :
               /\ pc'[u][t] # "none" => pc[u][t] # "none" \/ collected[t] # None
               /\ pc'[u][t] \in {"mark", "claim", "send", "got", "undoWrite"} =>
                      /\ \/ pc[u][t] \in {"mark", "claim", "send", "got", "undoWrite"}
                         \/ stash'[u][t] # None
                      /\ stash'[u][t] = stash[u][t] \/ stash'[u][t] # None
               /\ pc[u][t] \in {"claim", "undoRemove"} => pc'[u][t] = pc[u][t]
               /\ Holds(u, t) => Holds(u, t)'
    PROVE  SettledInv'
  BY DEF SettledInv, Holds

\* Every step of a caller that is not a step of one of its goroutines.
LEMMA SettledCall ==
    ASSUME TypeOK, ClaimInv, SettledInv, Undisturbed, NEW u \in Uploaders,
           Start(u) \/ CallStep(u) \/ CallFails(u) \/ Crash(u),
           \A t \in Times : pc[u][t] # "none" => call[u] = "jobs"
    PROVE  SettledInv'
<1>0. /\ pc \in [Uploaders -> [Times -> JobPC]]
      /\ stash \in [Uploaders -> [Times -> Payload \cup {None}]]
  BY Zenon DEF TypeOK, Dir
<1>1. CASE Start(u) \/ Retry(u)
  BY <1>0, <1>1, SettledFrame, Zenon DEF Start, Retry, Attempt, Holds
<1>2. ASSUME Leave(u), call[u] # "jobs" PROVE SettledInv'
  <2>1. \A t \in Times : pc[u][t] = "none"
    BY <1>2, Zenon
  <2>2. /\ pc' = [pc EXCEPT ![u] = NoJob] /\ stash' = [stash EXCEPT ![u] = NoFile]
        /\ UNCHANGED <<local, uploaded, collected, accepted>>
    BY <1>2, Zenon DEF Leave
  <2> QED
    BY <1>0, <2>1, <2>2, SettledFrame, Zenon DEF NoJob, Holds
<1>3. CASE ReadOptOut(u) \/ ReadConsent(u)
  BY <1>0, <1>2, <1>3, SettledFrame, Zenon DEF ReadOptOut, ReadConsent, Holds
<1>4. CASE List(u)
  <2>1. /\ pc' = [pc EXCEPT ![u] = [t \in Times |->
                     IF local[t] # None THEN "queued" ELSE "none"]]
        /\ UNCHANGED <<local, uploaded, collected, accepted, stash>>
    BY <1>4, Zenon DEF List
  <2>2. \A t \in Times : pc[u][t] = "none"
    BY <1>4, Zenon DEF List
  <2>3. \A t \in Times : local[t] # None => collected[t] # None
    BY Zenon DEF ClaimInv
  <2> QED
    BY <1>0, <2>1, <2>2, <2>3, SettledFrame, Zenon DEF Holds
<1>5. CASE JobsDone(u)
  <2>1. /\ pc' = [pc EXCEPT ![u] = NoJob] /\ stash' = [stash EXCEPT ![u] = NoFile]
        /\ UNCHANGED <<local, uploaded, collected, accepted>>
        /\ \A t \in Times : pc[u][t] \in {"none", "done"}
    BY <1>5, Zenon DEF JobsDone
  <2> QED
    BY <1>0, <2>1, SettledFrame, Zenon DEF NoJob, Holds
<1>6. CASE Evict(u)
  <2>1. /\ UNCHANGED <<local, collected, accepted, pc, stash>>
        /\ uploaded' = uploaded \/ \E t \in victims[u] : uploaded' = Remove(uploaded, t)
    BY <1>6, Zenon DEF Evict
  <2>2. \A t \in Times : uploaded'[t] # None => uploaded[t] # None
    BY <2>1, Zenon DEF Remove, TypeOK, StoreTypeOK, Dir
  <2> QED
    BY <2>1, <2>2, Zenon DEF SettledInv, Holds
<1>7. CASE Return(u)
  BY <1>0, <1>2, <1>7, SettledFrame, Zenon DEF Return, Holds
<1>8. CASE CallFails(u) \/ Crash(u)
  BY <1>8, Zenon DEF CallFails, Crash, Undisturbed
<1> QED
  BY <1>1, <1>3, <1>4, <1>5, <1>6, <1>7, <1>8, Zenon DEF CallStep

\* What a goroutine may disturb: its own place, and the files and answers of its
\* report.
OnlyReport(u, t) ==
    /\ \A v \in Uploaders, s \in Times :
           v # u \/ s # t => pc'[v][s] = pc[v][s] /\ stash'[v][s] = stash[v][s]
    /\ \A s \in Times \ {t} :
           local'[s] = local[s] /\ uploaded'[s] = uploaded[s] /\ accepted'[s] = accepted[s]
    /\ collected' = collected

\* It is enough to look at the report of the goroutine that moves.
LEMMA SettledOne ==
    ASSUME SettledInv, NEW u \in Uploaders, NEW t \in Times, OnlyReport(u, t),
           collected[t] # None,
           pc'[u][t] \in {"mark", "claim", "send", "got", "undoWrite"} =>
               stash'[u][t] # None,
           local'[t] # None /\ uploaded'[t] # None =>
               \E v \in Uploaders : pc'[v][t] \in {"claim", "undoRemove"},
           local'[t] = None => accepted'[t] = 1 \/ \E v \in Uploaders : Holds(v, t)'
    PROVE  SettledInv'
<1>1. ASSUME NEW v \in Uploaders, NEW s \in Times
      PROVE  /\ pc'[v][s] # "none" => collected'[s] # None
             /\ pc'[v][s] = "claim" \/ pc'[v][s] = "mark" \/ Holds(v, s)' =>
                    stash'[v][s] # None
  BY SMTT(20) DEF SettledInv, OnlyReport, Holds
<1>2. ASSUME NEW s \in Times, s # t
      PROVE  /\ uploaded'[s] # None => collected'[s] # None
             /\ local'[s] # None /\ uploaded'[s] # None =>
                    \E v \in Uploaders : pc'[v][s] \in {"claim", "undoRemove"}
             /\ collected'[s] # None /\ local'[s] = None =>
                    accepted'[s] = 1 \/ \E v \in Uploaders : Holds(v, s)'
  BY <1>2 DEF SettledInv, OnlyReport, Holds
<1>3. collected'[t] # None
  BY Zenon DEF OnlyReport
<1> QED
  BY <1>1, <1>2, <1>3, Zenon DEF SettledInv

\* Every step of a goroutine: Mark is followed by Claim, UndoWrite by UndoRemove,
\* and whoever takes the collected file away holds the report.
LEMMA SettledJob ==
    ASSUME TypeOK, ClaimInv, SettledInv, Undisturbed,
           NEW u \in Uploaders, NEW t \in Times, JobStep(u, t) \/ JobFault(u, t)
    PROVE  SettledInv'
<1>0. /\ pc \in [Uploaders -> [Times -> JobPC]]
      /\ stash \in [Uploaders -> [Times -> Payload \cup {None}]]
      /\ local \in [Times -> Payload \cup {None}]
      /\ uploaded \in [Times -> Payload \cup {None}]
      /\ accepted \in [Times -> Nat]
  BY Zenon DEF TypeOK, StoreTypeOK, Dir
<1>1. pc[u][t] # "none" /\ collected[t] # None
  <2>1. pc[u][t] # "none"
    BY Zenon DEF JobStep, JobFault, Check, Read, Stash, Mark, Claim, Deliver, Accepted,
           UndoWrite, UndoRemove, SendFails, AckLost, JobFails
  <2> QED
    BY <2>1, Zenon DEF SettledInv
<1>2. /\ local[t] # None /\ uploaded[t] # None =>
             \E v \in Uploaders : pc[v][t] \in {"claim", "undoRemove"}
      /\ local[t] = None => accepted[t] = 1 \/ \E v \in Uploaders : Holds(v, t)
      /\ pc[u][t] \in {"mark", "claim", "send", "got", "undoWrite"} => stash[u][t] # None
  BY <1>1, Zenon DEF SettledInv, Holds
<1>3. ASSUME NEW p \in JobPC,
             pc' = [pc EXCEPT ![u][t] = p],
             \/ stash' = stash \/ stash' = [stash EXCEPT ![u][t] = None]
             \/ stash' = [stash EXCEPT ![u][t] = local[t]],
             UNCHANGED <<local, uploaded, collected, accepted>>,
             pc[u][t] \notin {"claim", "undoRemove"} \/ local[t] = None,
             Holds(u, t) => Holds(u, t)',
             p \in {"mark", "claim", "send", "got", "undoWrite"} => stash'[u][t] # None
      PROVE  SettledInv'
  <2>1. OnlyReport(u, t)
    BY <1>0, <1>3 DEF OnlyReport
  <2>2. local[t] = None => accepted[t] = 1 \/ \E v \in Uploaders : Holds(v, t)'
    BY <1>0, <1>2, <1>3, Zenon DEF Holds
  <2>3. local[t] # None /\ uploaded[t] # None =>
           \E v \in Uploaders : pc'[v][t] \in {"claim", "undoRemove"}
    BY <1>0, <1>2, <1>3, Zenon
  <2>4. pc'[u][t] = p
    BY <1>0, <1>3, Zenon
  <2> QED
    BY <1>1, <1>3, <2>1, <2>2, <2>3, <2>4, SettledOne, Zenon
<1>4. CASE Check(u, t)
  <2>1. pc[u][t] = "queued"
        /\ (Finish(u, t, {}) \/ Finish(u, t, {"other"}) \/
              (Goto(u, t, "read") /\ UNCHANGED stash))
        /\ UNCHANGED <<local, uploaded, collected, accepted>>
    BY <1>4, Zenon DEF Check
  <2> QED
    BY <1>0, <1>3, <2>1, Zenon DEF Finish, Goto, Holds, JobPC
<1>5. CASE Read(u, t)
  <2>1. pc[u][t] = "read"
        /\ (Finish(u, t, {}) \/ Finish(u, t, {"other"}) \/
              (Goto(u, t, "stash") /\ UNCHANGED stash))
        /\ UNCHANGED <<local, uploaded, collected, accepted>>
    BY <1>5, Zenon DEF Read
  <2> QED
    BY <1>0, <1>3, <2>1, Zenon DEF Finish, Goto, Holds, JobPC
<1>6. CASE Stash(u, t)
  <2>1. /\ pc[u][t] = "stash" /\ UNCHANGED <<local, uploaded, collected, accepted>>
        /\ \/ Finish(u, t, {"other"})
           \/ /\ local[t] # None /\ Goto(u, t, "mark")
              /\ stash' = [stash EXCEPT ![u][t] = local[t]]
    BY <1>6, Zenon DEF Stash
  <2> QED
    BY <1>0, <1>3, <2>1 DEF Finish, Goto, Holds, JobPC
<1>7. CASE Mark(u, t)
  <2>1. /\ pc[u][t] = "mark" /\ pc' = [pc EXCEPT ![u][t] = "claim"]
        /\ uploaded' = [uploaded EXCEPT ![t] = data[u][t]]
        /\ UNCHANGED <<local, collected, accepted, stash>>
    BY <1>7, Zenon DEF Mark, Goto, AtomicWrite
  <2>2. OnlyReport(u, t) /\ pc'[u][t] = "claim"
    BY <1>0, <2>1, Zenon DEF OnlyReport
  <2>3. local[t] = None => accepted[t] = 1 \/ \E v \in Uploaders : Holds(v, t)'
    BY <1>0, <1>2, <2>1, Zenon DEF Holds
  <2> QED
    BY <1>1, <1>2, <2>1, <2>2, <2>3, SettledOne, Zenon
<1>8. CASE Claim(u, t)
  <2>1. CASE local[t] = None
    BY <1>0, <1>3, <1>8, <2>1, Zenon DEF Claim, Finish, Goto, Holds, JobPC
  <2>2. CASE local[t] # None
    <3>1. /\ pc[u][t] = "claim" /\ pc' = [pc EXCEPT ![u][t] = "send"]
          /\ local' = [local EXCEPT ![t] = None]
          /\ UNCHANGED <<uploaded, collected, accepted, stash>>
      BY <1>8, <2>2, Zenon DEF Claim, Goto, Remove
    <3>2. OnlyReport(u, t) /\ pc'[u][t] = "send" /\ local'[t] = None
      BY <1>0, <3>1, Zenon DEF OnlyReport
    <3> QED
      BY <1>1, <1>2, <3>1, <3>2, SettledOne, Zenon DEF Holds
  <2> QED
    BY <2>1, <2>2, Zenon
<1>9. CASE Deliver(u, t) \/ SendFails(u, t) \/ AckLost(u, t)
  <2>1. /\ pc[u][t] \in {"send", "got"} /\ stash' = stash
        /\ Goto(u, t, "got") \/ Goto(u, t, "undoWrite")
        /\ UNCHANGED <<local, uploaded, collected, accepted>>
    BY <1>9, Zenon DEF Deliver, SendFails, AckLost
  <2> QED
    BY <1>0, <1>2, <1>3, <2>1 DEF Goto, Holds, JobPC
<1>10. CASE Accepted(u, t)
  <2>1. /\ pc[u][t] = "got" /\ pc' = [pc EXCEPT ![u][t] = "done"]
        /\ stash' = [stash EXCEPT ![u][t] = None]
        /\ accepted' = [accepted EXCEPT ![t] = accepted[t] + 1]
        /\ UNCHANGED <<local, uploaded, collected>>
    BY <1>10, Zenon DEF Accepted, Finish, Goto
  <2>2. accepted[t] = 0 /\ local[t] = None
    BY <2>1, Zenon DEF ClaimInv, Holds
  <2>3. OnlyReport(u, t) /\ pc'[u][t] = "done" /\ accepted'[t] = 1
    BY <1>0, <2>1, <2>2 DEF OnlyReport
  <2> QED
    BY <1>1, <2>1, <2>2, <2>3, SettledOne, Zenon
<1>11. CASE UndoWrite(u, t)
  <2>1. /\ pc[u][t] = "undoWrite" /\ pc' = [pc EXCEPT ![u][t] = "undoRemove"]
        /\ local' = [local EXCEPT ![t] = stash[u][t]]
        /\ UNCHANGED <<uploaded, collected, accepted, stash>>
    BY <1>11, Zenon DEF UndoWrite, Goto, AtomicWrite
  <2>2. OnlyReport(u, t) /\ pc'[u][t] = "undoRemove" /\ local'[t] # None
    BY <1>0, <1>2, <2>1, Zenon DEF OnlyReport
  <2> QED
    BY <1>1, <2>2, SettledOne, Zenon
<1>12. CASE UndoRemove(u, t)
  <2>1. /\ pc[u][t] = "undoRemove" /\ pc' = [pc EXCEPT ![u][t] = "done"]
        /\ uploaded' = [uploaded EXCEPT ![t] = None]
        /\ stash' = [stash EXCEPT ![u][t] = None]
        /\ UNCHANGED <<local, collected, accepted>>
    BY <1>12, Zenon DEF UndoRemove, Finish, Goto, Remove
  <2>2. OnlyReport(u, t) /\ pc'[u][t] = "done" /\ uploaded'[t] = None
    BY <1>0, <2>1, Zenon DEF OnlyReport
  <2>3. local[t] = None => accepted[t] = 1 \/ \E v \in Uploaders : Holds(v, t)'
    BY <1>0, <1>2, <2>1, Zenon DEF Holds
  <2> QED
    BY <1>1, <2>1, <2>2, <2>3, SettledOne, Zenon
<1>13. CASE JobFails(u, t)
  BY <1>13, Zenon DEF JobFails, Undisturbed
<1> QED
  BY <1>4, <1>5, <1>6, <1>7, <1>8, <1>9, <1>10, <1>11, <1>12, <1>13, Zenon
     DEF JobStep, JobFault

LEMMA SettledStep ==
    ASSUME Undisturbed
    PROVE  TypeOK /\ ClaimInv /\ ConsentInv /\ SettledInv /\ [Next]_vars => SettledInv'
<1> SUFFICES ASSUME TypeOK, ClaimInv, ConsentInv, SettledInv, [Next]_vars
             PROVE  SettledInv'
  OBVIOUS
<1>1. ASSUME NEW u \in Uploaders, Start(u) \/ CallStep(u) \/ CallFails(u) \/ Crash(u)
      PROVE  SettledInv'
  BY <1>1, SettledCall, Zenon DEF ConsentInv
<1>2. ASSUME NEW u \in Uploaders, NEW t \in Times, JobStep(u, t) \/ JobFault(u, t)
      PROVE  SettledInv'
  BY <1>2, SettledJob, Zenon
<1>3. CASE Collect
  <2>1. now \in Times /\ local \in [Times -> Payload \cup {None}]
        /\ collected \in [Times -> Payload \cup {None}]
    BY Zenon DEF TypeOK, StoreTypeOK, Dir
  <2>2. PICK payload \in Payload :
          /\ local' = [local EXCEPT ![now] = payload]
          /\ collected' = [collected EXCEPT ![now] = payload]
    BY <1>3, Zenon DEF Collect, AtomicWrite
  <2>3. UNCHANGED <<uploaded, accepted, pc, stash>> /\ collected[now] = None
    BY <1>3, Zenon DEF Collect
  <2>4. uploaded[now] = None /\ payload # None
    BY <2>1, <2>3, Zenon DEF SettledInv, Payload, None
  <2> QED
    BY <2>1, <2>2, <2>3, <2>4, Zenon DEF SettledInv, Holds
<1>4. CASE ConsentChanges \/ TimePasses \/ UNCHANGED vars
  BY <1>4, SettledFrame, Zenon DEF ConsentChanges, SetState, SetOptOut, TimePasses, Tick, vars,
                            Holds
<1> QED
  BY <1>1, <1>2, <1>3, <1>4, Zenon DEF Next, UploaderNext, Environment

\* When all callers have returned, every collected report waits unmarked in the
\* local directory or was accepted, for any number of concurrent uploads of the
\* source in any mode and whatever requests fail or answers are lost, provided
\* nobody is killed and no file-system call fails (upload.go:170-213,
\* report.go:80-117): a race never leaves a report in both directories.
THEOREM RacesSettle == ASSUME Undisturbed PROVE Spec => []QuiescentStore
<1>1. Init => SettledInv
  BY DEF Init, SettledInv, Holds, NoFile, NoJob
<1>2. ConsentInv /\ ClaimInv /\ SettledInv => QuiescentStore
  <2> SUFFICES ASSUME ConsentInv, ClaimInv, SettledInv,
                      \A u \in Uploaders : call[u] = "idle",
                      NEW t \in Times, collected[t] # None
               PROVE  \/ local[t] # None /\ uploaded[t] = None
                      \/ local[t] = None /\ accepted[t] = 1
    BY Zenon DEF QuiescentStore
  <2>1. \A u \in Uploaders : pc[u][t] = "none"
    BY Zenon DEF ConsentInv
  <2> QED
    BY <2>1, Zenon DEF SettledInv, Holds
<1> QED
  BY <1>1, <1>2, TypeCorrect, ClaimCorrect, ConsentCorrect, SettledStep, PTL DEF Spec

-----------------------------------------------------------------------------
(***************************************************************************)
(* One uploader at a time: no report is lost, a sent report is marked as   *)
(* sent, and the mark records what was sent, whatever fails.               *)
(***************************************************************************)
SingleUploader == \A u, v \in Uploaders : u = v

\* Nobody but the goroutine itself touches its report: the collected file stays
\* until it is claimed, the mark stays until it is undone, and both carry what
\* the goroutine holds in memory.
SoloJob(u, t) ==
    /\ pc[u][t] \in {"stash", "mark", "claim", "undoRemove"} => local[t] # None
    /\ pc[u][t] \in {"mark", "claim", "send", "got", "undoWrite"} =>
           stash[u][t] # None
    /\ pc[u][t] \in {"stash", "mark", "claim", "send", "got"} =>
           data[u][t] # None
    /\ pc[u][t] \in {"claim", "send", "got", "undoWrite"} =>
           uploaded[t] # None \/ t \in evicted
    /\ pc[u][t] \in {"claim", "send", "got"} /\ uploaded[t] # None =>
           uploaded[t] = data[u][t]

\* What the three single-uploader properties say of one report.
SoloReport(t) ==
    /\ collected[t] # None =>
           local[t] # None \/ uploaded[t] # None \/ t \in evicted
    /\ accepted[t] > 0 => uploaded[t] # None \/ t \in evicted
    /\ accepted[t] > 0 /\ uploaded[t] # None => uploaded[t] = ackedData[t]

SoloInv ==
    /\ \A u \in Uploaders, t \in Times : SoloJob(u, t)
    /\ \A t \in Times : SoloReport(t)

\* A step that leaves the files and the server alone, and takes no goroutine
\* past its first read, keeps it.
LEMMA SoloFrame ==
    ASSUME SoloInv,
           UNCHANGED <<local, uploaded, collected, evicted, accepted,
                       ackedData>>,
           \A u \in Uploaders, t \in Times :
               \/ pc'[u][t] \in {"none", "queued", "read", "done"}
               \/ /\ pc'[u][t] = pc[u][t]
                  /\ data'[u][t] = data[u][t]
                  /\ stash'[u][t] = stash[u][t]
    PROVE  SoloInv'
<1>1. ASSUME NEW t \in Times PROVE SoloReport(t)'
  BY Zenon DEF SoloInv, SoloReport
<1>2. ASSUME NEW u \in Uploaders, NEW t \in Times
      PROVE  SoloJob(u, t)'
  <2>1. CASE pc'[u][t] \in {"none", "queued", "read", "done"}
    BY <2>1, Zenon DEF SoloJob
  <2>2. CASE /\ pc'[u][t] = pc[u][t]
             /\ data'[u][t] = data[u][t]
             /\ stash'[u][t] = stash[u][t]
    <3>1. SoloJob(u, t)
      BY Zenon DEF SoloInv
    <3> QED
      BY <2>2, <3>1, Zenon DEF SoloJob
  <2> QED
    BY <2>1, <2>2, Zenon
<1> QED
  BY <1>1, <1>2, Zenon DEF SoloInv

\* With one caller, a step of one goroutine is judged by its own report.
LEMMA SoloOne ==
    ASSUME SingleUploader, SoloInv,
           NEW u \in Uploaders, NEW t \in Times, evicted' = evicted,
           \A s \in Times \ {t} :
               /\ pc'[u][s] = pc[u][s] /\ data'[u][s] = data[u][s]
               /\ stash'[u][s] = stash[u][s] /\ local'[s] = local[s]
               /\ uploaded'[s] = uploaded[s] /\ collected'[s] = collected[s]
               /\ accepted'[s] = accepted[s] /\ ackedData'[s] = ackedData[s],
           SoloJob(u, t)', SoloReport(t)'
    PROVE  SoloInv'
<1>1. ASSUME NEW s \in Times \ {t} PROVE SoloJob(u, s)' /\ SoloReport(s)'
  <2>1. SoloJob(u, s) /\ SoloReport(s)
    BY Zenon DEF SoloInv
  <2>2. SoloJob(u, s)'
    BY <2>1, Zenon DEF SoloJob
  <2>3. SoloReport(s)'
    BY <2>1, Zenon DEF SoloReport
  <2> QED
    BY <2>2, <2>3, Zenon
<1>2. \A v \in Uploaders : v = u
  BY Zenon DEF SingleUploader
<1>3. ASSUME NEW v \in Uploaders, NEW s \in Times PROVE SoloJob(v, s)'
  BY <1>1, <1>2, Zenon
<1>4. ASSUME NEW s \in Times PROVE SoloReport(s)'
  BY <1>1, Zenon
<1> QED
  BY <1>3, <1>4, Zenon DEF SoloInv

\* The types the steps below rely on, with directories as functions.
SoloTypes ==
    /\ pc \in [Uploaders -> [Times -> JobPC]]
    /\ call \in [Uploaders -> CallPC]
    /\ victims \in [Uploaders -> SUBSET Times]
    /\ data \in [Uploaders -> [Times -> Payload \cup {None}]]
    /\ stash \in [Uploaders -> [Times -> Payload \cup {None}]]
    /\ local \in [Times -> Payload \cup {None}]
    /\ uploaded \in [Times -> Payload \cup {None}]
    /\ ackedData \in [Times -> Payload \cup {None}]
    /\ collected \in [Times -> Payload \cup {None}]
    /\ accepted \in [Times -> Nat]
    /\ now \in Times

\* The type invariant gives them.
LEMMA SoloTypesHold == ASSUME TypeOK PROVE SoloTypes
BY Zenon DEF SoloTypes, TypeOK, StoreTypeOK, Dir

\* A goroutine that returns without touching the files keeps it.
LEMMA SoloFinish ==
    ASSUME SoloTypes, SoloInv, NEW u \in Uploaders, NEW t \in Times, NEW kinds,
           Finish(u, t, kinds),
           UNCHANGED <<local, uploaded, collected, evicted, accepted, ackedData>>
    PROVE  SoloInv'
BY SoloFrame, Zenon DEF SoloTypes, Finish, Goto

\* With one caller a goroutine finds the two directories as its own earlier
\* steps left them.
LEMMA SoloJobStep ==
    ASSUME SoloTypes, SingleUploader, ClaimInv, SoloInv,
           NEW u \in Uploaders, NEW t \in Times, JobStep(u, t)
    PROVE  SoloInv'
<1>0. SoloJob(u, t) /\ SoloReport(t)
  BY Zenon DEF SoloInv
<1>1. CASE Check(u, t)
  <2>1. CASE Goto(u, t, "read") /\ UNCHANGED <<data, stash>>
    BY <1>1, <2>1, SoloFrame, Zenon DEF SoloTypes, Check, Goto
  <2>2. CASE Finish(u, t, {}) \/ Finish(u, t, {"other"})
    BY <1>1, <2>2, SoloFinish, Zenon DEF Check
  <2> QED
    BY <1>1, <2>1, <2>2, Zenon DEF Check
<1>2. CASE Read(u, t)
  <2>1. CASE Finish(u, t, {}) \/ Finish(u, t, {"other"})
    BY <1>2, <2>1, SoloFinish, Zenon DEF Read
  <2>2. CASE ~(Finish(u, t, {}) \/ Finish(u, t, {"other"}))
    <3>1. /\ pc' = [pc EXCEPT ![u][t] = "stash"]
          /\ data' = [data EXCEPT ![u][t] = Consented(u \in snap, local[t])]
          /\ local[t] # None
          /\ UNCHANGED <<local, uploaded, collected, evicted, accepted,
                         ackedData, stash>>
      BY <1>2, <2>2, Zenon DEF Read, Goto
    <3>2. Consented(u \in snap, local[t]) # None
      BY <3>1, Zenon DEF Consented, None
    <3>a. SoloJob(u, t)'
      BY <1>0, <3>1, <3>2, Zenon DEF SoloTypes, SoloJob
    <3>b. SoloReport(t)'
      BY <1>0, <3>1, <3>2, Zenon DEF SoloTypes, SoloJob, SoloReport
    <3> QED
      BY SoloOne, <3>1, <3>2, <3>a, <3>b, Zenon DEF SoloTypes
  <2> QED
    BY <2>1, <2>2, Zenon
<1>3. CASE Stash(u, t)
  <2>1. CASE Finish(u, t, {"other"})
    BY <1>3, <2>1, SoloFinish, Zenon DEF Stash
  <2>2. CASE ~Finish(u, t, {"other"})
    <3>1. /\ pc[u][t] = "stash"
          /\ pc' = [pc EXCEPT ![u][t] = "mark"]
          /\ stash' = [stash EXCEPT ![u][t] = local[t]]
          /\ local[t] # None
          /\ UNCHANGED <<local, uploaded, collected, evicted, accepted,
                         ackedData, data>>
      BY <1>3, <2>2, Zenon DEF Stash, Goto
    <3>a. SoloJob(u, t)'
      BY <1>0, <3>1, Zenon DEF SoloTypes, SoloJob
    <3>b. SoloReport(t)'
      BY <1>0, <3>1, Zenon DEF SoloTypes, SoloJob, SoloReport
    <3> QED
      BY SoloOne, <3>1, <3>a, <3>b, Zenon DEF SoloTypes
  <2> QED
    BY <2>1, <2>2, Zenon
<1>4. CASE Mark(u, t)
  <2>1. /\ pc[u][t] = "mark"
        /\ pc' = [pc EXCEPT ![u][t] = "claim"]
        /\ uploaded' = [uploaded EXCEPT ![t] = data[u][t]]
        /\ UNCHANGED <<local, collected, evicted, accepted, ackedData, data,
                       stash>>
    BY <1>4, Zenon DEF Mark, AtomicWrite, Goto
  <2>2. accepted[t] = 0
    BY <1>0, <2>1, Zenon DEF ClaimInv, SoloJob
  <2>a. SoloJob(u, t)'
    BY <1>0, <2>1, <2>2, Zenon DEF SoloTypes, SoloJob
  <2>b. SoloReport(t)'
    BY <1>0, <2>1, <2>2 DEF SoloTypes, SoloJob, SoloReport
  <2> QED
    BY SoloOne, <2>1, <2>2, <2>a, <2>b, Zenon DEF SoloTypes
<1>5. CASE Claim(u, t)
  <2>0. local[t] # None
    BY <1>0, <1>5, Zenon DEF Claim, SoloJob
  <2>1. /\ pc[u][t] = "claim" /\ local[t] # None
        /\ pc' = [pc EXCEPT ![u][t] = "send"]
        /\ local' = [local EXCEPT ![t] = None]
        /\ UNCHANGED <<uploaded, collected, evicted, accepted, ackedData,
                       data, stash>>
    BY <1>5, <2>0, Zenon DEF Claim, Remove, Goto
  <2>a. SoloJob(u, t)'
    BY <1>0, <2>1, Zenon DEF SoloTypes, SoloJob
  <2>b. SoloReport(t)'
    BY <1>0, <2>1, Zenon DEF SoloTypes, SoloJob, SoloReport
  <2> QED
    BY SoloOne, <2>1, <2>a, <2>b, Zenon DEF SoloTypes
<1>6. CASE Deliver(u, t)
  <2>1. /\ pc[u][t] = "send"
        /\ pc' = [pc EXCEPT ![u][t] = "got"]
        /\ UNCHANGED <<local, uploaded, collected, evicted, accepted,
                       ackedData, data, stash>>
    BY <1>6, Zenon DEF Deliver, Goto
  <2>a. SoloJob(u, t)'
    BY <1>0, <2>1, Zenon DEF SoloTypes, SoloJob
  <2>b. SoloReport(t)'
    BY <1>0, <2>1, Zenon DEF SoloTypes, SoloJob, SoloReport
  <2> QED
    BY SoloOne, <2>1, <2>a, <2>b, Zenon DEF SoloTypes
<1>7. CASE Accepted(u, t)
  <2>1. /\ pc[u][t] = "got"
        /\ pc' = [pc EXCEPT ![u][t] = "done"]
        /\ accepted' = [accepted EXCEPT ![t] = accepted[t] + 1]
        /\ ackedData' = [ackedData EXCEPT ![t] = data[u][t]]
        /\ data' = [data EXCEPT ![u][t] = None]
        /\ stash' = [stash EXCEPT ![u][t] = None]
        /\ UNCHANGED <<local, uploaded, collected, evicted>>
    BY <1>7, Zenon DEF Accepted, Finish, Goto
  <2>a. SoloJob(u, t)'
    BY <1>0, <2>1, Zenon DEF SoloTypes, SoloJob
  <2>b. SoloReport(t)'
    BY <1>0, <2>1, Zenon DEF SoloTypes, SoloJob, SoloReport
  <2> QED
    BY SoloOne, <2>1, <2>a, <2>b, Zenon DEF SoloTypes
<1>8. CASE UndoWrite(u, t)
  <2>1. /\ pc[u][t] = "undoWrite"
        /\ pc' = [pc EXCEPT ![u][t] = "undoRemove"]
        /\ local' = [local EXCEPT ![t] = stash[u][t]]
        /\ UNCHANGED <<uploaded, collected, evicted, accepted, ackedData,
                       data, stash>>
    BY <1>8, Zenon DEF UndoWrite, AtomicWrite, Goto
  <2>a. SoloJob(u, t)'
    BY <1>0, <2>1, Zenon DEF SoloTypes, SoloJob
  <2>b. SoloReport(t)'
    BY <1>0, <2>1, Zenon DEF SoloTypes, SoloJob, SoloReport
  <2> QED
    BY SoloOne, <2>1, <2>a, <2>b, Zenon DEF SoloTypes
<1>9. CASE UndoRemove(u, t)
  <2>1. /\ pc[u][t] = "undoRemove"
        /\ pc' = [pc EXCEPT ![u][t] = "done"]
        /\ uploaded' = [uploaded EXCEPT ![t] = None]
        /\ data' = [data EXCEPT ![u][t] = None]
        /\ stash' = [stash EXCEPT ![u][t] = None]
        /\ UNCHANGED <<local, collected, evicted, accepted, ackedData>>
    BY <1>9, Zenon DEF UndoRemove, Finish, Remove, Goto
  <2>2. local[t] # None /\ accepted[t] = 0
    BY <1>0, <2>1, Zenon DEF ClaimInv, SoloJob
  <2>a. SoloJob(u, t)'
    BY <1>0, <2>1, <2>2, Zenon DEF SoloTypes, SoloJob
  <2>b. SoloReport(t)'
    BY <1>0, <2>1, <2>2 DEF SoloTypes, SoloJob, SoloReport
  <2> QED
    BY SoloOne, <2>1, <2>2, <2>a, <2>b, Zenon DEF SoloTypes
<1> QED
  BY <1>1, <1>2, <1>3, <1>4, <1>5, <1>6, <1>7, <1>8, <1>9, Zenon DEF JobStep

\* So does a goroutine whose request or file-system call fails.
LEMMA SoloJobFault ==
    ASSUME SoloTypes, SingleUploader, ClaimInv, SoloInv,
           NEW u \in Uploaders, NEW t \in Times, JobFault(u, t)
    PROVE  SoloInv'
<1>0. SoloJob(u, t) /\ SoloReport(t)
  BY Zenon DEF SoloInv
<1>1. CASE SendFails(u, t) \/ AckLost(u, t)
  <2>1. /\ pc[u][t] \in {"send", "got"}
        /\ pc' = [pc EXCEPT ![u][t] = "undoWrite"]
        /\ UNCHANGED <<local, uploaded, collected, evicted, accepted,
                       ackedData, data, stash>>
    BY <1>1, Zenon DEF SendFails, AckLost, Goto
  <2>a. SoloJob(u, t)'
    BY <1>0, <2>1, Zenon DEF SoloTypes, SoloJob
  <2>b. SoloReport(t)'
    BY <1>0, <2>1, Zenon DEF SoloTypes, SoloJob, SoloReport
  <2> QED
    BY SoloOne, <2>1, <2>a, <2>b, Zenon DEF SoloTypes
<1>3. CASE JobFails(u, t)
  BY <1>3, SoloFinish, Zenon DEF JobFails
<1> QED
  BY <1>1, <1>3, Zenon DEF JobFault

\* Collections, consent and time leave the goroutine's report alone.
LEMMA SoloEnvironment ==
    ASSUME SoloTypes, SoloInv, Environment
    PROVE  SoloInv'
<1>1. CASE Collect
  <2>1. PICK p \in Payload :
          /\ local' = [local EXCEPT ![now] = p]
          /\ collected' = [collected EXCEPT ![now] = p]
    BY <1>1, Zenon DEF Collect, AtomicWrite
  <2>2. p # None
    BY Zenon DEF Payload, None
  <2>3. UNCHANGED <<uploaded, evicted, accepted, ackedData, pc, data, stash>>
    BY <1>1, Zenon DEF Collect
  <2>4. ASSUME NEW s \in Times PROVE SoloReport(s)'
    BY <2>1, <2>2, <2>3, Zenon DEF SoloTypes, SoloInv, SoloReport
  <2>5. ASSUME NEW v \in Uploaders, NEW s \in Times PROVE SoloJob(v, s)'
    <3>1. SoloJob(v, s) /\ (local[s] # None => local'[s] # None)
      BY <2>1, <2>2, Zenon DEF SoloTypes, SoloInv
    <3> QED
      BY <2>3, <3>1, Zenon DEF SoloJob
  <2> QED
    BY <2>4, <2>5, Zenon DEF SoloInv
<1>2. CASE ConsentChanges
  BY <1>2, SoloFrame, Zenon DEF ConsentChanges, SetState, SetOptOut
<1>3. CASE TimePasses
  BY <1>3, SoloFrame, Zenon DEF TimePasses, Tick
<1> QED
  BY <1>1, <1>2, <1>3, Zenon DEF Environment

\* With one caller every step keeps it: whoever reaches a step of upload finds
\* the two directories as its own earlier steps left them.
LEMMA SoloStep ==
    ASSUME SingleUploader, TypeOK, ClaimInv, ConsentInv, SoloInv, [Next]_vars
    PROVE  SoloInv'
<1>0. SoloTypes
  BY SoloTypesHold, Zenon
<1>1. ASSUME NEW u \in Uploaders, Start(u) PROVE SoloInv'
  BY <1>1, SoloFrame, Zenon DEF Start
<1>2. ASSUME NEW u \in Uploaders, Leave(u) PROVE SoloInv'
  BY <1>0, <1>2, SoloFrame, Zenon DEF SoloTypes, Leave, NoJob
<1>3. ASSUME NEW u \in Uploaders, CallStep(u) PROVE SoloInv'
  <2>0. CASE ReadOptOut(u)
    BY <2>0, <1>2, SoloFrame, Zenon DEF ReadOptOut
  <2>1. CASE ReadConsent(u)
    BY <2>1, <1>2, SoloFrame, Zenon DEF ReadConsent
  <2>2. CASE List(u)
    BY <1>0, <2>2, SoloFrame, Zenon DEF SoloTypes, List
  <2>3. CASE JobsDone(u)
    BY <1>0, <2>3, SoloFrame, Zenon DEF SoloTypes, JobsDone, NoJob
  <2>4. CASE Evict(u)
    <3>1. \A v \in Uploaders, t \in Times : pc[v][t] = "none"
      BY <2>4, Zenon DEF Evict, ConsentInv, SingleUploader
    <3>2. PICK t \in Times :
            \/ /\ uploaded' = [uploaded EXCEPT ![t] = None]
               /\ evicted' = evicted \cup {t}
            \/ UNCHANGED <<uploaded, evicted>>
      BY <1>0, <2>4, Zenon DEF SoloTypes, Evict, Remove
    <3>3. UNCHANGED <<local, collected, accepted, ackedData, pc, data, stash>>
      BY <2>4, Zenon DEF Evict
    <3>4. ASSUME NEW s \in Times PROVE SoloReport(s)'
      BY <1>0, <3>2, <3>3, Zenon DEF SoloTypes, SoloInv, SoloReport
    <3>5. ASSUME NEW v \in Uploaders, NEW s \in Times PROVE SoloJob(v, s)'
      BY <3>1, <3>3, Zenon DEF SoloJob
    <3> QED
      BY <3>4, <3>5, Zenon DEF SoloInv
  <2>5. CASE Return(u)
    BY <2>5, <1>2, SoloFrame, Zenon DEF Return
  <2>6. CASE Retry(u)
    BY <2>6, SoloFrame, Zenon DEF Retry
  <2> QED
    BY <1>3, <2>0, <2>1, <2>2, <2>3, <2>4, <2>5, <2>6, Zenon DEF CallStep
<1>4. ASSUME NEW u \in Uploaders, NEW t \in Times, JobStep(u, t)
      PROVE  SoloInv'
  BY <1>0, <1>4, SoloJobStep, Zenon
<1>5. ASSUME NEW u \in Uploaders, NEW t \in Times, JobFault(u, t)
      PROVE  SoloInv'
  BY <1>0, <1>5, SoloJobFault, Zenon
<1>6. CASE Environment
  BY <1>0, <1>6, SoloEnvironment, Zenon
<1>7. CASE UNCHANGED vars
  BY <1>7, SoloFrame, Zenon DEF vars
<1> QED
  BY <1>1, <1>2, <1>3, <1>4, <1>5, <1>6, <1>7, Zenon
  DEF Next, UploaderNext, CallFails, Crash

\* The single-uploader invariant holds in every reachable state.
THEOREM SoloCorrect == ASSUME SingleUploader PROVE Spec => []SoloInv
<1>1. Init => SoloInv
  BY DEF Init, SoloInv, SoloJob, SoloReport, NoFile, NoJob, Times
<1>2. TypeOK /\ ClaimInv /\ ConsentInv /\ SoloInv /\ [Next]_vars => SoloInv'
  BY SoloStep, Zenon
<1> QED
  BY <1>1, <1>2, TypeCorrect, ClaimCorrect, ConsentCorrect, PTL DEF Spec

\* With one uploader at a time, no kill, failed call or lost answer at any step
\* of upload makes a collected report vanish from both directories.
THEOREM ReportsAreKept == ASSUME SingleUploader PROVE Spec => []NoReportLost
<1>1. SoloInv => NoReportLost
  BY Zenon DEF SoloInv, SoloReport, NoReportLost
<1> QED
  BY <1>1, SoloCorrect, PTL

\* With one uploader at a time a sent report is marked as sent, as the comment
\* in upload intends.
THEOREM SentReportsAreMarked ==
    ASSUME SingleUploader PROVE Spec => []SentIsMarked
<1>1. SoloInv => SentIsMarked
  BY Zenon DEF SoloInv, SoloReport, SentIsMarked
<1> QED
  BY <1>1, SoloCorrect, PTL

\* With one uploader at a time the uploaded directory records what was sent.
THEOREM RecordsAreFaithful ==
    ASSUME SingleUploader PROVE Spec => []RecordIsWhatWasSent
<1>1. SoloInv => RecordIsWhatWasSent
  BY Zenon DEF SoloInv, SoloReport, RecordIsWhatWasSent
<1> QED
  BY <1>1, SoloCorrect, PTL
=============================================================================
