---------------------------- MODULE ClientProofs ----------------------------
(***************************************************************************)
(* Consent from end to end, for any number of collectors and uploaders on  *)
(* the same files, any clock, period and faults, and users who change      *)
(* consent at any moment; the types of all of it; and, under the           *)
(* conditions of PeriodSetting, one collection per period.                 *)
(***************************************************************************)
EXTENDS Client, UploaderProofs, FiniteSetTheorems

USE DEF callVars, jobVars, history, consentHistory, store

\* The uploading side: as ConsentInv, but a report may be collected again under
\* the same timestamp, so that metrics are traced to the Write that had consent
\* for them and not to what was collected last.
AttemptInv ==
    /\ \A u \in Uploaders, t \in Times : pc[u][t] # "none" => call[u] = "jobs"
    /\ \A u \in Uploaders, t \in Times :
           data[u][t] = "full" => u \in snap /\ t \in consented /\ pc[u][t] # "none"
    /\ \A u \in Uploaders, t \in Times : stash[u][t] = "full" => t \in consented
    /\ \A t \in Times : local[t] = "full" => t \in consented

\* The collecting side, as SeenInv: a Write that is about to read the source's
\* file, and while the system is not opted out every Write, had a time when it
\* was not; while the source's consent is granted, it was granted in each of
\* these; and it was in every Write that read it as given.
WriteInv ==
    /\ cpc \in [Collectors -> CollectorPC]
    /\ stamp \in [Collectors -> Times]
    /\ cvictims \in [Collectors -> SUBSET Times]
    /\ \A c \in cgranted : c \in csystem
    /\ \A c \in csystem : c \in Collectors /\ cpc[c] # "idle"
    /\ IsOptedOut = "false" =>
           \A c \in Collectors : cpc[c] # "idle" => c \in csystem
    /\ SourceConsent = "true" => \A c \in csystem : c \in cgranted
    /\ \A c \in Collectors : cpc[c] = "source" => c \in csystem
    /\ \A c \in csnap : c \in cgranted

-----------------------------------------------------------------------------
\* The steps of the uploaders, of the users and of the clock keep what is known
\* of the metrics in memory and on disk.
LEMMA AttemptStep ==
    ASSUME TypeOK, AttemptInv, consented' = consented,
           UploaderNext \/ ConsentChanges \/ TimePasses \/ UNCHANGED vars
    PROVE  AttemptInv'
<1>0. /\ pc \in [Uploaders -> [Times -> JobPC]]
      /\ call \in [Uploaders -> CallPC]
      /\ snap \subseteq Uploaders
      /\ data \in [Uploaders -> [Times -> Payload \cup {None}]]
      /\ stash \in [Uploaders -> [Times -> Payload \cup {None}]]
      /\ local \in [Times -> Payload \cup {None}]
      /\ now \in Times
  BY Zenon DEF TypeOK, StoreTypeOK, Dir
<1>1. ASSUME NEW u \in Uploaders, call[u] \in {"idle", "sleep"}, Attempt(u),
             UNCHANGED <<local, pc, data, stash>>
      PROVE  AttemptInv'
  BY <1>0, <1>1, Zenon DEF Attempt, AttemptInv
<1>2. ASSUME NEW u \in Uploaders, Leave(u) PROVE AttemptInv'
  BY <1>0, <1>2, Zenon DEF Leave, NoJob, NoFile, None, AttemptInv
<1>b. ASSUME NEW u \in Uploaders, NEW t \in Times, NEW kinds,
             pc[u][t] # "none", Finish(u, t, kinds),
             UNCHANGED <<local, call, snap>>
      PROVE  AttemptInv'
  BY <1>0, <1>b, Zenon DEF Finish, Goto, None, AttemptInv
<1>c. ASSUME NEW u \in Uploaders, NEW t \in Times, NEW p,
             pc[u][t] # "none", p # "none", Goto(u, t, p),
             UNCHANGED <<local, call, snap,
                         data, stash>>
      PROVE  AttemptInv'
  BY <1>0, <1>c, Zenon DEF Goto, AttemptInv
<1>3. ASSUME NEW u \in Uploaders, CallStep(u) PROVE AttemptInv'
  <2>0. CASE ReadOptOut(u)
    <3>1. CASE Leave(u)
      BY <3>1, <1>2, Zenon
    <3>2. CASE ~Leave(u)
      <4>1. /\ call[u] = "consent" /\ \A v \in Uploaders \ {u} : call'[v] = call[v]
            /\ UNCHANGED <<local, snap, pc, data, stash>>
        BY <1>0, <2>0, <3>2, Zenon DEF ReadOptOut
      <4> QED
        BY <1>0, <4>1, Zenon DEF AttemptInv
    <3> QED
      BY <3>1, <3>2, Zenon
  <2>1. CASE ReadConsent(u)
    <3>1. CASE Leave(u)
      BY <3>1, <1>2, Zenon
    <3>2. CASE ~Leave(u)
      <4>1. /\ call[u] = "source"
            /\ call' = [call EXCEPT ![u] = "list"]
            /\ snap' = snap \/ snap' = snap \cup {u}
            /\ UNCHANGED <<store, jobVars>>
        BY <2>1, <3>2, Zenon DEF ReadConsent
      <4> QED
        BY <1>0, <4>1, Zenon DEF AttemptInv
    <3> QED
      BY <3>1, <3>2, Zenon
  <2>2. CASE List(u)
    BY <1>0, <2>2, Zenon DEF List, AttemptInv
  <2>3. CASE JobsDone(u)
    BY <1>0, <2>3, Zenon DEF JobsDone, NoJob, NoFile, None, AttemptInv
  <2>4. CASE Evict(u)
    BY <1>0, <2>4, Zenon DEF Evict, AttemptInv
  <2>5. CASE Return(u)
    <3>1. CASE Leave(u)
      BY <3>1, <1>2, Zenon
    <3>2. CASE ~Leave(u)
      <4>1. /\ call[u] = "cleanup"
            /\ call' = [call EXCEPT ![u] = "sleep"]
            /\ UNCHANGED <<store, snap, jobVars>>
        BY <2>5, <3>2, Zenon DEF Return
      <4> QED
        BY <1>0, <4>1, Zenon DEF AttemptInv
    <3> QED
      BY <3>1, <3>2, Zenon
  <2>6. CASE Retry(u)
    BY <2>6, <1>1, Zenon DEF Retry
  <2> QED
    BY <1>3, <2>0, <2>1, <2>2, <2>3, <2>4, <2>5, <2>6, Zenon DEF CallStep
<1>4. ASSUME NEW u \in Uploaders, NEW t \in Times, JobStep(u, t)
      PROVE  AttemptInv'
  <2>1. CASE Check(u, t)
    <3>1. CASE Goto(u, t, "read") /\ UNCHANGED <<data, stash>>
      BY <2>1, <3>1, <1>c, Zenon DEF Check
    <3>2. CASE Finish(u, t, {}) \/ Finish(u, t, {"other"})
      BY <2>1, <3>2, <1>b, Zenon DEF Check
    <3> QED
      BY <2>1, <3>1, <3>2, Zenon DEF Check
  <2>2. CASE Read(u, t)
    <3>1. CASE Finish(u, t, {}) \/ Finish(u, t, {"other"})
      BY <2>2, <3>1, <1>b, Zenon DEF Read
    <3>2. CASE ~(Finish(u, t, {}) \/ Finish(u, t, {"other"}))
      <4>1. /\ pc[u][t] # "none"
            /\ pc' = [pc EXCEPT ![u][t] = "stash"]
            /\ data' = [data EXCEPT ![u][t] = Consented(u \in snap, local[t])]
            /\ UNCHANGED <<local, call,
                           snap, stash>>
        BY <2>2, <3>2, Zenon DEF Read, Goto
      <4>2. Consented(u \in snap, local[t]) = "full" =>
                u \in snap /\ local[t] = "full"
        BY Zenon DEF Consented
      <4> QED
        BY <1>0, <4>1, <4>2, Zenon DEF None, AttemptInv
    <3> QED
      BY <3>1, <3>2, Zenon
  <2>3. CASE Stash(u, t)
    <3>1. CASE Finish(u, t, {"other"})
      BY <2>3, <3>1, <1>b, Zenon DEF Stash
    <3>2. CASE ~Finish(u, t, {"other"})
      <4>1. /\ pc[u][t] # "none"
            /\ pc' = [pc EXCEPT ![u][t] = "mark"]
            /\ stash' = [stash EXCEPT ![u][t] = local[t]]
            /\ UNCHANGED <<local, call,
                           snap, data>>
        BY <2>3, <3>2, Zenon DEF Stash, Goto
      <4> QED
        BY <1>0, <4>1, Zenon DEF AttemptInv
    <3> QED
      BY <3>1, <3>2, Zenon
  <2>4. CASE Mark(u, t)
    BY <2>4, <1>c, Zenon DEF Mark
  <2>5. CASE Claim(u, t)
    <3>1. CASE local[t] = None
      BY <2>5, <3>1, <1>b, Zenon DEF Claim
    <3>2. CASE local[t] # None
      <4>1. /\ pc[u][t] # "none"
            /\ pc' = [pc EXCEPT ![u][t] = "send"]
            /\ local' = [local EXCEPT ![t] = None]
            /\ UNCHANGED <<call, snap,
                         data, stash>>
        BY <2>5, <3>2, Zenon DEF Claim, Remove, Goto
      <4> QED
        BY <1>0, <4>1 DEF AttemptInv, None
    <3> QED
      BY <3>1, <3>2, Zenon
  <2>6. CASE Deliver(u, t)
    BY <2>6, <1>c, Zenon DEF Deliver
  <2>7. CASE Accepted(u, t)
    BY <2>7, <1>b, Zenon DEF Accepted
  <2>8. CASE UndoWrite(u, t)
    <3>1. /\ pc[u][t] # "none"
          /\ pc' = [pc EXCEPT ![u][t] = "undoRemove"]
          /\ local' = [local EXCEPT ![t] = stash[u][t]]
          /\ UNCHANGED <<call, snap,
                         data, stash>>
      BY <2>8, Zenon DEF UndoWrite, AtomicWrite, Goto
    <3> QED
      BY <1>0, <3>1, Zenon DEF AttemptInv
  <2>9. CASE UndoRemove(u, t)
    BY <2>9, <1>b, Zenon DEF UndoRemove
  <2> QED
    BY <1>4, <2>1, <2>2, <2>3, <2>4, <2>5, <2>6, <2>7, <2>8, <2>9, Zenon DEF JobStep
<1>5. ASSUME NEW u \in Uploaders, NEW t \in Times, JobFault(u, t)
      PROVE  AttemptInv'
  <2>1. CASE SendFails(u, t)
    BY <2>1, <1>c, Zenon DEF SendFails
  <2>2. CASE AckLost(u, t)
    BY <2>2, <1>c, Zenon DEF AckLost
  <2>3. CASE JobFails(u, t)
    BY <2>3, <1>b, Zenon DEF JobFails
  <2> QED
    BY <1>5, <2>1, <2>2, <2>3, Zenon DEF JobFault
<1>6. CASE ConsentChanges
  BY <1>0, <1>6, Zenon DEF ConsentChanges, SetState, SetOptOut, AttemptInv
<1>9. CASE TimePasses
  BY <1>0, <1>9, Zenon DEF TimePasses, Tick, AttemptInv
<1>7. CASE UNCHANGED vars
  BY <1>0, <1>7, Zenon DEF vars, AttemptInv
<1>8. ASSUME NEW u \in Uploaders, Start(u) PROVE AttemptInv'
  BY <1>8, <1>1, Zenon DEF Start
<1> QED
  BY <1>2, <1>3, <1>4, <1>5, <1>6, <1>7, <1>8, <1>9, Zenon
  DEF UploaderNext, CallFails, Crash

\* A Write that ends, or that goes on without writing, leaves the metrics where
\* they are.
Collecting ==
    /\ UNCHANGED uploaderVars
    /\ UNCHANGED <<consentFile, sysConfig>>
    /\ consented \subseteq consented'
    /\ \A t \in Times : local'[t] = "full" => local[t] = "full" \/ t \in consented'

\* What the uploading side knows survives the steps of the collectors.
LEMMA AttemptFrame ==
    ASSUME AttemptInv, Collecting
    PROVE  AttemptInv'
BY Zenon DEF Collecting, AttemptInv, uploaderVars

-----------------------------------------------------------------------------
\* The end of a Write, for whatever reason.
LEMMA DoneStep ==
    ASSUME WriteInv, NEW c \in Collectors, Done(c),
           UNCHANGED store, UNCHANGED uploaderVars
    PROVE  WriteInv' /\ Collecting
<1>1. IsOptedOut' = IsOptedOut /\ SourceConsent' = SourceConsent
  BY SameConsent, Zenon
<1>2. 0 \in Times
  BY StoreAssumption DEF Times
<1> QED
  BY <1>1, <1>2, Zenon DEF Done, Step, WriteInv, CollectorPC, Collecting

\* A step of a Write that neither ends it nor touches a report.
LEMMA GoOnStep ==
    ASSUME WriteInv, NEW c \in Collectors, cpc[c] # "idle",
           NEW p \in CollectorPC \ {"idle", "source"}, Step(c, p),
           UNCHANGED <<store, stamp, csnap, csystem, cgranted, consented>>,
           UNCHANGED uploaderVars, cvictims' \in [Collectors -> SUBSET Times]
    PROVE  WriteInv' /\ Collecting
<1>1. IsOptedOut' = IsOptedOut /\ SourceConsent' = SourceConsent
  BY SameConsent, Zenon
<1> QED
  BY <1>1, Zenon DEF Step, WriteInv, CollectorPC, Collecting

\* Cleanup and ClearPeriod take reports away.
LEMMA RemoveStep ==
    ASSUME TypeOK, WriteInv, NEW c \in Collectors, RemoveOne(c), UNCHANGED uploaderVars
    PROVE  WriteInv' /\ Collecting
<1>1. IsOptedOut' = IsOptedOut /\ SourceConsent' = SourceConsent
  BY SameConsent, Zenon DEF RemoveOne
<1>2. PICK t \in cvictims[c] :
        /\ cvictims' = [cvictims EXCEPT ![c] = @ \ {t}]
        /\ local' = [local EXCEPT ![t] = None] \/ local' = local
        /\ UNCHANGED <<cpc, stamp, csnap, csystem, cgranted, consented, consentFile, sysConfig>>
  BY Zenon DEF RemoveOne, Remove, collectorHistory
<1>3. local \in [Times -> Payload \cup {None}]
  BY Zenon DEF TypeOK, StoreTypeOK, Dir
<1>4. WriteInv'
  BY <1>1, <1>2, Zenon DEF WriteInv
<1>5. Collecting
  BY <1>2, <1>3, Zenon DEF Collecting, None
<1> QED
  BY <1>4, <1>5, Zenon

\* Every step of a collector keeps what is known of consent on its side, and files
\* metrics only with consent.
LEMMA WriteStep ==
    ASSUME TypeOK, WriteInv, NEW c \in Collectors, CollectorStep(c),
           UNCHANGED uploaderVars
    PROVE  WriteInv' /\ Collecting
<1>a. UNCHANGED <<consentFile, sysConfig>> =>
          IsOptedOut' = IsOptedOut /\ SourceConsent' = SourceConsent
  BY SameConsent, Zenon
<1>b. Oldest(local) \subseteq Times /\ InPeriod(local, stamp[c], Period) \subseteq Times
  BY Zenon DEF Oldest, InPeriod, Reports
<1>1. CASE Compile(c)
  BY <1>1, <1>a, Zenon DEF Compile, Step, WriteInv, CollectorPC, Collecting
<1>0. CASE CheckOptOut(c)
  <2>1. CASE Done(c)
    BY <1>0, <2>1, DoneStep, Zenon DEF CheckOptOut
  <2>2. CASE ~Done(c)
    <3>1. /\ cpc[c] = "consent" /\ UNCHANGED store
          /\ UNCHANGED <<stamp, csnap, cvictims, csystem, cgranted, consented>>
      BY <1>0, <2>2, Zenon DEF CheckOptOut, collectorHistory
    <3>2. CASE Step(c, "listPeriod") \/ Step(c, "dupLocal")
      BY <3>1, <3>2, GoOnStep, Zenon DEF CollectorPC, WriteInv
    <3>3. CASE IsOptedOut = "false" /\ Step(c, "source")
      BY <1>a, <3>1, <3>3, Zenon DEF Step, WriteInv, CollectorPC, Collecting
    <3> QED
      BY <1>0, <2>2, <3>2, <3>3, Zenon DEF CheckOptOut, HandleDuplicates
  <2> QED
    BY <2>1, <2>2, Zenon
<1>2. CASE ReadState(c)
  <2>1. CASE Done(c)
    BY <1>2, <2>1, DoneStep, Zenon DEF ReadState
  <2>2. CASE ~Done(c)
    <3>1. /\ cpc[c] = "source" /\ UNCHANGED store
          /\ Step(c, "listPeriod") \/ Step(c, "dupLocal")
          /\ csnap' = IF SourceConsent = "true" THEN csnap \cup {c} ELSE csnap
          /\ UNCHANGED <<stamp, cvictims, csystem, cgranted, consented>>
      BY <1>2, <2>2, Zenon DEF ReadState, HandleDuplicates, collectorHistory
    <3> QED
      BY <1>a, <3>1, Zenon DEF Step, WriteInv, CollectorPC, Collecting
  <2> QED
    BY <2>1, <2>2, Zenon
<1>3. ASSUME cpc[c] # "idle", Proceed(c), UNCHANGED store PROVE WriteInv' /\ Collecting
  <2>1. CASE Done(c)
    BY <1>3, <2>1, DoneStep, Zenon
  <2>2. CASE ~Done(c)
    <3>1. Step(c, "write") /\ UNCHANGED <<stamp, csnap, csystem, cgranted, consented, cvictims>>
      BY <1>3, <2>2, Zenon DEF Proceed, collectorHistory
    <3> QED
      BY <1>3, <3>1, GoOnStep, Zenon DEF CollectorPC, WriteInv
  <2> QED
    BY <2>1, <2>2, Zenon
<1>4. CASE DupLocal(c)
  <2>1. CASE Done(c)
    BY <1>4, <2>1, DoneStep, Zenon DEF DupLocal
  <2>2. CASE ~Done(c)
    <3>1. /\ Step(c, "dupUploaded") /\ cpc[c] # "idle" /\ UNCHANGED store
          /\ UNCHANGED <<stamp, csnap, csystem, cgranted, consented, cvictims>>
      BY <1>4, <2>2, Zenon DEF DupLocal, collectorHistory
    <3> QED
      BY <3>1, GoOnStep, Zenon DEF CollectorPC, WriteInv
  <2> QED
    BY <2>1, <2>2, Zenon
<1>5. CASE DupUploaded(c)
  BY <1>3, <1>5, DoneStep, Zenon DEF DupUploaded
<1>6. CASE ListPeriod(c) \/ ListLocal(c)
  <2>1. /\ Step(c, "clear") \/ Step(c, "cleanup")
        /\ cpc[c] # "idle" /\ UNCHANGED store
        /\ UNCHANGED <<stamp, csnap, csystem, cgranted, consented>>
    BY <1>6, Zenon DEF ListPeriod, ListLocal, collectorHistory
  <2>2. cvictims' \in [Collectors -> SUBSET Times]
    BY <1>6, <1>b, Zenon DEF ListPeriod, ListLocal, WriteInv
  <2> QED
    BY <2>1, <2>2, GoOnStep, Zenon DEF CollectorPC
<1>7. CASE Clear(c)
  BY <1>3, <1>7, RemoveStep, Zenon DEF Clear
<1>8. CASE CleanupLocal(c)
  BY <1>8, RemoveStep, DoneStep, Zenon DEF CleanupLocal
<1>9. CASE WriteReport(c)
  <2>1. /\ cpc[c] # "idle" /\ Step(c, "list")
        /\ local' = [local EXCEPT ![stamp[c]] = Consented(c \in csnap, "full")]
        /\ consented' = IF Consented(c \in csnap, "full") = "full" /\ c \in cgranted
                        THEN consented \cup {stamp[c]} ELSE consented
        /\ UNCHANGED <<stamp, csnap, csystem, cgranted, cvictims, consentFile, sysConfig>>
    BY <1>9, Zenon DEF WriteReport, AtomicWrite
  <2>2. local \in [Times -> Payload \cup {None}] /\ stamp[c] \in Times
    BY Zenon DEF TypeOK, StoreTypeOK, Dir, WriteInv
  <2>3. WriteInv'
    BY <1>a, <2>1, Zenon DEF Step, WriteInv, CollectorPC
  <2>4. Consented(c \in csnap, "full") = "full" => c \in cgranted
    BY Zenon DEF Consented, WriteInv
  <2>5. Collecting
    BY <2>1, <2>2, <2>4, Zenon DEF Collecting
  <2> QED
    BY <2>3, <2>5, Zenon
<1>10. CASE CollectFails(c) \/ CollectorCrash(c)
  BY <1>10, DoneStep, Zenon DEF CollectFails, CollectorCrash
<1> QED
  BY <1>0, <1>1, <1>2, <1>4, <1>5, <1>6, <1>7, <1>8, <1>9, <1>10, Zenon DEF CollectorStep

\* The collectors keep the files what they are.
LEMMA CollectorKeepsTypes ==
    ASSUME TypeOK, WriteInv, NEW c \in Collectors, CollectorStep(c),
           UNCHANGED uploaderVars
    PROVE  TypeOK'
<1>1. CASE UNCHANGED store
  BY <1>1, Zenon DEF TypeOK, StoreTypeOK, uploaderVars
<1>2. CASE RemoveOne(c)
  <2>1. PICK t \in cvictims[c] :
          /\ local' = [local EXCEPT ![t] = None] \/ local' = local
          /\ evicted' = evicted \cup {t} \/ evicted' = evicted
          /\ UNCHANGED <<uploaded, now, consentFile, sysConfig, collected>>
    BY <1>2, Zenon DEF RemoveOne, Remove
  <2>2. t \in Times
    BY Zenon DEF WriteInv
  <2>3. StoreTypeOK'
    BY <2>1, <2>2, Zenon DEF TypeOK, StoreTypeOK, Dir
  <2> QED
    BY <2>3, Zenon DEF TypeOK, uploaderVars
<1>3. CASE WriteReport(c)
  <2>1. stamp[c] \in Times /\ Consented(c \in csnap, "full") \in Payload
    BY Zenon DEF WriteInv, Consented, Payload
  <2>2. StoreTypeOK'
    BY <1>3, <2>1, Zenon DEF WriteReport, AtomicWrite, TypeOK, StoreTypeOK, Dir
  <2> QED
    BY <2>2, Zenon DEF TypeOK, uploaderVars
<1>4. UNCHANGED store \/ RemoveOne(c) \/ WriteReport(c)
  BY Zenon DEF CollectorStep, Compile, CheckOptOut, ReadState, DupLocal, DupUploaded,
         ListPeriod, Clear, ListLocal, CleanupLocal, CollectFails, CollectorCrash
<1> QED
  BY <1>1, <1>2, <1>3, <1>4, Zenon

-----------------------------------------------------------------------------
ClientInv == TypeOK /\ SeenInv /\ AttemptInv /\ WriteInv

\* The initial state satisfies the invariant.
LEMMA ClientInitInv == ClientInit => ClientInv
<1> SUFFICES ASSUME ClientInit PROVE ClientInv
  OBVIOUS
<1>1. TypeOK
  BY UploaderAssumption, StoreAssumption
     DEF ClientInit, Init, TypeOK, StoreTypeOK, NoFile, NoJob, Dir, Times, CallPC, JobPC
<1>2. SeenInv /\ AttemptInv
  BY Zenon DEF ClientInit, Init, SeenInv, AttemptInv, NoFile, NoJob, None
<1>3. 0 \in Times
  BY StoreAssumption DEF Times
<1>4. WriteInv
  BY <1>3, Zenon DEF ClientInit, CollectorInit, WriteInv, CollectorPC
<1> QED
  BY <1>1, <1>2, <1>4, Zenon DEF ClientInv

\* Every step of collectors, uploaders, users and clock keeps the invariant.
LEMMA ClientStepInv == ClientInv /\ [ClientNext]_clientVars => ClientInv'
<1> SUFFICES ASSUME ClientInv, [ClientNext]_clientVars PROVE ClientInv'
  OBVIOUS
<1>0. TypeOK /\ SeenInv /\ AttemptInv /\ WriteInv
  BY Zenon DEF ClientInv
<1>1. CASE UploaderNext /\ UNCHANGED collectorVars
  <2>1. TypeOK'
    BY <1>0, <1>1, TypeStep, Zenon DEF Next
  <2>2. SeenInv' /\ AttemptInv'
    BY <1>0, <1>1, SeenCaller, AttemptStep, Zenon DEF collectorVars, collectorHistory
  <2>3. UNCHANGED <<consentFile, sysConfig>>
    <3>1. ASSUME NEW u \in Uploaders, Start(u) \/ CallStep(u) \/ CallFails(u) \/ Crash(u)
          PROVE  UNCHANGED <<consentFile, sysConfig>>
      BY <3>1, Zenon DEF Start, CallStep, CallFails, Crash, ReadOptOut, ReadConsent, List,
                  JobsDone, Evict, Return, Retry, Leave, Attempt
    <3>2. ASSUME NEW u \in Uploaders, NEW t \in Times, JobStep(u, t)
          PROVE  UNCHANGED <<consentFile, sysConfig>>
      BY <3>2, Zenon DEF JobStep, Check, Read, Stash, Mark, Claim, Deliver, Accepted,
                  UndoWrite, UndoRemove
    <3>3. ASSUME NEW u \in Uploaders, NEW t \in Times, JobFault(u, t)
          PROVE  UNCHANGED <<consentFile, sysConfig>>
      BY <3>3, Zenon DEF JobFault, SendFails, AckLost, JobFails
    <3> QED
      BY <1>1, <3>1, <3>2, <3>3, Zenon DEF UploaderNext
  <2>4. WriteInv'
    BY <1>0, <1>1, <2>3, SameConsent, Zenon
       DEF WriteInv, collectorVars, collectorState, collectorHistory
  <2> QED
    BY <2>1, <2>2, <2>4, Zenon DEF ClientInv
<1>2. CASE CollectorNext /\ UNCHANGED uploaderVars
  <2>1. PICK c \in Collectors : CollectorStep(c)
    BY <1>2, Zenon DEF CollectorNext
  <2>2. TypeOK' /\ WriteInv' /\ Collecting
    BY <1>0, <1>2, <2>1, WriteStep, CollectorKeepsTypes, Zenon
  <2>3. SeenInv'
    BY <1>0, <2>2, SeenFrame, Zenon DEF Collecting, uploaderVars, TypeOK
  <2> QED
    BY <1>0, <2>2, <2>3, AttemptFrame, Zenon DEF ClientInv
<1>3. CASE UserEdits
  <2>1. ConsentChanges /\ consented' = consented
    BY <1>3, Zenon DEF UserEdits
  <2>2. TypeOK'
    BY <1>0, <2>1, TypeStep, Zenon DEF Next, Environment
  <2>3. SeenInv' /\ AttemptInv'
    BY <1>0, <2>1, SeenChange, AttemptStep, Zenon
  <2>4. /\ UNCHANGED <<cpc, stamp, cvictims, csnap>>
        /\ csystem' = IF IsOptedOut' = "false"
                      THEN {c \in Collectors : cpc[c] # "idle"} ELSE csystem
        /\ cgranted' = IF SourceConsent' = "true" THEN csystem' ELSE cgranted
    BY <1>3, Zenon DEF UserEdits, collectorState
  <2>5. csystem \subseteq csystem' /\ cgranted \subseteq cgranted'
    BY <1>0, <2>4, Zenon DEF WriteInv
  <2>6. WriteInv'
    BY <1>0, <2>4, <2>5, Zenon DEF WriteInv
  <2> QED
    BY <2>2, <2>3, <2>6, Zenon DEF ClientInv
<1>4. CASE TimePasses /\ UNCHANGED collectorVars
  <2>1. TypeOK'
    BY <1>0, <1>4, TypeStep, Zenon DEF Next, Environment
  <2>2. AttemptInv'
    BY <1>0, <1>4, AttemptStep, Zenon DEF collectorVars, collectorHistory
  <2>4. SeenInv'
    BY <1>0, <1>4, SeenFrame, Zenon DEF TimePasses, Tick, TypeOK
  <2>3. WriteInv'
    BY <1>0, <1>4, SameConsent, Zenon DEF TimePasses, Tick, WriteInv, collectorVars,
                      collectorState, collectorHistory
  <2> QED
    BY <2>1, <2>2, <2>3, <2>4, Zenon DEF ClientInv
<1>5. CASE UNCHANGED clientVars
  <2>1. UNCHANGED vars /\ UNCHANGED collectorVars
    BY <1>5, Zenon DEF clientVars
  <2>2. TypeOK'
    BY <1>0, <2>1, TypeStep, Zenon
  <2>3. AttemptInv'
    BY <1>0, <2>1, AttemptStep, Zenon DEF collectorVars, collectorHistory
  <2>4. WriteInv'
    BY <1>0, <2>1, SameConsent, Zenon DEF vars, WriteInv, collectorVars, collectorState,
                      collectorHistory
  <2>5. SeenInv'
    BY <1>0, <2>1, SeenFrame, Zenon DEF vars, TypeOK
  <2> QED
    BY <2>2, <2>3, <2>4, <2>5, Zenon DEF ClientInv
<1> QED
  BY <1>1, <1>2, <1>3, <1>4, <1>5, Zenon DEF ClientNext

\* Metrics are on their way to the server only if, during a Write that filed them
\* and during the attempt that sends them, the system was not opted out at some
\* time and the source's consent was granted at that time or later: for any
\* number of collectors and uploaders, whatever is forced, collected again,
\* undone, withdrawn, also between the two reads of GetState, or killed
\* (consent.go:76-92, collector.go:206-215, upload.go:86-129).
THEOREM ConsentEndToEnd == ClientSpec => []EndToEndConsent
<1>1. ClientInv => EndToEndConsent
  BY Zenon DEF ClientInv, SeenInv, AttemptInv, EndToEndConsent
<1> QED
  BY <1>1, ClientInitInv, ClientStepInv, PTL DEF ClientSpec

-----------------------------------------------------------------------------
\* The rest of the collectors' types.
FlagsInv ==
    /\ cmode \in [Collectors -> SUBSET CollectFlags]
    /\ started \in [Collectors -> Times]
    /\ consented \subseteq Times
    /\ misnamed \subseteq Times
    /\ again \subseteq Times
    /\ forced \subseteq Times

LEMMA FlagsStep ==
    ASSUME ClientInv, FlagsInv, [ClientNext]_clientVars
    PROVE  FlagsInv'
<1> USE DEF FlagsInv, collectorHistory
<1>0. 0 \in Times /\ now \in Times
  BY StoreAssumption DEF Times, ClientInv, TypeOK, StoreTypeOK
<1>1. ASSUME NEW c \in Collectors, Done(c) PROVE FlagsInv'
  BY <1>0, <1>1, Zenon DEF Done
<1>2. ASSUME NEW c \in Collectors, Compile(c) PROVE FlagsInv'
  <2>1. PICK m \in CollectModes : cmode' = [cmode EXCEPT ![c] = m]
    BY <1>2, Zenon DEF Compile
  <2>2. m \in SUBSET CollectFlags
    BY CollectorAssumption, Zenon
  <2> QED
    BY <1>0, <1>2, <2>1, <2>2, Zenon DEF Compile
<1>3. ASSUME NEW c \in Collectors, WriteReport(c) PROVE FlagsInv'
  <2>1. stamp[c] \in Times
    BY Zenon DEF ClientInv, WriteInv
  <2> QED
    BY <1>3, <2>1, Zenon DEF WriteReport
<1>4. CASE UNCHANGED <<cmode, started, collectorHistory>>
  BY <1>4, Zenon
<1>5. CASE UserEdits
  BY <1>5, Zenon DEF UserEdits, collectorState
<1>6. ASSUME NEW c \in Collectors, CollectorStep(c) PROVE FlagsInv'
  BY <1>1, <1>2, <1>3, <1>4, <1>6, Zenon
     DEF CollectorStep, CheckOptOut, ReadState, Proceed, DupLocal, DupUploaded, ListPeriod, Clear,
         RemoveOne, ListLocal, CleanupLocal, CollectFails, CollectorCrash
<1> QED
  BY <1>4, <1>5, <1>6, Zenon DEF ClientNext, CollectorNext, clientVars, collectorVars,
                          collectorState

\* The variables of both sides keep their types, for any number of collectors and
\* uploaders and any faults: whatever is forced, given an earlier time or killed,
\* reports are filed, listed and removed under timestamps of the clock
\* (collector.go:177-310).
THEOREM ClientTypes == ClientSpec => []ClientTypeOK
<1>1. ClientInit => FlagsInv
  BY StoreAssumption DEF ClientInit, CollectorInit, FlagsInv, Times
<1>2. ClientInv /\ FlagsInv => ClientTypeOK
  BY Zenon DEF ClientInv, FlagsInv, WriteInv, ClientTypeOK, CollectorTypeOK
<1> QED
  BY <1>1, <1>2, FlagsStep, ClientInitInv, ClientStepInv, PTL DEF ClientSpec
-----------------------------------------------------------------------------
(***************************************************************************)
(* Collecting once per period.  The check of handleDuplicates and the      *)
(* write after it are not one step, and a report moves from the directory  *)
(* that is read second to the one that is read first when a send is undone.*)
(* So the promise is kept where one Write runs at a time, stamped with the *)
(* time it was created, no file operation of it fails, and no send has to  *)
(* be undone; uploaders, any number of them, may come and go, be killed or *)
(* fail to read, mark and remove as they like.                             *)
(***************************************************************************)
PeriodSetting ==
    /\ \A c, d \in Collectors : c = d
    /\ CollectFaults = {}
    /\ \A m \in CollectModes : "given" \notin m
    /\ Faults \cap {"net", "ack"} = {}
    /\ MaxReports > 0

Was(t) == collected[t] # None

Newest(n) == Was(n) /\ \A s \in Times : s > n => ~Was(s)

\* A forced Write has begun to take the reports of its period away.
Replacing(c) ==
    cpc[c] \in {"clear", "write"} /\ "force" \in cmode[c] /\ "dryRun" \notin cmode[c]

\* Reports are filed in the order of time, and nothing but a report that was
\* collected is moved, marked or sent.
OrderInv ==
    /\ \A c \in Collectors :
           cpc[c] # "idle" =>
               stamp[c] <= now /\ \A s \in Times : Was(s) => s <= stamp[c]
    /\ \A s \in Times : Was(s) => s <= now
    /\ \A s \in Times : local[s] # None \/ uploaded[s] # None => Was(s)
    /\ \A u \in Uploaders, t \in Times :
           /\ pc[u][t] # "none" => Was(t)
           /\ pc[u][t] \notin {"undoWrite", "undoRemove"}
           /\ pc[u][t] \in {"stash", "mark"} => data[u][t] # None
    /\ \A t \in forced : t \in Times /\ Was(t)
    /\ (\E s \in Times : Was(s)) => \E n \in Times : Newest(n)

\* A retention pass never takes the newest report.
VictimsInv ==
    /\ \A u \in Uploaders : \A v \in victims[u] : \E s \in Times : s > v /\ Was(s)
    /\ \A c \in Collectors :
           cpc[c] = "cleanup" => \A v \in cvictims[c] : \E s \in Times : s > v /\ Was(s)

\* So the newest report can be seen in one of the directories, unless a forced
\* Write is replacing it.
NewestInv ==
    \A n \in Times :
        Newest(n) =>
            /\ \/ local[n] # None \/ uploaded[n] # None
               \/ \E c \in Collectors : Replacing(c)
            /\ \A u \in Uploaders :
                   pc[u][n] \in {"claim", "send", "got"} => uploaded[n] # None

\* What a Write has found out stays true until it writes.
FoundInv ==
    \A c \in Collectors :
        /\ cpc[c] \in {"listPeriod", "clear"} => "force" \in cmode[c]
        /\ cpc[c] \in {"dupLocal", "dupUploaded"} => "force" \notin cmode[c]
        /\ cpc[c] = "write" => "dryRun" \notin cmode[c]
        /\ cpc[c] \in {"dupUploaded", "write"} =>
               InPeriod(local, stamp[c], Period) = {}
        /\ cpc[c] = "clear" =>
               IF "dryRun" \in cmode[c] THEN cvictims[c] = {}
               ELSE InPeriod(local, stamp[c], Period) \subseteq cvictims[c]
        /\ cpc[c] = "write" /\ "force" \notin cmode[c] =>
               \A s \in Times : stamp[c] - Period <= s => ~Was(s)

PeriodInv ==
    OrderInv /\ VictimsInv /\ NewestInv /\ FoundInv /\ OncePerPeriod /\ ForceReplaces

\* What the uploaders do to the files, as the collector sees it: a report leaves
\* the local directory only after it was marked, and the uploaded one only as
\* the victim of a retention pass.
Uploading ==
    /\ UNCHANGED <<collected, now>>
    /\ \A t \in Times :
        /\ local'[t] # None => local[t] # None
        /\ local[t] # None /\ local'[t] = None =>
               \E u \in Uploaders : pc[u][t] = "claim"
        /\ uploaded'[t] # None =>
               uploaded[t] # None \/ \E u \in Uploaders : pc[u][t] # "none"
        /\ uploaded[t] # None /\ uploaded'[t] = None =>
               \E u \in Uploaders : t \in victims[u]
    /\ \A u \in Uploaders, t \in Times :
        /\ pc'[u][t] # "none" => pc[u][t] # "none" \/ local[t] # None
        /\ pc'[u][t] \notin {"undoWrite", "undoRemove"}
        /\ pc'[u][t] \in {"stash", "mark"} => data'[u][t] # None
        /\ pc'[u][t] \in {"claim", "send", "got"} =>
               pc[u][t] \in {"claim", "send", "got"} \/ uploaded'[t] # None
    /\ \A u \in Uploaders : \A v \in victims'[u] :
           v \in victims[u] \/ \E s \in Times : s > v /\ uploaded[s] # None

\* A report that a retention pass takes is not the newest of its directory.
LEMMA OldestHasNewer ==
    ASSUME PeriodSetting, NEW dir, NEW v \in Oldest(dir)
    PROVE  \E s \in Times : s > v /\ dir[s] # None
<1>1. CASE {s \in Reports(dir) : s > v} = {}
  <2>1. Cardinality({s \in Reports(dir) : s > v}) = 0
    BY <1>1, FS_EmptySet, Zenon
  <2>2. Cardinality({s \in Reports(dir) : s > v}) >= MaxReports
    BY Zenon DEF Oldest
  <2> QED
    BY <2>1, <2>2, StoreAssumption DEF PeriodSetting
<1> QED
  BY <1>1, Zenon DEF Reports

\* Every step of the uploaders does no more than that.
LEMMA UploadingStep ==
    ASSUME PeriodSetting, TypeOK, UploaderNext,
           \A u \in Uploaders, t \in Times :
               /\ pc[u][t] \notin {"undoWrite", "undoRemove"}
               /\ pc[u][t] \in {"stash", "mark"} => data[u][t] # None
    PROVE  Uploading
<1>0. /\ pc \in [Uploaders -> [Times -> JobPC]]
      /\ victims \in [Uploaders -> SUBSET Times]
      /\ local \in [Times -> Payload \cup {None}]
      /\ uploaded \in [Times -> Payload \cup {None}]
      /\ data \in [Uploaders -> [Times -> Payload \cup {None}]]
  BY Zenon DEF TypeOK, StoreTypeOK, Dir
<1>1. ASSUME UNCHANGED store, UNCHANGED <<pc, data, victims>> PROVE Uploading
  BY <1>1, Zenon DEF Uploading
<1>2. ASSUME NEW u \in Uploaders, Leave(u) PROVE Uploading
  BY <1>0, <1>2, Zenon DEF Leave, NoJob, NoFile, Uploading
<1>3. ASSUME NEW u \in Uploaders, NEW t \in Times,
             NEW p \in {"read", "stash", "mark", "done"}, NEW d,
             pc[u][t] # "none", Goto(u, t, p), UNCHANGED <<store, victims>>,
             data' = [data EXCEPT ![u][t] = d],
             p \in {"stash", "mark"} => d # None
      PROVE  Uploading
  BY <1>0, <1>3, Zenon DEF Goto, Uploading
<1>4. ASSUME NEW u \in Uploaders, CallStep(u) PROVE Uploading
  <2>1. CASE ReadOptOut(u) \/ ReadConsent(u) \/ Return(u) \/ Retry(u)
    BY <1>1, <1>2, <2>1, Zenon DEF ReadOptOut, ReadConsent, Return, Retry
  <2>2. CASE List(u)
    BY <1>0, <2>2, Zenon DEF List, Uploading
  <2>3. CASE JobsDone(u)
    <3>1. \A v \in Oldest(uploaded) : \E s \in Times : s > v /\ uploaded[s] # None
      BY OldestHasNewer, Zenon
    <3> QED
      BY <1>0, <2>3, <3>1, Zenon DEF JobsDone, NoJob, NoFile, Uploading
  <2>4. CASE Evict(u)
    <3>1. PICK t \in victims[u] :
            /\ victims' = [victims EXCEPT ![u] = @ \ {t}]
            /\ uploaded' = [uploaded EXCEPT ![t] = None] \/ uploaded' = uploaded
            /\ UNCHANGED <<local, collected, now, pc, data>>
      BY <2>4, Zenon DEF Evict, Remove
    <3> QED
      BY <1>0, <3>1, Zenon DEF Uploading
  <2> QED
    BY <1>4, <2>1, <2>2, <2>3, <2>4, Zenon DEF CallStep
<1>5. ASSUME NEW u \in Uploaders, NEW t \in Times, JobStep(u, t) PROVE Uploading
  <2>a. data = [data EXCEPT ![u][t] = data[u][t]]
    BY <1>0, Zenon
  <2>b. local[t] # None => Consented(u \in snap, local[t]) # None
    BY Zenon DEF Consented, None
  <2>1. CASE Check(u, t) \/ Read(u, t) \/ Stash(u, t) \/ Accepted(u, t)
    BY <1>3, <2>1, <2>a, <2>b, Zenon DEF Check, Read, Stash, Accepted, Finish
  <2>2. CASE Mark(u, t)
    <3>1. /\ pc[u][t] = "mark" /\ pc' = [pc EXCEPT ![u][t] = "claim"]
          /\ uploaded' = [uploaded EXCEPT ![t] = data[u][t]]
          /\ data[u][t] # None
          /\ UNCHANGED <<local, collected, now, victims, data>>
      BY <2>2, Zenon DEF Mark, AtomicWrite, Goto
    <3> QED
      BY <1>0, <3>1, Zenon DEF Uploading
  <2>3. CASE Claim(u, t)
    <3>1. /\ pc[u][t] = "claim"
          /\ pc' = [pc EXCEPT ![u][t] = "send"] \/ pc' = [pc EXCEPT ![u][t] = "done"]
          /\ data' = [data EXCEPT ![u][t] = None] \/ data' = data
          /\ local' = [local EXCEPT ![t] = None] \/ local' = local
          /\ UNCHANGED <<uploaded, collected, now, victims>>
      BY <2>3, Zenon DEF Claim, Finish, Remove, Goto
    <3>2. \A s \in Times : local'[s] # local[s] => s = t /\ local'[s] = None
      BY <1>0, <3>1, Zenon
    <3>3. \A w \in Uploaders, s \in Times :
            /\ w # u \/ s # t => pc'[w][s] = pc[w][s] /\ data'[w][s] = data[w][s]
            /\ pc'[u][t] \in {"send", "done"}
      BY <1>0, <3>1
    <3> QED
      BY <1>0, <3>1, <3>2, <3>3, SMTT(20) DEF Uploading
  <2>4. CASE Deliver(u, t)
    BY <1>0, <2>4, Zenon DEF Deliver, Goto, Uploading
  <2> QED
    BY <1>5, <2>1, <2>2, <2>3, <2>4, Zenon DEF JobStep, UndoWrite, UndoRemove
<1>6. ASSUME NEW u \in Uploaders, NEW t \in Times, JobFault(u, t) PROVE Uploading
  BY <1>3, <1>6, Zenon DEF JobFault, SendFails, AckLost, JobFails, Finish, PeriodSetting
<1> QED
  BY <1>1, <1>2, <1>4, <1>5, <1>6, Zenon DEF UploaderNext, Start, CallFails, Crash

\* What the collector has found out survives it.
LEMMA PeriodUploading ==
    ASSUME TypeOK, PeriodInv, Uploading, UNCHANGED collectorVars
    PROVE  PeriodInv'
<1>0. /\ UNCHANGED <<cpc, cmode, stamp, cvictims, again, forced, collected, now>>
      /\ OrderInv /\ VictimsInv /\ NewestInv /\ FoundInv /\ OncePerPeriod /\ ForceReplaces
  BY Zenon DEF Uploading, PeriodInv, collectorVars, collectorState, collectorHistory
<1>1. \A t \in Times : (Was(t))' = Was(t) /\ (Newest(t))' = Newest(t)
  BY <1>0, Zenon DEF Was, Newest
<1>2. OrderInv'
  <2>1. \A s \in Times : local'[s] # None \/ uploaded'[s] # None => Was(s)
    BY <1>0, Zenon DEF OrderInv, Uploading
  <2>2. \A u \in Uploaders, t \in Times :
          /\ pc'[u][t] # "none" => Was(t)
          /\ pc'[u][t] \notin {"undoWrite", "undoRemove"}
          /\ pc'[u][t] \in {"stash", "mark"} => data'[u][t] # None
    BY <1>0, Zenon DEF OrderInv, Uploading
  <2> QED
    BY <1>0, <1>1, <2>1, <2>2, Zenon DEF OrderInv
<1>3. VictimsInv'
  BY <1>0, <1>1, Zenon DEF VictimsInv, OrderInv, Uploading
<1>4. NewestInv'
  <2> SUFFICES ASSUME NEW n \in Times, Newest(n)
               PROVE  /\ \/ local'[n] # None \/ uploaded'[n] # None
                         \/ \E c \in Collectors : Replacing(c)
                      /\ \A u \in Uploaders :
                           pc'[u][n] \in {"claim", "send", "got"} => uploaded'[n] # None
    BY <1>0, <1>1, Zenon DEF NewestInv, Replacing
  <2>1. \A u \in Uploaders : n \notin victims[u]
    BY <1>0, Zenon DEF VictimsInv, Newest
  <2>2. uploaded[n] # None => uploaded'[n] # None
    BY <2>1, Zenon DEF Uploading
  <2> QED
    BY <1>0, <2>2, Zenon DEF NewestInv, Uploading
<1>5. FoundInv'
  <2>1. \A c \in Collectors :
          InPeriod(local', stamp[c], Period) \subseteq InPeriod(local, stamp[c], Period)
    BY Zenon DEF InPeriod, Reports, Uploading
  <2>2. \A c \in Collectors :
          (InPeriod(local, stamp[c], Period))' = InPeriod(local', stamp[c], Period)
    BY <1>0, Zenon DEF InPeriod, Reports
  <2> QED
    BY <1>0, <1>1, <2>1, <2>2, Zenon DEF FoundInv
<1>6. OncePerPeriod' /\ ForceReplaces'
  BY <1>0, Zenon DEF OncePerPeriod, ForceReplaces, Uploading
<1> QED
  BY <1>2, <1>3, <1>4, <1>5, <1>6, Zenon DEF PeriodInv

\* A step of a Write that leaves the files alone: the order of the reports is
\* kept, the rest is about where the Write stands.
LEMMA PeriodMove ==
    ASSUME PeriodSetting, PeriodInv, NEW c \in Collectors,
           UNCHANGED store, UNCHANGED uploaderVars, UNCHANGED <<again, forced>>,
           cpc'[c] # "idle" =>
               /\ stamp'[c] <= now
               /\ \A s \in Times : Was(s) => s <= stamp'[c],
           cpc'[c] = "cleanup" =>
               \A v \in cvictims'[c] : \E s \in Times : s > v /\ Was(s),
           Replacing(c) => Replacing(c)',
           FoundInv'
    PROVE  PeriodInv'
<1>0. /\ OrderInv /\ VictimsInv /\ NewestInv /\ OncePerPeriod /\ ForceReplaces
      /\ \A d \in Collectors : d = c
      /\ UNCHANGED <<local, uploaded, collected, now, pc, data, victims, again, forced>>
  BY Zenon DEF PeriodInv, PeriodSetting, uploaderVars
<1>1. \A t \in Times : (Was(t))' = Was(t) /\ (Newest(t))' = Newest(t)
  BY <1>0, Zenon DEF Was, Newest
<1>2. OrderInv'
  BY <1>0, <1>1, Zenon DEF OrderInv
<1>3. VictimsInv'
  BY <1>0, <1>1, Zenon DEF VictimsInv
<1>4. NewestInv'
  BY <1>0, <1>1, Zenon DEF NewestInv
<1>5. OncePerPeriod' /\ ForceReplaces'
  BY <1>0, Zenon DEF OncePerPeriod, ForceReplaces
<1> QED
  BY <1>2, <1>3, <1>4, <1>5, Zenon DEF PeriodInv

\* A Write that ends without having taken anything away.
LEMMA PeriodDone ==
    ASSUME PeriodSetting, WriteInv, PeriodInv, NEW c \in Collectors, Done(c),
           UNCHANGED store, UNCHANGED uploaderVars, ~Replacing(c)
    PROVE  PeriodInv'
<1>1. cpc'[c] = "idle" /\ UNCHANGED <<again, forced>>
  BY Zenon DEF Done, Step, WriteInv
<1>2. FoundInv'
  BY <1>1, Zenon DEF FoundInv, PeriodSetting
<1> QED
  BY <1>1, <1>2, PeriodMove, Zenon

\* The two ways on to the write: the duplicate check has found the period empty,
\* or everything in it was taken away.
LEMMA PeriodProceed ==
    ASSUME PeriodSetting, TypeOK, WriteInv, FlagsInv, PeriodInv, NEW c \in Collectors,
           Proceed(c), UNCHANGED store, UNCHANGED uploaderVars,
           \/ cpc[c] = "dupUploaded" /\ InPeriod(uploaded, stamp[c], Period) = {}
           \/ cpc[c] = "clear" /\ cvictims[c] = {}
    PROVE  PeriodInv'
<1>0. /\ OrderInv /\ NewestInv /\ FoundInv
      /\ \A d \in Collectors : d = c
      /\ stamp[c] \in Int /\ Period \in Int
  BY CollectorAssumption, StoreAssumption
     DEF PeriodInv, PeriodSetting, WriteInv, Times
<1>1. CASE "dryRun" \in cmode[c]
  <2>1. ~Replacing(c)
    BY <1>1, Zenon DEF Replacing
  <2> QED
    BY <1>1, <2>1, PeriodDone, Zenon DEF Proceed
<1>2. CASE "dryRun" \notin cmode[c]
  <2>1. /\ cpc'[c] = "write"
        /\ UNCHANGED <<cmode, stamp, cvictims, again, forced, local, collected, now>>
    BY <1>2, Zenon DEF Proceed, Step, WriteInv, collectorHistory
  <2>2. InPeriod(local, stamp[c], Period) = {}
    BY <1>0, <1>2, Zenon DEF FoundInv
  <2>3. ASSUME "force" \notin cmode[c], NEW s \in Times, stamp[c] - Period <= s, Was(s)
        PROVE  FALSE
    <3>1. InPeriod(uploaded, stamp[c], Period) = {} /\ ~Replacing(c)
      BY <1>0, <2>3, Zenon DEF FoundInv, Replacing
    <3>2. PICK n \in Times : Newest(n)
      BY <1>0, <2>3, Zenon DEF OrderInv
    <3>3. n \in Int /\ s \in Int
      BY StoreAssumption, SMTT(20) DEF Times
    <3>4. s <= n
      BY <2>3, <3>2, <3>3 DEF Newest
    <3>5. stamp[c] - Period <= n /\ n <= stamp[c]
      BY <1>0, <2>3, <3>2, <3>3, <3>4, SMTT(20) DEF OrderInv, Newest
    <3>6. local[n] # None \/ uploaded[n] # None
      BY <1>0, <3>1, <3>2, Zenon DEF NewestInv
    <3> QED
      BY <2>2, <3>1, <3>5, <3>6, Zenon DEF InPeriod, Reports
  <2>4. (InPeriod(local, stamp[c], Period))' = {} /\ \A s \in Times : (Was(s))' = Was(s)
    BY <2>1, <2>2, Zenon DEF InPeriod, Reports, Was
  <2>5. FoundInv'
    BY <1>0, <1>2, <2>1, <2>3, <2>4, Zenon DEF FoundInv
  <2>6. Replacing(c) => Replacing(c)'
    BY <2>1, Zenon DEF Replacing
  <2> QED
    BY <1>0, <2>1, <2>5, <2>6, PeriodMove, Zenon DEF OrderInv
<1> QED
  BY <1>1, <1>2, Zenon

\* Taking one report away: a victim of the retention pass, which has a newer one,
\* or one that a forced Write replaces.
LEMMA PeriodRemove ==
    ASSUME PeriodSetting, TypeOK, WriteInv, PeriodInv, NEW c \in Collectors,
           cpc[c] \in {"clear", "cleanup"}, RemoveOne(c), UNCHANGED uploaderVars
    PROVE  PeriodInv'
<1>0. /\ OrderInv /\ VictimsInv /\ NewestInv /\ FoundInv /\ OncePerPeriod /\ ForceReplaces
      /\ \A d \in Collectors : d = c
      /\ local \in [Times -> Payload \cup {None}]
      /\ cvictims \in [Collectors -> SUBSET Times]
  BY Zenon DEF PeriodInv, PeriodSetting, TypeOK, StoreTypeOK, Dir, WriteInv
<1>1. PICK t \in cvictims[c] :
        /\ cvictims' = [cvictims EXCEPT ![c] = @ \ {t}]
        /\ local' = [local EXCEPT ![t] = None] \/ (local[t] = None /\ local' = local)
        /\ UNCHANGED <<uploaded, now, collected, cpc, cmode, stamp, again, forced,
                       pc, data, victims>>
  BY Zenon DEF RemoveOne, Remove, collectorHistory, uploaderVars, PeriodSetting
<1>2. /\ t \in Times /\ cvictims'[c] = cvictims[c] \ {t}
      /\ \A s \in Times : local'[s] = IF s = t THEN None ELSE local[s]
  BY <1>0, <1>1, Zenon
<1>3. /\ \A s \in Times : (Was(s))' = Was(s) /\ (Newest(s))' = Newest(s)
      /\ (Replacing(c))' = Replacing(c)
  BY <1>1, Zenon DEF Was, Newest, Replacing
<1>4. OrderInv'
  BY <1>0, <1>1, <1>2, <1>3, Zenon DEF OrderInv
<1>5. VictimsInv'
  BY <1>0, <1>1, <1>2, <1>3, Zenon DEF VictimsInv
<1>6. NewestInv'
  <2>1. ASSUME Newest(t) PROVE Replacing(c)
    <3>1. cpc[c] = "clear"
      BY <1>0, <1>1, <2>1, Zenon DEF VictimsInv, Newest
    <3> QED
      BY <1>0, <1>1, <3>1, Zenon DEF FoundInv, Replacing
  <2> QED
    BY <1>0, <1>1, <1>2, <1>3, <2>1, Zenon DEF NewestInv
<1>7. FoundInv'
  <2>1. InPeriod(local', stamp[c], Period) \subseteq InPeriod(local, stamp[c], Period) \ {t}
    BY <1>2, Zenon DEF InPeriod, Reports
  <2>2. (InPeriod(local, stamp[c], Period))' = InPeriod(local', stamp[c], Period)
    BY <1>1, Zenon DEF InPeriod, Reports
  <2> QED
    BY <1>0, <1>1, <1>2, <1>3, <2>1, <2>2, Zenon DEF FoundInv
<1>8. OncePerPeriod' /\ ForceReplaces'
  BY <1>0, <1>1, <1>2, Zenon DEF OncePerPeriod, ForceReplaces
<1> QED
  BY <1>4, <1>5, <1>6, <1>7, <1>8, Zenon DEF PeriodInv

\* The write: its report becomes the newest, in a period that has no other.
LEMMA PeriodWrite ==
    ASSUME PeriodSetting, TypeOK, WriteInv, PeriodInv, NEW c \in Collectors,
           WriteReport(c), UNCHANGED uploaderVars
    PROVE  PeriodInv'
<1>0. /\ OrderInv /\ VictimsInv /\ NewestInv /\ FoundInv /\ OncePerPeriod /\ ForceReplaces
      /\ \A d \in Collectors : d = c
      /\ local \in [Times -> Payload \cup {None}]
      /\ collected \in [Times -> Payload \cup {None}]
      /\ stamp[c] \in Times /\ cpc \in [Collectors -> CollectorPC]
      /\ Times \subseteq Int /\ Period \in Int
  BY StoreAssumption, CollectorAssumption
     DEF PeriodInv, PeriodSetting, TypeOK, StoreTypeOK, Dir, WriteInv, Times
<1>a. PICK t \in Times : t = stamp[c]
  BY <1>0, Zenon
<1>b. PICK p : p = Consented(c \in csnap, "full")
  OBVIOUS
<1>1. /\ cpc[c] = "write" /\ cpc'[c] = "list"
      /\ local' = [local EXCEPT ![t] = p]
      /\ collected' = [collected EXCEPT ![t] = p]
      /\ again' = IF "force" \notin cmode[c]
                     /\ \E s \in t - Period .. t : s \in Times /\ collected[s] # None
                  THEN again \cup {t} ELSE again
      /\ forced' = IF "force" \in cmode[c] THEN forced \cup {t} ELSE forced
      /\ UNCHANGED <<uploaded, now, cmode, stamp, cvictims, pc, data, victims>>
  BY <1>0, <1>a, <1>b, Zenon DEF WriteReport, AtomicWrite, Step, uploaderVars
<1>2. p # None
  BY <1>b, Zenon DEF Consented, None
<1>3. /\ \A s \in Times : local'[s] = IF s = t THEN p ELSE local[s]
      /\ \A s \in Times : (Was(s))' <=> s = t \/ Was(s)
      /\ \A s \in Times : Was(s) => s <= t
      /\ t <= now
  BY <1>0, <1>a, <1>1, <1>2, Zenon DEF Was, OrderInv
<1>4. \A s \in Times : (Newest(s))' <=> s = t
  <2>1. ASSUME NEW s \in Times, s # t PROVE s < t \/ t < s
    BY <1>0, <2>1
  <2>2. ~(t > t) /\ \A s \in Times : s <= t => ~(s > t)
    BY <1>0
  <2> QED
    BY <1>0, <1>3, <2>1, <2>2, Zenon DEF Newest
<1>5. OrderInv'
  <2>1. \A d \in Collectors :
          stamp'[d] <= now' /\ \A s \in Times : (Was(s))' => s <= stamp'[d]
    BY <1>0, <1>a, <1>1, <1>3, SMTT(20)
  <2>2. \A s \in Times : (Was(s))' => s <= now'
    BY <1>0, <1>1, <1>3, Zenon DEF OrderInv
  <2>3. \A s \in Times : local'[s] # None \/ uploaded'[s] # None => (Was(s))'
    BY <1>0, <1>1, <1>3, Zenon DEF OrderInv
  <2>4. \A u \in Uploaders, s \in Times :
          /\ pc'[u][s] # "none" => (Was(s))'
          /\ pc'[u][s] \notin {"undoWrite", "undoRemove"}
          /\ pc'[u][s] \in {"stash", "mark"} => data'[u][s] # None
    BY <1>0, <1>1, <1>3, Zenon DEF OrderInv
  <2>5. \A f \in forced' : f \in Times /\ (Was(f))'
    BY <1>0, <1>1, <1>3, Zenon DEF OrderInv
  <2>6. (Newest(t))'
    BY <1>3, <1>4, Zenon
  <2> QED
    BY <1>3, <2>1, <2>2, <2>3, <2>4, <2>5, <2>6, Zenon DEF OrderInv
<1>6. VictimsInv'
  BY <1>0, <1>1, <1>3, Zenon DEF VictimsInv
<1>7. NewestInv'
  <2>1. local'[t] # None
    BY <1>2, <1>3, Zenon
  <2>2. ASSUME NEW u \in Uploaders, pc[u][t] \in {"claim", "send", "got"}
        PROVE  uploaded[t] # None
    <3>1. Was(t)
      BY <1>0, <1>3, <2>2, Zenon DEF OrderInv
    <3>2. Newest(t)
      BY <1>0, <1>3, <3>1 DEF Newest
    <3> QED
      BY <1>0, <1>3, <2>2, <3>2, Zenon DEF NewestInv
  <2> QED
    BY <1>1, <1>4, <2>1, <2>2, Zenon DEF NewestInv
<1>8. FoundInv'
  BY <1>0, <1>1, Zenon DEF FoundInv
<1>9. OncePerPeriod'
  <2>1. "force" \notin cmode[c] => \A s \in Times : t - Period <= s => collected[s] = None
    BY <1>0, <1>a, <1>1, Zenon DEF FoundInv, Was
  <2> QED
    BY <1>0, <1>1, <1>3, <2>1, SMTT(20) DEF OncePerPeriod
<1>10. ForceReplaces'
  <2> SUFFICES ASSUME NEW f \in forced', NEW s \in Times, f - Period <= s, s < f
               PROVE  local'[s] = None
    BY Zenon DEF ForceReplaces
  <2>1. f \in Times /\ f <= t
    <3>1. f \in forced \/ f = t
      BY <1>1, Zenon
    <3>2. f \in forced => f \in Times /\ Was(f)
      BY <1>0, Zenon DEF OrderInv
    <3>3. \A r \in Times : Was(r) => r <= t
      BY <1>3, Zenon
    <3>4. t <= t
      BY <1>0
    <3> QED
      BY <3>1, <3>2, <3>3, <3>4, Zenon
  <2>2. local'[s] = local[s]
    BY <1>0, <1>3, <2>1
  <2>3. CASE f \in forced
    BY <1>0, <2>2, <2>3, Zenon DEF ForceReplaces
  <2>4. CASE f = t
    <3>1. InPeriod(local, t, Period) = {}
      BY <1>0, <1>a, <1>1, Zenon DEF FoundInv
    <3> QED
      BY <1>0, <1>3, <2>2, <2>4, <3>1, SMTT(20) DEF InPeriod, Reports
  <2> QED
    BY <1>1, <2>3, <2>4, Zenon
<1> QED
  BY <1>5, <1>6, <1>7, <1>8, <1>9, <1>10, Zenon DEF PeriodInv

\* Every step of the collector keeps the invariant.
LEMMA PeriodCollecting ==
    ASSUME PeriodSetting, TypeOK, WriteInv, FlagsInv, PeriodInv, NEW c \in Collectors,
           CollectorStep(c), UNCHANGED uploaderVars
    PROVE  PeriodInv'
<1>0. /\ OrderInv /\ VictimsInv /\ NewestInv /\ FoundInv
      /\ \A d \in Collectors : d = c
      /\ cpc \in [Collectors -> CollectorPC]
      /\ stamp \in [Collectors -> Times]
      /\ cvictims \in [Collectors -> SUBSET Times]
      /\ cmode \in [Collectors -> SUBSET CollectFlags]
      /\ now \in Times /\ Times \subseteq Int
  BY StoreAssumption
     DEF PeriodInv, PeriodSetting, WriteInv, FlagsInv, TypeOK, StoreTypeOK, Times
<1>1. CASE Compile(c)
  <2>1. PICK m \in CollectModes :
          /\ cpc[c] = "idle" /\ cpc'[c] = "consent" /\ stamp'[c] = now
          /\ UNCHANGED <<store, again, forced>>
    BY <1>0, <1>1, Zenon DEF Compile, Step, PeriodSetting
  <2>2. FoundInv'
    BY <1>0, <2>1, Zenon DEF FoundInv
  <2>3. now <= now /\ ~Replacing(c)
    BY <1>0, <2>1, SMTT(20) DEF Replacing
  <2>4. \A s \in Times : Was(s) => s <= now
    BY <1>0, Zenon DEF OrderInv
  <2> QED
    BY <2>1, <2>2, <2>3, <2>4, PeriodMove, Zenon
<1>2. CASE CheckOptOut(c) \/ ReadState(c)
  <2>1. cpc[c] \in {"consent", "source"} /\ ~Replacing(c) /\ UNCHANGED store
    BY <1>2, Zenon DEF CheckOptOut, ReadState, Replacing
  <2>2. CASE Done(c)
    BY <2>1, <2>2, PeriodDone, Zenon
  <2>3. CASE ~Done(c)
    <3>1. /\ \/ cpc'[c] = IF "force" \in cmode[c] THEN "listPeriod" ELSE "dupLocal"
             \/ cpc'[c] = "source"
          /\ UNCHANGED <<cmode, stamp, cvictims, again, forced>>
      BY <1>0, <1>2, <2>3, Zenon
      DEF CheckOptOut, ReadState, HandleDuplicates, Step, collectorHistory
    <3>2. FoundInv'
      BY <1>0, <3>1, Zenon DEF FoundInv
    <3> QED
      BY <1>0, <2>1, <3>1, <3>2, PeriodMove, Zenon DEF OrderInv
  <2> QED
    BY <2>2, <2>3, Zenon
<1>3. CASE DupLocal(c)
  <2>1. cpc[c] = "dupLocal" /\ ~Replacing(c) /\ UNCHANGED store
    BY <1>3, Zenon DEF DupLocal, Replacing
  <2>2. CASE Done(c)
    BY <2>1, <2>2, PeriodDone, Zenon
  <2>3. CASE ~Done(c)
    <3>1. /\ cpc'[c] = "dupUploaded" /\ InPeriod(local, stamp[c], Period) = {}
          /\ UNCHANGED <<local, cmode, stamp, cvictims, again, forced>>
      BY <1>0, <1>3, <2>3, Zenon DEF DupLocal, Step, collectorHistory
    <3>2. (InPeriod(local, stamp[c], Period))' = {}
      BY <3>1, Zenon DEF InPeriod, Reports
    <3>3. FoundInv'
      BY <1>0, <2>1, <3>1, <3>2, Zenon DEF FoundInv
    <3> QED
      BY <1>0, <2>1, <3>1, <3>3, PeriodMove, Zenon DEF OrderInv
  <2> QED
    BY <2>2, <2>3, Zenon
<1>4. CASE DupUploaded(c)
  <2>1. cpc[c] = "dupUploaded" /\ ~Replacing(c) /\ UNCHANGED store
    BY <1>4, Zenon DEF DupUploaded, Replacing
  <2> QED
    BY <1>4, <2>1, PeriodDone, PeriodProceed, Zenon DEF DupUploaded
<1>5. CASE ListPeriod(c)
  <2>1. /\ cpc[c] = "listPeriod" /\ cpc'[c] = "clear"
        /\ cvictims'[c] = IF "dryRun" \in cmode[c] THEN {}
                          ELSE InPeriod(local, stamp[c], Period)
        /\ UNCHANGED <<store, cmode, stamp, again, forced>>
    BY <1>0, <1>5, Zenon DEF ListPeriod, Step, collectorHistory
  <2>2. (InPeriod(local, stamp[c], Period))' = InPeriod(local, stamp[c], Period)
    BY <2>1, Zenon DEF InPeriod, Reports
  <2>3. FoundInv'
    BY <1>0, <2>1, <2>2, Zenon DEF FoundInv
  <2>4. ~Replacing(c)
    BY <2>1, Zenon DEF Replacing
  <2> QED
    BY <1>0, <2>1, <2>3, <2>4, PeriodMove, Zenon DEF OrderInv
<1>6. CASE Clear(c)
  BY <1>6, PeriodRemove, PeriodProceed, Zenon DEF Clear
<1>7. CASE WriteReport(c)
  BY <1>7, PeriodWrite, Zenon
<1>8. CASE ListLocal(c)
  <2>1. /\ cpc[c] = "list" /\ cpc'[c] = "cleanup"
        /\ cvictims'[c] = Oldest(local)
        /\ UNCHANGED <<store, cmode, stamp, again, forced>>
    BY <1>0, <1>8, Zenon DEF ListLocal, Step, collectorHistory
  <2>2. \A v \in Oldest(local) : \E s \in Times : s > v /\ Was(s)
    BY <1>0, OldestHasNewer, Zenon DEF OrderInv
  <2>3. FoundInv' /\ ~Replacing(c)
    BY <1>0, <2>1, Zenon DEF FoundInv, Replacing
  <2> QED
    BY <1>0, <2>1, <2>2, <2>3, PeriodMove, Zenon DEF OrderInv
<1>9. CASE CleanupLocal(c)
  <2>1. cpc[c] = "cleanup" /\ ~Replacing(c)
    BY <1>9, Zenon DEF CleanupLocal, Replacing
  <2> QED
    BY <1>9, <2>1, PeriodRemove, PeriodDone, Zenon DEF CleanupLocal
<1> QED
  BY <1>1, <1>2, <1>3, <1>4, <1>5, <1>6, <1>7, <1>8, <1>9, Zenon
     DEF CollectorStep, CollectFails, CollectorCrash, PeriodSetting

\* Every step of the client keeps the invariant.
LEMMA PeriodStep ==
    ASSUME PeriodSetting, ClientInv, FlagsInv, PeriodInv, [ClientNext]_clientVars
    PROVE  PeriodInv'
<1>0. TypeOK /\ WriteInv /\ OrderInv
  BY Zenon DEF ClientInv, PeriodInv
<1>1. CASE UploaderNext /\ UNCHANGED collectorVars
  <2>1. Uploading
    BY <1>0, <1>1, UploadingStep, Zenon DEF OrderInv
  <2> QED
    BY <1>0, <1>1, <2>1, PeriodUploading, Zenon
<1>2. CASE CollectorNext /\ UNCHANGED uploaderVars
  BY <1>0, <1>2, PeriodCollecting, Zenon DEF CollectorNext
<1>3. CASE UserEdits \/ UNCHANGED clientVars
  <2>1. UNCHANGED <<local, uploaded, collected, now, pc, data, victims,
                    cpc, cmode, stamp, cvictims, again, forced>>
    BY <1>3, Zenon DEF UserEdits, ConsentChanges, SetState, SetOptOut, collectorState, clientVars,
                vars, collectorVars, collectorHistory
  <2> QED
    BY <2>1 DEF PeriodInv, OrderInv, VictimsInv, NewestInv, FoundInv, OncePerPeriod,
                ForceReplaces, Was, Newest, Replacing, InPeriod, Reports
<1>4. CASE TimePasses /\ UNCHANGED collectorVars
  <2>1. /\ now' = now + 1
        /\ UNCHANGED <<local, uploaded, collected, pc, data, victims,
                       cpc, cmode, stamp, cvictims, again, forced>>
    BY <1>4, Zenon DEF TimePasses, Tick, collectorVars, collectorState, collectorHistory
  <2>2. /\ \A t \in Times : (Was(t))' = Was(t) /\ (Newest(t))' = Newest(t)
        /\ \A c \in Collectors : (Replacing(c))' = Replacing(c)
    BY <2>1, Zenon DEF Was, Newest, Replacing
  <2>3. now \in Int /\ Times \subseteq Int /\ stamp \in [Collectors -> Times]
    BY <1>0, StoreAssumption DEF TypeOK, StoreTypeOK, WriteInv, Times
  <2>4. OrderInv'
    <3>1. \A t \in Times : t <= now => t <= now'
      BY <2>1, <2>3
    <3> QED
      BY <1>0, <2>1, <2>2, <2>3, <3>1, Zenon DEF OrderInv
  <2>5. VictimsInv' /\ NewestInv'
    BY <2>1, <2>2, Zenon DEF PeriodInv, VictimsInv, NewestInv
  <2>6. FoundInv' /\ OncePerPeriod' /\ ForceReplaces'
    BY <2>1, Zenon DEF PeriodInv, FoundInv, OncePerPeriod, ForceReplaces, Was, InPeriod, Reports
  <2> QED
    BY <2>4, <2>5, <2>6, Zenon DEF PeriodInv
<1> QED
  BY <1>1, <1>2, <1>3, <1>4, Zenon DEF ClientNext

\* Nothing is filed at first.
LEMMA PeriodInit == ASSUME PeriodSetting, ClientInit PROVE PeriodInv
<1>1. /\ \A t \in Times : local[t] = None /\ uploaded[t] = None /\ ~Was(t)
      /\ \A u \in Uploaders, t \in Times : pc[u][t] = "none"
      /\ \A u \in Uploaders : victims[u] = {}
      /\ \A c \in Collectors : cpc[c] = "idle"
      /\ again = {} /\ forced = {}
  BY Zenon DEF ClientInit, Init, CollectorInit, NoFile, NoJob, Was
<1> QED
  BY <1>1, Zenon DEF PeriodInv, OrderInv, VictimsInv, NewestInv, FoundInv, OncePerPeriod,
              ForceReplaces, Newest

\* An unforced Write never files a report in a period in which one was collected
\* before, wherever the uploaders have moved that one and whatever the retention
\* passes of both directories removed: the newest report is never a victim, and
\* it is marked as uploaded before it leaves the local directory, which
\* duplicateExists reads first (collector.go:259-310, report.go:80-117).
THEOREM CollectsOncePerPeriod ==
    ASSUME PeriodSetting PROVE ClientSpec => []OncePerPeriod
<1>1. PeriodInv => OncePerPeriod
  BY Zenon DEF PeriodInv
<1>2. ClientInit => FlagsInv
  BY StoreAssumption DEF ClientInit, CollectorInit, FlagsInv, Times
<1> QED
  BY <1>1, <1>2, PeriodInit, PeriodStep, FlagsStep, ClientInitInv, ClientStepInv, PTL
     DEF ClientSpec

\* The reports a forced Write replaced do not come back to the local directory:
\* later Writes are stamped later and uploads only take from it
\* (collector.go:259-287, report.go:80-117).
THEOREM ForcedWriteReplaces ==
    ASSUME PeriodSetting PROVE ClientSpec => []ForceReplaces
<1>1. PeriodInv => ForceReplaces
  BY Zenon DEF PeriodInv
<1>2. ClientInit => FlagsInv
  BY StoreAssumption DEF ClientInit, CollectorInit, FlagsInv, Times
<1> QED
  BY <1>1, <1>2, PeriodInit, PeriodStep, FlagsStep, ClientInitInv, ClientStepInv, PTL
     DEF ClientSpec

=============================================================================
