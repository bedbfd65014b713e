-------------------------- MODULE ProcessorProofs --------------------------
(***************************************************************************)
(* Proofs about the report processor: for any number of reports, workers,  *)
(* applications and faults, nothing the spool took in is dropped, and      *)
(* every second row and every misfiled report has its reason.              *)
(***************************************************************************)
EXTENDS Processor, FiniteSetTheorems, TLAPS

\* Where files and workers may be: every file a worker is about to read, or has
\* read, was stored, and so was every report that has a row.
FilesInv ==
    /\ stored \subseteq Reports
    /\ spool \subseteq stored
    /\ rows \in [Reports -> Nat]
    /\ pc \in [Workers -> PCs]
    /\ todo \in [Workers -> SUBSET stored]
    /\ cur \in [Workers -> Reports \cup {NoFile}]
    /\ \A w \in Workers : pc[w] \in Holding \cup {"read"} => cur[w] \in stored
    /\ \A r \in Reports : rows[r] > 0 => r \in stored

\* A report that has all the rows it should have.
Kept(r) ==
    /\ Uploadable(r) => rows[r] > 0
    /\ Verdict(r) # "ok" => Blank(r) \/ r \in invalid \cup unsaved

\* A report that may be filed as invalid: it is, or it could not be read.
Faulty(r) ==
    r \in unread \/ (Verdict(r) # "ok" /\ (Uploadable(r) => rows[r] > 0))

\* What a worker knows of its file, by its place in processFile.
Knows(w) ==
    /\ pc[w] \in {"insert", "inserted"} => Uploadable(cur[w])
    /\ pc[w] = "inserted" => rows[cur[w]] > 0
    /\ pc[w] = "reread" => cur[w] \notin spool \/ Faulty(cur[w])
    /\ pc[w] \in {"invalid", "insertedInvalid"} => Faulty(cur[w])
    /\ pc[w] = "insertedInvalid" => cur[w] \in invalid
    /\ pc[w] = "remove" =>
          cur[w] \notin spool \/ cur[w] \in unread \/ Kept(cur[w])

KnowsInv == \A w \in Workers : Knows(w)

Misfiled(r) == Verdict(r) # "ok" \/ r \in unread
MisfiledInv == \A r \in invalid : Misfiled(r)

\* The states in which a worker may have inserted its file.
Past == Holding \ {"insert"}

\* Without an excuse, the row of a file that still exists belongs to a worker
\* that has not removed the file yet; a worker about to insert finds no row;
\* and no two workers are about to insert the same file.
RowOK(r) ==
    /\ rows[r] < 2
    /\ rows[r] > 0 /\ r \in spool =>
          \E w \in Workers : cur[w] = r /\ pc[w] \in Past
    /\ \A w \in Workers : pc[w] = "insert" /\ cur[w] = r => rows[r] = 0
    /\ \A v, w \in Workers :
          /\ pc[v] = "insert" /\ cur[v] = r
          /\ pc[w] = "insert" /\ cur[w] = r
          => v = w

RowInv == \A r \in Reports \ excuse : RowOK(r)

ProcInv == FilesInv /\ KnowsInv /\ NothingDropped /\ MisfiledInv /\ RowInv

-----------------------------------------------------------------------------
\* The initial state satisfies the invariant.
LEMMA InitInv == ProcInit => ProcInv
<1> SUFFICES ASSUME ProcInit PROVE ProcInv
  OBVIOUS
<1>1. FilesInv
  BY DEF ProcInit, FilesInv, PCs, Holding
<1>2. KnowsInv
  BY Zenon DEF ProcInit, KnowsInv, Knows
<1>3. NothingDropped /\ MisfiledInv
  BY Zenon DEF ProcInit, NothingDropped, MisfiledInv
<1>4. RowInv
  BY DEF ProcInit, RowInv, RowOK
<1> QED
  BY <1>1, <1>2, <1>3, <1>4, Zenon DEF ProcInv

\* The tables and the histories only grow, and a file that left the spool does
\* not come back.
Growth ==
    /\ \A r \in Reports : rows'[r] >= rows[r]
    /\ rows' \in [Reports -> Nat]
    /\ unread \subseteq unread'
    /\ invalid \subseteq invalid'
    /\ unsaved \subseteq unsaved'
    /\ excuse \subseteq excuse'
    /\ spool' \cap stored \subseteq spool

\* What a worker knows survives the steps of all the others.
LEMMA KnowsFrame ==
    ASSUME FilesInv, Growth, NEW v \in Workers, Knows(v),
           pc'[v] = pc[v], cur'[v] = cur[v]
    PROVE  Knows(v)'
<1>1. CASE pc[v] \notin Holding
  BY <1>1, Zenon DEF Knows, Holding
<1>2. CASE pc[v] \in Holding
  <2>1. cur[v] \in stored /\ cur[v] \in Reports
    BY <1>2, Zenon DEF FilesInv
  <2>2. rows[cur[v]] > 0 => rows'[cur[v]] > 0
    BY <2>1 DEF Growth, FilesInv
  <2>3. cur[v] \notin spool => cur[v] \notin spool'
    BY <2>1, Zenon DEF Growth
  <2>4. cur[v] \in unread => cur[v] \in unread'
    BY Zenon DEF Growth
  <2>5. Faulty(cur[v]) => Faulty(cur[v])'
    BY <2>2, <2>4, Zenon DEF Faulty, Uploadable, Verdict
  <2>6. Kept(cur[v]) => Kept(cur[v])'
    BY <2>2, Zenon DEF Kept, Growth, Uploadable, Verdict, Blank
  <2>7. cur[v] \in invalid => cur[v] \in invalid'
    BY Zenon DEF Growth
  <2>8. Uploadable(cur[v]) => Uploadable(cur[v])'
    BY Zenon DEF Uploadable, Verdict
  <2> QED
    BY <2>2, <2>3, <2>4, <2>5, <2>6, <2>7, <2>8, Zenon DEF Knows
<1> QED
  BY <1>1, <1>2, Zenon

-----------------------------------------------------------------------------
\* Every step keeps files and workers where they may be, and lets the tables and
\* the histories grow.
LEMMA FilesStep ==
    ASSUME FilesInv, ProcNext
    PROVE  FilesInv' /\ Growth
<1> USE DEF FilesInv, Growth, disk, histories, Goto, PCs, Holding
<1>1. ASSUME NEW r \in Reports, StoreFile(r) PROVE FilesInv' /\ Growth
  BY <1>1 DEF StoreFile
<1>2. ASSUME NEW w \in Workers, List(w) PROVE FilesInv' /\ Growth
  BY <1>2 DEF List, GetJSONFiles
<1>3. ASSUME NEW w \in Workers, NextFile(w) PROVE FilesInv' /\ Growth
  BY <1>3 DEF NextFile, ReturnOf
<1>4. ASSUME NEW w \in Workers, Read(w) PROVE FilesInv' /\ Growth
  BY <1>4 DEF Read
<1>5. ASSUME NEW w \in Workers, Commit(w) PROVE FilesInv' /\ Growth
  BY <1>5 DEF Commit
<1>6. ASSUME NEW w \in Workers, UploadFails(w) PROVE FilesInv' /\ Growth
  BY <1>6 DEF UploadFails, Count
<1>7. ASSUME NEW w \in Workers, Uploaded(w) PROVE FilesInv' /\ Growth
  BY <1>7 DEF Uploaded, Count
<1>8. ASSUME NEW w \in Workers, Reread(w) PROVE FilesInv' /\ Growth
  BY <1>8 DEF Reread
<1>9. ASSUME NEW w \in Workers, CommitInvalid(w) PROVE FilesInv' /\ Growth
  BY <1>9 DEF CommitInvalid
<1>10. ASSUME NEW w \in Workers, InvalidFails(w) PROVE FilesInv' /\ Growth
  BY <1>10 DEF InvalidFails, Count
<1>11. ASSUME NEW w \in Workers, InvalidUploaded(w) PROVE FilesInv' /\ Growth
  BY <1>11 DEF InvalidUploaded, Count
<1>12. ASSUME NEW w \in Workers, RemoveFile(w) PROVE FilesInv' /\ Growth
  BY <1>12 DEF RemoveFile
<1>13. ASSUME NEW w \in Workers, Wake(w) PROVE FilesInv' /\ Growth
  BY <1>13 DEF Wake
<1>14. ASSUME NEW w \in Workers, Stop(w) PROVE FilesInv' /\ Growth
  BY <1>14 DEF Stop
<1>15. ASSUME NEW w \in Workers, Launch(w) PROVE FilesInv' /\ Growth
  BY <1>15 DEF Launch
<1>16. ASSUME NEW ws \in SUBSET Workers, Interrupt(ws) PROVE FilesInv' /\ Growth
  BY <1>16 DEF Interrupt
<1>17. ASSUME Killed PROVE FilesInv' /\ Growth
  BY <1>17 DEF Killed
<1> QED
  BY <1>1, <1>2, <1>3, <1>4, <1>5, <1>6, <1>7, <1>8, <1>9,
     <1>10, <1>11, <1>12, <1>13, <1>14, <1>15, <1>16, <1>17, Zenon DEF ProcNext, Step

\* A step that changes one worker keeps KnowsInv if that worker knows what it
\* should.
LEMMA OthersKnow ==
    ASSUME FilesInv, KnowsInv, Growth, NEW w \in Workers, Knows(w)',
           \A v \in Workers \ {w} : pc'[v] = pc[v] /\ cur'[v] = cur[v]
    PROVE  KnowsInv'
<1>1. ASSUME NEW v \in Workers PROVE Knows(v)'
  <2>1. CASE v = w
    BY <2>1, Zenon
  <2>2. CASE v # w
    BY <2>2, KnowsFrame, Zenon DEF KnowsInv
  <2> QED
    BY <2>1, <2>2, Zenon
<1> QED
  BY <1>1, Zenon DEF KnowsInv

\* A worker that holds no file knows nothing of it.
LEMMA NothingToKnow ==
    ASSUME NEW w \in Workers, pc'[w] \notin Holding
    PROVE  Knows(w)'
BY Zenon DEF Knows, Holding

\* Every step keeps what the workers know.
LEMMA KnowsStep ==
    ASSUME FilesInv, KnowsInv, ProcNext
    PROVE  KnowsInv'
<1>1. FilesInv' /\ Growth
  BY FilesStep, Zenon
<1>2. ASSUME NEW w \in Workers,
             List(w) \/ NextFile(w) \/ UploadFails(w) \/ RemoveFile(w)
                \/ Wake(w) \/ Stop(w) \/ Launch(w)
      PROVE  KnowsInv'
  <2>1. pc'[w] \notin Holding
    BY <1>2, Zenon DEF List, NextFile, UploadFails, RemoveFile, Wake, Stop, Launch, Goto,
                ReturnOf, Holding, FilesInv
  <2>2. \A v \in Workers \ {w} : pc'[v] = pc[v] /\ cur'[v] = cur[v]
    BY <1>2, Zenon DEF List, NextFile, UploadFails, RemoveFile, Wake, Stop, Launch, Goto,
                FilesInv
  <2> QED
    BY <1>1, <2>1, <2>2, NothingToKnow, OthersKnow, Zenon
<1>3. ASSUME NEW w \in Workers, Read(w) PROVE KnowsInv'
  <2>1. cur' = cur /\ rows' = rows /\ spool' = spool
    BY <1>3, Zenon DEF Read, disk
  <2>2. pc'[w] \in {"insert", "reread"}
    BY <1>3, Zenon DEF Read, Goto, FilesInv
  <2>3. pc'[w] = "insert" => Uploadable(cur[w])
    BY <1>3, Zenon DEF Read, Goto, FilesInv
  <2>4. pc'[w] = "reread" =>
           \/ cur[w] \notin spool
           \/ cur[w] \in unread'
           \/ ~Uploadable(cur[w])
    BY <1>3, Zenon DEF Read, Goto, FilesInv
  <2>5. Knows(w)'
    BY <2>1, <2>2, <2>3, <2>4, Zenon DEF Knows, Faulty, Uploadable, Verdict
  <2>6. \A v \in Workers \ {w} : pc'[v] = pc[v] /\ cur'[v] = cur[v]
    BY <1>3, Zenon DEF Read, Goto, FilesInv
  <2> QED
    BY <1>1, <2>5, <2>6, OthersKnow, Zenon
<1>4. ASSUME NEW w \in Workers, Commit(w) PROVE KnowsInv'
  <2>1. cur[w] \in Reports /\ Uploadable(cur[w])
    BY <1>4, Zenon DEF Commit, FilesInv, KnowsInv, Knows, Holding
  <2>2. pc'[w] = "inserted" /\ cur' = cur /\ rows'[cur[w]] > 0
    BY <1>4, <2>1 DEF Commit, Goto, FilesInv
  <2>3. Knows(w)'
    BY <2>1, <2>2, Zenon DEF Knows, Uploadable, Verdict
  <2>4. \A v \in Workers \ {w} : pc'[v] = pc[v] /\ cur'[v] = cur[v]
    BY <1>4, Zenon DEF Commit, Goto, FilesInv
  <2> QED
    BY <1>1, <2>3, <2>4, OthersKnow, Zenon
<1>5. ASSUME NEW w \in Workers, Uploaded(w) PROVE KnowsInv'
  <2>1. Uploadable(cur[w]) /\ rows[cur[w]] > 0
    BY <1>5, Zenon DEF Uploaded, KnowsInv, Knows
  <2>2. /\ cur' = cur /\ rows' = rows
        /\ pc'[w] = IF Verdict(cur[w]) = "ok" THEN "remove" ELSE "reread"
    BY <1>5, Zenon DEF Uploaded, Goto, FilesInv
  <2>3. Verdict(cur[w]) = "ok" => Kept(cur[w])'
    BY <2>1, <2>2, Zenon DEF Kept, Uploadable, Verdict
  <2>4. Verdict(cur[w]) # "ok" => Faulty(cur[w])'
    BY <2>1, <2>2, Zenon DEF Faulty, Uploadable, Verdict
  <2>5. Knows(w)'
    BY <2>2, <2>3, <2>4, Zenon DEF Knows
  <2>6. \A v \in Workers \ {w} : pc'[v] = pc[v] /\ cur'[v] = cur[v]
    BY <1>5, Zenon DEF Uploaded, Goto, FilesInv
  <2> QED
    BY <1>1, <2>5, <2>6, OthersKnow, Zenon
<1>6. ASSUME NEW w \in Workers, Reread(w) PROVE KnowsInv'
  <2>1. /\ cur' = cur /\ rows' = rows /\ spool' = spool
        /\ invalid' = invalid /\ unsaved' = unsaved
    BY <1>6, Zenon DEF Reread, disk
  <2>2. cur[w] \notin spool \/ Faulty(cur[w])
    BY <1>6, Zenon DEF Reread, KnowsInv, Knows
  <2>3. \/ /\ cur[w] \in spool /\ unread' = unread
           /\ pc'[w] = IF Blank(cur[w]) THEN "remove" ELSE "invalid"
        \/ /\ cur[w] \notin spool \/ cur[w] \in unread'
           /\ pc'[w] = "remove"
    BY <1>6, Zenon DEF Reread, Goto, FilesInv
  <2>4. Knows(w)'
    BY <2>1, <2>2, <2>3, Zenon DEF Knows, Faulty, Kept, Uploadable, Verdict, Blank
  <2>5. \A v \in Workers \ {w} : pc'[v] = pc[v] /\ cur'[v] = cur[v]
    BY <1>6, Zenon DEF Reread, Goto, FilesInv
  <2> QED
    BY <1>1, <2>4, <2>5, OthersKnow, Zenon
<1>7. ASSUME NEW w \in Workers, CommitInvalid(w) PROVE KnowsInv'
  <2>1. /\ cur' = cur /\ rows' = rows /\ unread' = unread
        /\ cur[w] \in invalid' /\ pc'[w] = "insertedInvalid"
    BY <1>7, Zenon DEF CommitInvalid, Goto, FilesInv, histories
  <2>2. Faulty(cur[w])
    BY <1>7, Zenon DEF CommitInvalid, KnowsInv, Knows
  <2>3. Knows(w)'
    BY <2>1, <2>2, Zenon DEF Knows, Faulty, Uploadable, Verdict
  <2>4. \A v \in Workers \ {w} : pc'[v] = pc[v] /\ cur'[v] = cur[v]
    BY <1>7, Zenon DEF CommitInvalid, Goto, FilesInv
  <2> QED
    BY <1>1, <2>3, <2>4, OthersKnow, Zenon
<1>8. ASSUME NEW w \in Workers, InvalidFails(w) \/ InvalidUploaded(w)
      PROVE  KnowsInv'
  <2>1. /\ cur' = cur /\ rows' = rows /\ unread' = unread /\ invalid' = invalid
        /\ pc'[w] = "remove"
    BY <1>8, Zenon DEF InvalidFails, InvalidUploaded, Goto, FilesInv, histories
  <2>2. Faulty(cur[w])
    BY <1>8, Zenon DEF InvalidFails, InvalidUploaded, KnowsInv, Knows
  <2>3. cur[w] \in invalid' \cup unsaved'
    BY <1>8, <2>1, Zenon DEF InvalidFails, InvalidUploaded, KnowsInv, Knows
  <2>4. Knows(w)'
    BY <2>1, <2>2, <2>3, Zenon DEF Knows, Faulty, Kept, Uploadable, Verdict
  <2>5. \A v \in Workers \ {w} : pc'[v] = pc[v] /\ cur'[v] = cur[v]
    BY <1>8, Zenon DEF InvalidFails, InvalidUploaded, Goto, FilesInv
  <2> QED
    BY <1>1, <2>4, <2>5, OthersKnow, Zenon
<1>9. ASSUME NEW r \in Reports, StoreFile(r) PROVE KnowsInv'
  <2>1. pc' = pc /\ cur' = cur
    BY <1>9, Zenon DEF StoreFile
  <2> QED
    BY <1>1, <2>1, KnowsFrame, Zenon DEF KnowsInv
<1>10. ASSUME NEW ws \in SUBSET Workers, Interrupt(ws) PROVE KnowsInv'
  <2>1. pc' = pc /\ cur' = cur
    BY <1>10, Zenon DEF Interrupt
  <2> QED
    BY <1>1, <2>1, KnowsFrame, Zenon DEF KnowsInv
<1>11. CASE Killed
  BY <1>11, Zenon DEF Killed, KnowsInv, Knows
<1> QED
  BY <1>2, <1>3, <1>4, <1>5, <1>6, <1>7, <1>8, <1>9, <1>10, <1>11, Zenon
     DEF ProcNext, Step

-----------------------------------------------------------------------------
\* A report leaves the spool only when it has all its rows or could not be read,
\* and what it has it keeps.
LEMMA DroppedStep ==
    ASSUME FilesInv, KnowsInv, NothingDropped, ProcNext
    PROVE  NothingDropped'
<1>1. FilesInv' /\ Growth
  BY FilesStep, Zenon
<1> SUFFICES ASSUME NEW r \in stored', r \notin spool', r \notin unread'
             PROVE  Kept(r)'
  BY Zenon DEF NothingDropped, Kept
<1>2. r \in Reports
  BY <1>1, Zenon DEF FilesInv
<1>3. ASSUME Kept(r) PROVE Kept(r)'
  <2>1. rows[r] > 0 => rows'[r] > 0
    BY <1>1, <1>2 DEF Growth, FilesInv
  <2> QED
    BY <1>1, <1>3, <2>1, Zenon DEF Kept, Growth, Uploadable, Verdict, Blank
<1>4. CASE \E s \in Reports : StoreFile(s)
  BY <1>1, <1>3, <1>4, Zenon DEF StoreFile, NothingDropped, Kept, Growth
<1>5. CASE \E w \in Workers : RemoveFile(w)
  <2>1. PICK w \in Workers : RemoveFile(w)
    BY <1>5, Zenon
  <2>2. CASE r \in spool
    <3>1. r = cur[w]
      BY <2>1, <2>2, Zenon DEF RemoveFile
    <3>2. r \in unread \/ Kept(r)
      BY <2>1, <2>2, <3>1, Zenon DEF RemoveFile, KnowsInv, Knows
    <3> QED
      BY <1>1, <1>3, <3>2, Zenon DEF Growth
  <2>3. CASE r \notin spool
    BY <1>1, <1>3, <2>1, <2>3, Zenon DEF RemoveFile, NothingDropped, Kept, Growth
  <2> QED
    BY <2>2, <2>3, Zenon
<1>6. CASE UNCHANGED disk
  BY <1>1, <1>3, <1>6, Zenon DEF disk, NothingDropped, Kept, Growth
<1>7. \/ \E s \in Reports : StoreFile(s)
      \/ \E w \in Workers : RemoveFile(w)
      \/ UNCHANGED disk
  BY Zenon DEF ProcNext, Step, List, NextFile, Read, Commit, UploadFails, Uploaded, Reread,
         CommitInvalid, InvalidFails, InvalidUploaded, Wake, Stop, Launch,
         Interrupt, Killed
<1> QED
  BY <1>4, <1>5, <1>6, <1>7, Zenon

\* A report is filed as invalid only if something is wrong with it or it could
\* not be read.
LEMMA MisfiledStep ==
    ASSUME FilesInv, KnowsInv, MisfiledInv, ProcNext
    PROVE  MisfiledInv'
<1>1. Growth
  BY FilesStep, Zenon
<1>2. ASSUME NEW r, Misfiled(r) PROVE Misfiled(r)'
  BY <1>1, <1>2, Zenon DEF Misfiled, Growth, Verdict
<1>3. CASE \E w \in Workers : CommitInvalid(w)
  <2>1. PICK w \in Workers : CommitInvalid(w)
    BY <1>3, Zenon
  <2>2. invalid' = invalid \cup {cur[w]}
    BY <2>1, Zenon DEF CommitInvalid
  <2>3. Misfiled(cur[w])
    BY <2>1, Zenon DEF CommitInvalid, KnowsInv, Knows, Faulty, Misfiled
  <2> QED
    BY <1>2, <2>2, <2>3, Zenon DEF MisfiledInv
<1>4. CASE UNCHANGED invalid
  BY <1>2, <1>4, Zenon DEF MisfiledInv
<1>5. (\E w \in Workers : CommitInvalid(w)) \/ UNCHANGED invalid
  BY Zenon DEF ProcNext, Step, List, NextFile, Read, Commit, UploadFails, Uploaded, Reread,
         InvalidFails, InvalidUploaded, RemoveFile, Wake, Stop, Launch, StoreFile,
         Interrupt, Killed
<1> QED
  BY <1>3, <1>4, <1>5, Zenon

-----------------------------------------------------------------------------
\* Without an excuse a report gets no second row.
LEMMA RowStep ==
    ASSUME FilesInv, RowInv, ProcNext
    PROVE  RowInv'
<1>1. FilesInv' /\ Growth
  BY FilesStep, Zenon
<1> SUFFICES ASSUME NEW r \in Reports, r \notin excuse' PROVE RowOK(r)'
  BY Zenon DEF RowInv
<1>2. r \notin excuse /\ RowOK(r)
  BY <1>1, Zenon DEF RowInv, Growth
<1>3. ASSUME NEW w \in Workers, List(w) \/ NextFile(w) \/ Wake(w) \/ Stop(w) \/ Launch(w)
      PROVE  RowOK(r)'
  <2>1. rows' = rows /\ spool' = spool
    BY <1>3, Zenon DEF List, NextFile, Wake, Stop, Launch, disk
  <2>2. pc[w] \notin Holding /\ pc'[w] \notin Holding
    BY <1>3, Zenon DEF List, NextFile, Wake, Stop, Launch, Goto, ReturnOf, Holding, FilesInv
  <2>3. \A v \in Workers \ {w} : pc'[v] = pc[v] /\ cur'[v] = cur[v]
    BY <1>3, Zenon DEF List, NextFile, Wake, Stop, Launch, Goto, FilesInv
  <2> QED
    BY <1>2, <2>1, <2>2, <2>3 DEF RowOK, Past, Holding
<1>4. ASSUME NEW w \in Workers, Read(w) PROVE RowOK(r)'
  <2>1. rows' = rows /\ spool' = spool /\ cur' = cur
    BY <1>4, Zenon DEF Read, disk
  <2>2. pc[w] = "read" /\ pc'[w] \in {"insert", "reread"}
    BY <1>4, Zenon DEF Read, Goto, FilesInv
  <2>3. \A v \in Workers \ {w} : pc'[v] = pc[v]
    BY <1>4, Zenon DEF Read, Goto, FilesInv
  <2>4. pc'[w] = "insert" /\ cur[w] = r =>
           /\ r \in spool
           /\ \A v \in Workers \ {w} : ~(cur[v] = r /\ pc[v] \in Holding)
    BY <1>4, Zenon DEF Read, Goto, FilesInv
  <2>5. pc'[w] = "insert" /\ cur[w] = r => rows[r] = 0
    BY <1>2, <2>2, <2>4 DEF RowOK, Past, Holding, FilesInv
  <2> QED
    BY <1>2, <2>1, <2>2, <2>3, <2>4, <2>5 DEF RowOK, Past, Holding
<1>5. ASSUME NEW w \in Workers, Commit(w) PROVE RowOK(r)'
  <2>1. /\ spool' = spool /\ cur' = cur /\ cur[w] \in Reports
        /\ pc[w] = "insert" /\ pc'[w] = "inserted"
        /\ rows' = [rows EXCEPT ![cur[w]] = @ + 1]
    BY <1>5, Zenon DEF Commit, Goto, FilesInv, disk, Holding
  <2>2. \A v \in Workers \ {w} : pc'[v] = pc[v]
    BY <1>5, Zenon DEF Commit, Goto, FilesInv
  <2>3. CASE cur[w] = r
    <3>1. rows'[r] = 1
      BY <1>2, <2>1, <2>3 DEF RowOK, FilesInv
    <3>2. \A v \in Workers \ {w} : ~(pc[v] = "insert" /\ cur[v] = r)
      BY <1>2, <2>1, <2>3, Zenon DEF RowOK
    <3> QED
      BY <2>1, <2>2, <2>3, <3>1, <3>2 DEF RowOK, Past, Holding
  <2>4. CASE cur[w] # r
    <3>1. rows'[r] = rows[r]
      BY <2>1, <2>4, Zenon DEF FilesInv
    <3> QED
      BY <1>2, <2>1, <2>2, <2>4, <3>1 DEF RowOK, Past, Holding
  <2> QED
    BY <2>3, <2>4, Zenon
<1>6. ASSUME NEW w \in Workers, UploadFails(w) PROVE RowOK(r)'
  <2>1. /\ rows' = rows /\ spool' = spool /\ cur' = cur
        /\ pc[w] \in {"insert", "inserted"} /\ pc'[w] = "files"
    BY <1>6, Zenon DEF UploadFails, Goto, FilesInv, disk
  <2>2. \A v \in Workers \ {w} : pc'[v] = pc[v]
    BY <1>6, Zenon DEF UploadFails, Goto, FilesInv
  <2>3. pc[w] = "insert" \/ cur[w] # r
    BY <1>6, Zenon DEF UploadFails
  <2> QED
    BY <1>2, <2>1, <2>2, <2>3, Zenon DEF RowOK, Past, Holding
<1>7. ASSUME NEW w \in Workers,
             Uploaded(w) \/ Reread(w) \/ CommitInvalid(w) \/ InvalidFails(w)
                \/ InvalidUploaded(w)
      PROVE  RowOK(r)'
  <2>1. rows' = rows /\ spool' = spool /\ cur' = cur
    BY <1>7, Zenon DEF Uploaded, Reread, CommitInvalid, InvalidFails, InvalidUploaded, disk
  <2>2. pc[w] \in Past /\ pc'[w] \in Past
    BY <1>7, Zenon DEF Uploaded, Reread, CommitInvalid, InvalidFails, InvalidUploaded, Goto,
                FilesInv, Past, Holding
  <2>3. \A v \in Workers \ {w} : pc'[v] = pc[v]
    BY <1>7, Zenon DEF Uploaded, Reread, CommitInvalid, InvalidFails, InvalidUploaded, Goto,
                FilesInv
  <2> QED
    BY <1>2, <2>1, <2>2, <2>3, Zenon DEF RowOK, Past, Holding
<1>8. ASSUME NEW w \in Workers, RemoveFile(w) PROVE RowOK(r)'
  <2>1. /\ rows' = rows /\ cur' = cur
        /\ pc[w] = "remove" /\ pc'[w] = "files"
    BY <1>8, Zenon DEF RemoveFile, Goto, FilesInv
  <2>2. \A v \in Workers \ {w} : pc'[v] = pc[v]
    BY <1>8, Zenon DEF RemoveFile, Goto, FilesInv
  <2>3. r \in spool' => r \in spool /\ cur[w] # r
    BY <1>8, Zenon DEF RemoveFile
  <2> QED
    BY <1>2, <2>1, <2>2, <2>3, Zenon DEF RowOK, Past, Holding
<1>9. ASSUME NEW s \in Reports, StoreFile(s) PROVE RowOK(r)'
  <2>1. rows' = rows /\ pc' = pc /\ cur' = cur
    BY <1>9, Zenon DEF StoreFile
  <2>2. rows[r] > 0 /\ r \in spool' => r \in spool
    BY <1>9, Zenon DEF StoreFile, FilesInv
  <2> QED
    BY <1>2, <2>1, <2>2, Zenon DEF RowOK
<1>10. ASSUME NEW ws \in SUBSET Workers, Interrupt(ws) PROVE RowOK(r)'
  BY <1>2, <1>10, Zenon DEF Interrupt, RowOK, disk
<1>11. CASE Killed
  <2>1. \A w \in Workers : pc[w] \in Holding => cur[w] # r
    BY <1>11, Zenon DEF Killed
  <2>2. rows' = rows /\ spool' = spool /\ \A w \in Workers : pc'[w] = "idle"
    BY <1>11, Zenon DEF Killed, disk
  <2> QED
    BY <1>2, <2>1, <2>2, Zenon DEF RowOK, Past
<1> QED
  BY <1>3, <1>4, <1>5, <1>6, <1>7, <1>8, <1>9, <1>10, <1>11, Zenon DEF ProcNext, Step

-----------------------------------------------------------------------------
\* The invariant is inductive.
LEMMA StepInv == ProcInv /\ [ProcNext]_proc => ProcInv'
<1> SUFFICES ASSUME ProcInv, [ProcNext]_proc PROVE ProcInv'
  OBVIOUS
<1>1. CASE ProcNext
  BY <1>1, FilesStep, KnowsStep, DroppedStep, MisfiledStep, RowStep, Zenon DEF ProcInv
<1>2. CASE UNCHANGED proc
  <2>1. FilesInv'
    BY <1>2, Zenon DEF ProcInv, FilesInv, proc
  <2>2. KnowsInv'
    BY <1>2, Zenon DEF ProcInv, KnowsInv, Knows, Faulty, Kept, Uploadable, Verdict, Blank, proc
  <2>3. NothingDropped' /\ MisfiledInv'
    BY <1>2, Zenon DEF ProcInv, NothingDropped, MisfiledInv, Misfiled, Uploadable, Verdict,
                Blank, proc
  <2>4. RowInv'
    BY <1>2 DEF ProcInv, RowInv, RowOK, proc
  <2> QED
    BY <2>1, <2>2, <2>3, <2>4, Zenon DEF ProcInv
<1> QED
  BY <1>1, <1>2, Zenon

\* The invariant says what the rows are good for.
LEMMA InvRows == ProcInv => RowsExplained
<1> SUFFICES ASSUME ProcInv PROVE RowsExplained
  OBVIOUS
<1>1. ASSUME NEW r \in Reports, rows[r] > 1 PROVE r \in excuse
  <2>1. rows[r] \in Nat
    BY Zenon DEF ProcInv, FilesInv
  <2> QED
    BY <1>1, <2>1 DEF ProcInv, RowInv, RowOK
<1> QED
  BY <1>1, Zenon DEF RowsExplained, ProcInv, MisfiledInv, Misfiled

\* Nothing the spool took in leaves it unrecorded, for any number of reports,
\* workers and applications and any faults: processFile removes a file only when
\* its rows are there, when it could not be read, or when the insert of an
\* invalid report failed (processor.go:220-261).
THEOREM RecordsEverything == ProcSpec => []NothingDropped
<1>1. ProcInv => NothingDropped
  BY Zenon DEF ProcInv
<1> QED
  BY <1>1, InitInv, StepInv, PTL DEF ProcSpec

\* Every second row and every misfiled report has its reason, for any number of
\* reports, workers and applications: without a lost answer, a failing removal, a
\* crash or two workers that read the same file there is one row
\* (processor.go:220-252, workers.go:126).
THEOREM RowsHaveReasons == ProcSpec => []RowsExplained
  BY InitInv, StepInv, InvRows, PTL DEF ProcSpec

-----------------------------------------------------------------------------
(***************************************************************************)
(* Types.  The one that needs an argument is the bound on attemptCount: a  *)
(* call of Process makes at most two inserts per file it listed, so the    *)
(* counter and what the files at hand may still add to it stay together    *)
(* below twice the number of reports.                                      *)
(***************************************************************************)
\* The inserts a worker may still make for the file in processFile.
Owing(w) ==
    IF pc[w] \in {"read", "insert", "inserted"} THEN 2
    ELSE IF pc[w] \in {"reread", "invalid", "insertedInvalid"} THEN 1
    ELSE 0

CountOK(w) ==
    /\ failures[w] <= attempts[w]
    /\ attempts[w] <= 2 * Cardinality(Reports)
    /\ pc[w] \in Holding \cup {"files", "read"} =>
          attempts[w] + Owing(w) + 2 * Cardinality(todo[w])
              <= 2 * Cardinality(Reports)

CountInv ==
    /\ attempts \in [Workers -> Nat]
    /\ failures \in [Workers -> Nat]
    /\ \A w \in Workers : CountOK(w)

\* The sets and the bound on the rows.
SetsInv ==
    /\ rows \in [Reports -> 0 .. MaxRows]
    /\ invalid \subseteq Reports
    /\ ctxDone \subseteq Workers
    /\ unread \subseteq Reports
    /\ unsaved \subseteq Reports
    /\ excuse \subseteq Reports

TypeInv == FilesInv /\ CountInv /\ SetsInv

LEMMA TypeInvInit == ProcInit => TypeInv
<1> SUFFICES ASSUME ProcInit PROVE TypeInv
  OBVIOUS
<1>1. FilesInv /\ SetsInv
  BY InitInv, ProcessorAssumption DEF ProcInv, SetsInv, ProcInit
<1>2. Cardinality(Reports) \in Nat
  BY ProcessorAssumption, FS_CardinalityType, Zenon
<1>3. CountInv
  BY <1>2 DEF CountInv, CountOK, ProcInit, Holding
<1> QED
  BY <1>1, <1>3, Zenon DEF TypeInv

LEMMA TypeInvTypes == TypeInv => ProcTypeOK
<1> SUFFICES ASSUME TypeInv PROVE ProcTypeOK
  OBVIOUS
<1>1. Cardinality(Reports) \in Nat
  BY ProcessorAssumption, FS_CardinalityType, Zenon
<1>2. attempts \in [Workers -> 0 .. 2 * Cardinality(Reports)]
  <2>1. \A w \in Workers : attempts[w] \in 0 .. 2 * Cardinality(Reports)
    BY <1>1 DEF TypeInv, CountInv, CountOK
  <2> QED
    BY <2>1, Zenon DEF TypeInv, CountInv
<1>3. \A w \in Workers : failures[w] \in 0 .. attempts[w]
  BY DEF TypeInv, CountInv, CountOK
<1> QED
  BY <1>2, <1>3, Zenon DEF TypeInv, FilesInv, SetsInv, ProcTypeOK

\* The lists of files are finite.
LEMMA TodoFinite ==
    ASSUME FilesInv, NEW w \in Workers
    PROVE  /\ IsFiniteSet(todo[w])
           /\ Cardinality(todo[w]) \in Nat
           /\ \A r \in todo[w] : Cardinality(todo[w] \ {r}) = Cardinality(todo[w]) - 1
<1>1. todo[w] \in SUBSET Reports /\ IsFiniteSet(Reports)
  BY ProcessorAssumption, Zenon DEF FilesInv
<1>2. IsFiniteSet(todo[w])
  BY <1>1, FS_Subset, Zenon
<1>3. ASSUME NEW r \in todo[w]
      PROVE  Cardinality(todo[w] \ {r}) = Cardinality(todo[w]) - 1
  BY <1>2, FS_RemoveElement, Zenon
<1> QED
  BY <1>2, <1>3, FS_CardinalityType, Zenon

\* A step that changes the counters of one worker keeps CountInv if its new ones
\* are right.
LEMMA OthersCount ==
    ASSUME CountInv, NEW w \in Workers,
           attempts' \in [Workers -> Nat], failures' \in [Workers -> Nat],
           CountOK(w)',
           \A v \in Workers \ {w} :
              /\ pc'[v] = pc[v] /\ todo'[v] = todo[v]
              /\ attempts'[v] = attempts[v] /\ failures'[v] = failures[v]
    PROVE  CountInv'
  BY Zenon DEF CountInv, CountOK, Owing

\* The counters stay right: an attempt that is counted was owed.
LEMMA CountStep ==
    ASSUME FilesInv, CountInv, NEW w \in Workers, Step(w)
    PROVE  CountInv'
<1> DEFINE N == Cardinality(Reports)
           T == Cardinality(todo[w])
<1>1. N \in Nat /\ T \in Nat /\ \A r \in todo[w] : Cardinality(todo[w] \ {r}) = T - 1
  BY TodoFinite, ProcessorAssumption, FS_CardinalityType, Zenon
<1> HIDE DEF N, T
<1>2. attempts[w] \in Nat /\ failures[w] \in Nat /\ attempts[w] <= 2 * N
      /\ failures[w] <= attempts[w]
      /\ (pc[w] \in Holding \cup {"files", "read"} =>
             attempts[w] + Owing(w) + 2 * T <= 2 * N)
  BY Zenon DEF CountInv, CountOK, N, T
<1>3. CASE List(w)
  <2>1. attempts' = [attempts EXCEPT ![w] = 0] /\ failures' = [failures EXCEPT ![w] = 0]
    BY <1>3, Zenon DEF List
  <2>2. pc'[w] \in {"files", "sleep"} /\ \A v \in Workers \ {w} :
           pc'[v] = pc[v] /\ todo'[v] = todo[v]
    BY <1>3, Zenon DEF List, Goto, FilesInv
  <2>3. pc'[w] = "files" => todo'[w] \in SUBSET Reports
    BY <1>3 DEF List, Goto, FilesInv, GetJSONFiles
  <2>4. pc'[w] = "files" => Cardinality(todo'[w]) \in Nat /\ Cardinality(todo'[w]) <= N
    BY <2>3, FS_Subset, FS_CardinalityType, ProcessorAssumption, Zenon DEF N
  <2>5. CountOK(w)'
    BY <1>1, <2>1, <2>2, <2>4 DEF CountOK, Owing, Holding, N, CountInv
  <2> QED
    BY <2>1, <2>2, <2>5, OthersCount, Zenon DEF CountInv
<1>4. CASE NextFile(w)
  <2>1. UNCHANGED <<attempts, failures>>
    BY <1>4, Zenon DEF NextFile
  <2>2. \A v \in Workers \ {w} : pc'[v] = pc[v] /\ todo'[v] = todo[v]
    BY <1>4, Zenon DEF NextFile, Goto, FilesInv
  <2>3. \/ pc'[w] \in {"loop", "sleep"}
        \/ pc'[w] = "read" /\ \E r \in todo[w] : todo'[w] = todo[w] \ {r}
    BY <1>4, Zenon DEF NextFile, Goto, FilesInv, ReturnOf
  <2>4. pc[w] = "files" /\ Owing(w) = 0
    BY <1>4, Zenon DEF NextFile, Owing
  <2>5. CountOK(w)'
    BY <1>1, <1>2, <2>1, <2>3, <2>4 DEF CountOK, Owing, Holding, N
  <2> QED
    BY <2>1, <2>2, <2>5, OthersCount, Zenon DEF CountInv
<1>5. CASE Read(w) \/ Reread(w) \/ Commit(w) \/ CommitInvalid(w) \/ RemoveFile(w)
           \/ Wake(w) \/ Stop(w)
  <2>1. UNCHANGED <<attempts, failures, todo>>
    BY <1>5, Zenon DEF Read, Reread, Commit, CommitInvalid, RemoveFile, Wake, Stop
  <2>2. \A v \in Workers \ {w} : pc'[v] = pc[v]
    BY <1>5, Zenon DEF Read, Reread, Commit, CommitInvalid, RemoveFile, Wake, Stop, Goto, FilesInv
  <2>3. /\ pc'[w] \in Holding \cup {"files", "read"} =>
             pc[w] \in Holding \cup {"files", "read"}
        /\ Owing(w)' <= Owing(w)
    BY <1>5 DEF Read, Reread, Commit, CommitInvalid, RemoveFile, Wake, Stop, Goto,
                FilesInv, Owing, Holding
  <2>4. Owing(w) \in Nat /\ Owing(w)' \in Nat
    BY Zenon DEF Owing
  <2>5. CountOK(w)'
    BY <1>1, <1>2, <2>1, <2>3, <2>4, SMTT(20) DEF CountOK, N, T
  <2> QED
    BY <2>1, <2>2, <2>5, OthersCount, Zenon DEF CountInv
<1>6. CASE UploadFails(w) \/ Uploaded(w) \/ InvalidFails(w) \/ InvalidUploaded(w)
  <2>1. UNCHANGED todo /\ \E f \in {0, 1} : Count(w, 1, f)
    BY <1>6, Zenon DEF UploadFails, Uploaded, InvalidFails, InvalidUploaded
  <2>2. /\ attempts' \in [Workers -> Nat] /\ failures' \in [Workers -> Nat]
        /\ attempts'[w] = attempts[w] + 1
        /\ failures'[w] \in {failures[w], failures[w] + 1}
        /\ \A v \in Workers \ {w} : attempts'[v] = attempts[v] /\ failures'[v] = failures[v]
    BY <2>1 DEF Count, CountInv
  <2>3. \A v \in Workers \ {w} : pc'[v] = pc[v]
    BY <1>6, Zenon DEF UploadFails, Uploaded, InvalidFails, InvalidUploaded, Goto, FilesInv
  <2>4. pc[w] \in Holding /\ Owing(w)' + 1 <= Owing(w)
    BY <1>6 DEF UploadFails, Uploaded, InvalidFails, InvalidUploaded, Goto, FilesInv,
                Owing, Holding
  <2>5. Owing(w) \in Nat /\ Owing(w)' \in Nat
    BY Zenon DEF Owing
  <2>6. attempts[w] + Owing(w) + 2 * T <= 2 * N
    BY <1>2, <2>4, Zenon
  <2>7. attempts'[w] + Owing(w)' + 2 * T <= 2 * N
    BY <1>1, <1>2, <2>2, <2>4, <2>5, <2>6
  <2>8. CountOK(w)'
    BY <1>1, <1>2, <2>1, <2>2, <2>5, <2>7 DEF CountOK, N, T
  <2> QED
    BY <2>1, <2>2, <2>3, <2>8, OthersCount, Zenon
<1> QED
  BY <1>3, <1>4, <1>5, <1>6, Zenon DEF Step

\* The sets keep to the reports and the workers.
LEMMA SetsStep ==
    ASSUME FilesInv, SetsInv, NEW w \in Workers, Step(w)
    PROVE  SetsInv'
<1> USE DEF SetsInv
<1>1. pc[w] \in Holding \cup {"read"} => cur[w] \in Reports
  BY Zenon DEF FilesInv
<1>2. CASE List(w) \/ NextFile(w) \/ Uploaded(w) \/ InvalidUploaded(w) \/ Wake(w)
  BY <1>2, Zenon DEF List, NextFile, Uploaded, InvalidUploaded, Wake, histories
<1>3. CASE Read(w)
  BY <1>1, <1>3, Zenon DEF Read, histories, FilesInv
<1>4. CASE Commit(w)
  <2>1. cur[w] \in Reports /\ rows[cur[w]] < MaxRows
    BY <1>1, <1>4, Zenon DEF Commit, Holding
  <2>2. rows[cur[w]] + 1 \in 0 .. MaxRows
    BY <2>1, ProcessorAssumption
  <2>3. rows' = [rows EXCEPT ![cur[w]] = rows[cur[w]] + 1]
    BY <1>4, Zenon DEF Commit
  <2> QED
    BY <1>4, <2>2, <2>3, Zenon DEF Commit, histories
<1>5. CASE UploadFails(w)
  BY <1>1, <1>5, Zenon DEF UploadFails, Holding
<1>6. CASE Reread(w)
  BY <1>1, <1>6, Zenon DEF Reread, Holding
<1>7. CASE CommitInvalid(w)
  BY <1>1, <1>7, Zenon DEF CommitInvalid, histories, Holding
<1>8. CASE InvalidFails(w)
  BY <1>1, <1>8, Zenon DEF InvalidFails, Holding
<1>9. CASE RemoveFile(w)
  BY <1>1, <1>9, Zenon DEF RemoveFile, Holding
<1>10. CASE Stop(w)
  BY <1>10, Zenon DEF Stop, histories
<1> QED
  BY <1>2, <1>3, <1>4, <1>5, <1>6, <1>7, <1>8, <1>9, <1>10, Zenon DEF Step

LEMMA TypeInvStep == TypeInv /\ [ProcNext]_proc => TypeInv'
<1> SUFFICES ASSUME TypeInv, [ProcNext]_proc PROVE TypeInv'
  OBVIOUS
<1>1. FilesInv'
  <2>1. CASE UNCHANGED proc
    BY <2>1, Zenon DEF TypeInv, FilesInv, proc
  <2> QED
    BY <2>1, FilesStep, Zenon DEF TypeInv
<1>2. ASSUME NEW w \in Workers, Step(w) PROVE CountInv' /\ SetsInv'
  BY <1>2, CountStep, SetsStep, Zenon DEF TypeInv
<1>3. ASSUME NEW w \in Workers, Launch(w) PROVE CountInv' /\ SetsInv'
  <2>1. UNCHANGED <<todo, attempts, failures>> /\ pc'[w] = "loop"
        /\ \A v \in Workers \ {w} : pc'[v] = pc[v]
    BY <1>3, Zenon DEF Launch, Goto, TypeInv, FilesInv
  <2>2. CountOK(w)'
    BY <2>1, Zenon DEF CountOK, Holding, TypeInv, CountInv
  <2>3. CountInv'
    BY <2>1, <2>2, OthersCount, Zenon DEF TypeInv, CountInv
  <2> QED
    BY <1>3, <2>3, Zenon DEF Launch, TypeInv, SetsInv, histories
<1>4. ASSUME NEW ws \in SUBSET Workers, Interrupt(ws) PROVE CountInv' /\ SetsInv'
  BY <1>4, Zenon DEF Interrupt, TypeInv, CountInv, CountOK, Owing, SetsInv, histories
<1>5. CASE \E r \in Reports : StoreFile(r)
  BY <1>1, <1>5, Zenon DEF StoreFile, TypeInv, CountInv, CountOK, Owing, SetsInv, histories
<1>6. CASE Killed
  <2>1. excuse' \subseteq Reports
    BY <1>6, Zenon DEF Killed, TypeInv, SetsInv, FilesInv
  <2>2. Cardinality(Reports) \in Nat
    BY ProcessorAssumption, FS_CardinalityType, Zenon
  <2>3. CountInv'
    BY <1>6, <2>2 DEF Killed, CountInv, CountOK, Holding
  <2> QED
    BY <1>1, <1>6, <2>1, <2>3, Zenon DEF Killed, TypeInv, SetsInv
<1>7. CASE UNCHANGED proc
  BY <1>1, <1>7, Zenon DEF proc, TypeInv, CountInv, CountOK, Owing, SetsInv
<1> QED
  BY <1>1, <1>2, <1>3, <1>4, <1>5, <1>6, <1>7, Zenon DEF ProcNext, TypeInv

\* The variables of the processor keep their types, under any owner; above all,
\* however many files fail in whatever way, a call of Process counts at most two
\* attempts per report, and no failure without an attempt, so that the share of
\* failures its deferred function looks at never exceeds one
\* (processor.go:160-182, 214-260).
THEOREM ProcessorTypes == ProcSpec => []ProcTypeOK
  BY TypeInvInit, TypeInvStep, TypeInvTypes, PTL DEF ProcSpec

=============================================================================
