--------------------------- MODULE LibraryProofs ---------------------------
(***************************************************************************)
(* What the client promises its callers, for any number of sources, calls, *)
(* threads and timestamps: a call tells what it did, no file changes but   *)
(* as it may, the operations on a directory of reports are exact in the    *)
(* arithmetic of machine words, and the C library hands every report out   *)
(* once.                                                                   *)
(***************************************************************************)
EXTENDS Library, FiniteSetTheorems, TLAPS

-----------------------------------------------------------------------------
(***************************************************************************)
(* The C side of the library.                                              *)
(***************************************************************************)
\* The pointer of a call that has returned with a report or an error in it was
\* set by that call.  And as long as the callback is the one the call found, its
\* logger is the one for it.
CallInv(t) ==
    /\ at[t] = "back" /\ want[t] => out[t] # "dangling"
    /\ at[t] \in {"check", "call"} => logger[t] = "callback"
    /\ since[t] <= sets
    /\ at[t] # "idle" /\ since[t] = sets => logger[t] = C!ChosenLogger

CInv ==
    /\ C!CTypeOK /\ CLibraryRight /\ twiceFreed \in BOOLEAN
    /\ \A t \in Threads : CallInv(t)

\* Nothing has been logged or freed at first.
LEMMA CInitInv == ASSUME C!CInit PROVE CInv
<1>1. C!CTypeOK
  BY LibraryAssumption DEF C!CInit, C!CTypeOK, C!Null
<1>2. CLibraryRight /\ twiceFreed \in BOOLEAN
  BY Zenon DEF C!CInit, CLibraryRight, C!FreedOnce, C!MessagesReachCallback
<1>3. ASSUME NEW t \in Threads PROVE CallInv(t)
  BY DEF C!CInit, CallInv
<1> QED
  BY <1>1, <1>2, <1>3, Zenon DEF CInv

\* A change of the callback leaves the calls that began before it behind.
LEMMA SetKeepsC ==
    ASSUME CInv, NEW cb \in Callbacks \cup {C!Null}, C!SetLogCallback(cb)
    PROVE  CInv'
<1>1. sets \in Nat /\ MaxSets \in Nat /\ sets' = sets + 1
  BY LibraryAssumption DEF CInv, C!CTypeOK, C!SetLogCallback
<1>2. C!CTypeOK' /\ CLibraryRight' /\ (twiceFreed \in BOOLEAN)'
  BY <1>1 DEF CInv, C!CTypeOK, C!SetLogCallback, C!call, CLibraryRight, C!FreedOnce,
              C!MessagesReachCallback
<1>3. ASSUME NEW t \in Threads PROVE CallInv(t)'
  <2>1. since[t] \in Nat /\ since[t] <= sets
    BY LibraryAssumption DEF CInv, C!CTypeOK, CallInv
  <2> QED
    BY <1>1, <2>1 DEF CInv, CallInv, C!SetLogCallback, C!call
<1> QED
  BY <1>2, <1>3, Zenon DEF CInv

\* A step of one thread: the other calls see nothing of it.
LEMMA ThreadKeepsC ==
    ASSUME CInv, NEW t \in Threads, C!Thread(t)
    PROVE  CInv'
<1>0. /\ C!CTypeOK /\ missed = {} /\ ~twiceFreed /\ twiceFreed \in BOOLEAN
      /\ \A r \in Threads : CallInv(r)
  BY Zenon DEF CInv, CLibraryRight, C!FreedOnce, C!MessagesReachCallback
<1>1. UNCHANGED <<callback, sets>>
  BY Zenon DEF C!Thread, C!Enter, C!Log, C!Check, C!Invoke, C!Leave, C!Free
<1>2. ASSUME NEW r \in Threads, r # t
      PROVE  /\ at'[r] = at[r] /\ logger'[r] = logger[r] /\ since'[r] = since[r]
             /\ want'[r] = want[r] /\ out'[r] = out[r] /\ err'[r] = err[r]
  BY <1>0, <1>2 DEF C!CTypeOK, C!Goto, C!Thread, C!Enter, C!Log, C!Check, C!Invoke,
     C!Leave, C!Free
<1>3. ASSUME C!CTypeOK', missed' = {}, ~twiceFreed', (twiceFreed \in BOOLEAN)', CallInv(t)'
      PROVE  CInv'
  <2>1. ASSUME NEW r \in Threads, r # t PROVE CallInv(r)'
    BY <1>0, <1>1, <1>2, <2>1, Zenon DEF CallInv, C!ChosenLogger
  <2> QED
    BY <1>3, <2>1, Zenon DEF CInv, CLibraryRight, C!FreedOnce, C!MessagesReachCallback
<1>4. CASE C!Enter(t)
  <2>1. C!CTypeOK'
    BY <1>0, <1>4, LibraryAssumption DEF C!CTypeOK, C!Enter, C!Goto, C!ChosenLogger
  <2>2. missed' = {} /\ ~twiceFreed' /\ (twiceFreed \in BOOLEAN)'
    BY <1>0, <1>4, Zenon DEF C!Enter
  <2>3. sets <= sets
    BY <1>0, LibraryAssumption DEF C!CTypeOK
  <2>4. CallInv(t)'
    BY <1>0, <1>1, <1>4, <2>3, Zenon DEF C!CTypeOK, C!Enter, C!Goto, C!ChosenLogger, CallInv
  <2> QED
    BY <1>3, <2>1, <2>2, <2>4, Zenon
<1>5. CASE C!Log(t)
  <2>1. C!CTypeOK'
    BY <1>0, <1>5, LibraryAssumption DEF C!CTypeOK, C!Log, C!Goto
  <2>2. missed' = {} /\ ~twiceFreed' /\ (twiceFreed \in BOOLEAN)'
    BY <1>0, <1>5, Zenon DEF C!Log, CallInv, C!ChosenLogger
  <2>3. CallInv(t)'
    BY <1>0, <1>1, <1>5, Zenon DEF C!CTypeOK, C!Log, C!Goto, C!ChosenLogger, CallInv
  <2> QED
    BY <1>3, <2>1, <2>2, <2>3, Zenon
<1>6. CASE C!Check(t)
  <2>1. C!CTypeOK'
    BY <1>0, <1>6, Zenon DEF C!CTypeOK, C!Check, C!Goto
  <2>2. missed' = {} /\ ~twiceFreed' /\ (twiceFreed \in BOOLEAN)'
    BY <1>0, <1>6, Zenon DEF C!Check, CallInv, C!ChosenLogger
  <2>3. CallInv(t)'
    BY <1>0, <1>1, <1>6, Zenon DEF C!CTypeOK, C!Check, C!Goto, C!ChosenLogger, CallInv
  <2> QED
    BY <1>3, <2>1, <2>2, <2>3, Zenon
<1>7. CASE C!Invoke(t)
  <2>1. C!CTypeOK'
    BY <1>0, <1>7, Zenon DEF C!CTypeOK, C!Invoke, C!Goto
  <2>2. missed' = {} /\ ~twiceFreed' /\ (twiceFreed \in BOOLEAN)'
    BY <1>0, <1>7, Zenon DEF C!Invoke
  <2>3. CallInv(t)'
    BY <1>0, <1>1, <1>7, Zenon DEF C!CTypeOK, C!Invoke, C!Goto, C!ChosenLogger, CallInv
  <2> QED
    BY <1>3, <2>1, <2>2, <2>3, Zenon
<1>8. CASE C!Leave(t)
  <2>1. C!CTypeOK'
    BY <1>0, <1>8 DEF C!CTypeOK, C!Leave, C!Goto, C!OutAfterError
  <2>2. missed' = {} /\ ~twiceFreed' /\ (twiceFreed \in BOOLEAN)'
    BY <1>0, <1>8, Zenon DEF C!Leave
  <2>3. CallInv(t)'
    BY <1>0, <1>1, <1>8 DEF C!CTypeOK, C!Leave, C!Goto, C!OutAfterError, C!ChosenLogger,
                            CallInv
  <2> QED
    BY <1>3, <2>1, <2>2, <2>3, Zenon
<1>9. CASE C!Free(t)
  <2>1. C!CTypeOK'
    BY <1>0, <1>9, Zenon DEF C!CTypeOK, C!Free, C!Goto
  <2>2. missed' = {} /\ ~twiceFreed' /\ (twiceFreed \in BOOLEAN)'
    BY <1>0, <1>9, Zenon DEF C!Free, CallInv
  <2>3. CallInv(t)'
    BY <1>0, <1>1, <1>9, Zenon DEF C!CTypeOK, C!Free, C!Goto, CallInv
  <2> QED
    BY <1>3, <2>1, <2>2, <2>3, Zenon
<1> QED
  BY <1>4, <1>5, <1>6, <1>7, <1>8, <1>9, Zenon DEF C!Thread
-----------------------------------------------------------------------------
(***************************************************************************)
(* The operations on a directory of reports.                               *)
(***************************************************************************)
\* A difference of two timestamps wraps only if it does not fit.
LEMMA WrapFits ==
    ASSUME NEW x \in Int, R!MinInt <= x, x <= R!MaxInt
    PROVE  R!Wrap(x) = x
  BY LibraryAssumption DEF R!Wrap, R!MinInt, R!MaxInt

\* The start of the window, pinned or not, tells the reports of the window from
\* the earlier ones.
LEMMA StartOfWindow ==
    ASSUME NEW t \in R!Times, NEW p \in Periods, NEW r \in R!Times
    PROVE  R!GetPeriodStart(t, p) <= r <=> t - p <= r
<1>0. /\ Half \in Nat \ {0} /\ p \in 0 .. Half - 1
      /\ t \in Int /\ -Half <= t /\ t <= Half - 1
      /\ r \in Int /\ -Half <= r /\ r <= Half - 1
  BY LibraryAssumption DEF R!Times, R!MinInt, R!MaxInt
<1>1. R!Wrap(R!MinInt + p) = R!MinInt + p
  BY <1>0, WrapFits DEF R!MinInt, R!MaxInt
<1>2. CASE t < R!MinInt + p
  BY <1>0, <1>1, <1>2 DEF R!GetPeriodStart, R!MinInt
<1>3. CASE ~(t < R!MinInt + p)
  <2>1. R!Wrap(t - p) = t - p
    BY <1>0, <1>3, WrapFits DEF R!MinInt, R!MaxInt
  <2> QED
    BY <1>0, <1>1, <1>3, <2>1 DEF R!GetPeriodStart
<1> QED
  BY <1>2, <1>3, Zenon

\* The reports of a window, and how many there can be.
Window(t, p) == {r \in dir : R!InWindow(r, t, p)}

LEMMA WindowSize ==
    ASSUME NEW t \in R!Times, NEW p \in Periods, dir \in SUBSET R!Times
    PROVE  /\ {r \in dir : R!GetPeriodStart(t, p) <= r /\ r <= t} = Window(t, p)
           /\ IsFiniteSet(Window(t, p))
           /\ Cardinality(Window(t, p)) \in Nat
           /\ Cardinality(Window(t, p)) <= p + 1
<1>0. t \in Int /\ p \in Nat /\ R!Times \subseteq Int
  BY LibraryAssumption DEF R!Times, R!MinInt, R!MaxInt
<1>1. {r \in dir : R!GetPeriodStart(t, p) <= r /\ r <= t} = Window(t, p)
  BY StartOfWindow, Zenon DEF Window, R!InWindow
<1>2. Window(t, p) \subseteq (t - p) .. t
  <2>1. ASSUME NEW r \in Window(t, p) PROVE r \in (t - p) .. t
    <3>1. r \in Int /\ t - p <= r /\ r <= t
      BY <1>0, Zenon DEF Window, R!InWindow
    <3> QED
      BY <1>0, <3>1
  <2> QED
    BY <2>1, Zenon
<1>3. /\ IsFiniteSet((t - p) .. t)
      /\ Cardinality((t - p) .. t) = p + 1
  BY <1>0, FS_Interval
<1>4. /\ IsFiniteSet(Window(t, p))
      /\ Cardinality(Window(t, p)) <= p + 1
  BY <1>2, <1>3, FS_Subset, Zenon
<1> QED
  BY <1>1, <1>4, FS_CardinalityType, Zenon
\* Retention counts as this module does.
LEMMA SameCardinality == \A S : R!Cardinality(S) = Cardinality(S)
  BY Zenon DEF R!Cardinality, Cardinality

\* There are finitely many timestamps.
LEMMA DirFinite ==
    ASSUME dir \in SUBSET R!Times
    PROVE  IsFiniteSet(dir) /\ dir \in SUBSET Int
<1>1. R!MinInt \in Int /\ R!MaxInt \in Int
  BY LibraryAssumption DEF R!MinInt, R!MaxInt
<1>2. IsFiniteSet(R!Times) /\ R!Times \subseteq Int
  BY <1>1, FS_Interval DEF R!Times
<1> QED
  BY <1>2, FS_Subset, Zenon

\* The comparator of Cleanup orders reports that are near each other by time, and
\* contradicts itself nowhere.
LEMMA BeforeIsLess ==
    ASSUME dir \in SUBSET R!Times, R!Near(dir), NEW r \in dir, NEW s \in dir
    PROVE  R!Before(r, s) <=> r < s
<1>1. r \in Int /\ s \in Int /\ Half \in Nat \ {0} /\ r - s <= R!MaxInt /\ s - r <= R!MaxInt
  BY LibraryAssumption DEF R!Times, R!MinInt, R!MaxInt, R!Near
<1>2. R!Wrap(r - s) = r - s
  BY <1>1, WrapFits DEF R!MinInt, R!MaxInt
<1> QED
  BY <1>1, <1>2 DEF R!Before

LEMMA NearIsOrdered ==
    ASSUME dir \in SUBSET R!Times, R!Near(dir)
    PROVE  R!StrictOrder(dir)
<1>1. ASSUME NEW a \in dir, NEW b \in dir, NEW c \in dir
      PROVE  /\ ~(R!Before(a, b) /\ R!Before(b, a))
             /\ R!Before(a, b) /\ R!Before(b, c) => R!Before(a, c)
  <2>1. a \in Int /\ b \in Int /\ c \in Int
    BY DirFinite
  <2>2. /\ R!Before(a, b) <=> a < b
        /\ R!Before(b, a) <=> b < a
        /\ R!Before(b, c) <=> b < c
        /\ R!Before(a, c) <=> a < c
    BY BeforeIsLess, Zenon
  <2> QED
    BY <2>1, <2>2
<1> QED
  BY <1>1, Zenon DEF R!StrictOrder

\* So what Cleanup is to remove, of more reports than it is to keep, leaves as
\* many as it is told to, and the most recent ones.
LEMMA SurplusRight ==
    ASSUME dir \in SUBSET R!Times, NEW n \in Nat, NEW s \in R!Surplus(dir, n)
    PROVE  /\ s \in SUBSET dir
           /\ Cardinality(dir \ s) = n
           /\ R!Near(dir) => \A gone \in s, kept \in dir \ s : gone < kept
<1>1. s \in SUBSET dir /\ Cardinality(s) = Cardinality(dir) - n
  BY SameCardinality, Zenon DEF R!Surplus
<1>2. IsFiniteSet(dir) /\ Cardinality(dir) \in Nat
  BY DirFinite, FS_CardinalityType, Zenon
<1>3. Cardinality(dir \ s) = Cardinality(dir) - Cardinality(s)
  <2>1. dir \cap s = s
    BY <1>1, Zenon
  <2> QED
    BY <1>2, <2>1, FS_Difference, Zenon
<1>4. Cardinality(dir \ s) = n
  BY <1>1, <1>2, <1>3
<1>5. ASSUME R!Near(dir), NEW gone \in s, NEW kept \in dir \ s PROVE gone < kept
  <2>1. R!Before(gone, kept)
    BY <1>5, NearIsOrdered, Zenon DEF R!Surplus
  <2> QED
    BY <1>1, <1>5, <2>1, BeforeIsLess, Zenon
<1> QED
  BY <1>1, <1>4, <1>5, Zenon

\* Nothing has been asked of an empty directory.
LEMMA RetentionInitOK == ASSUME R!RetentionInit PROVE R!RetentionTypeOK /\ RetentionRight
<1>1. dir = {} /\ last.op = "none" /\ last.t = 0 /\ last.n = 0
  BY Zenon DEF R!RetentionInit
<1>2. RetentionRight
  BY <1>1, Zenon DEF RetentionRight, R!ExistsRight, R!ClearRight, R!CleanupKeepsNewest
<1>3. 0 \in R!Times /\ Cardinality(dir) <= MaxReports
  BY <1>1, LibraryAssumption, FS_EmptySet DEF R!Times, R!MinInt, R!MaxInt
<1> QED
  BY <1>1, <1>2, <1>3, SameCardinality DEF R!RetentionTypeOK

\* What an operation leaves of a directory is of the same kind.
LEMMA FewerStayOK ==
    ASSUME R!RetentionTypeOK, dir' \in SUBSET dir, NEW op, NEW t \in R!Times, NEW n \in Nat,
           NEW result, NEW left, R!Done(op, t, n, result, left)
    PROVE  R!RetentionTypeOK'
<1>1. Cardinality(dir') <= Cardinality(dir) /\ Cardinality(dir') \in Nat /\ Cardinality(dir) \in Nat
  BY DirFinite, FS_Subset, FS_CardinalityType, Zenon DEF R!RetentionTypeOK
<1>2. last'.t = t /\ last'.n = n
  BY Zenon DEF R!Done
<1>3. Cardinality(dir') <= MaxReports
  BY <1>1, LibraryAssumption, SameCardinality DEF R!RetentionTypeOK
<1> QED
  BY <1>2, <1>3, SameCardinality, Zenon DEF R!RetentionTypeOK, R!Times, R!MinInt, R!MaxInt

\* Every operation does exactly what it says.
LEMMA RetentionStep ==
    ASSUME R!RetentionTypeOK, R!RetentionNext
    PROVE  R!RetentionTypeOK' /\ RetentionRight'
<1>0. /\ dir \in SUBSET R!Times /\ Periods \subseteq Nat /\ 0 \in R!Times
      /\ MaxReports \in Nat
  BY LibraryAssumption DEF R!RetentionTypeOK, R!Times, R!MinInt, R!MaxInt
<1>1. ASSUME NEW t \in R!Times, R!Create(t) PROVE R!RetentionTypeOK' /\ RetentionRight'
  <2>1. last'.op = "create" /\ last'.t = t /\ last'.n = 0 /\ dir' = dir \cup {t}
    BY <1>1, Zenon DEF R!Create, R!Done
  <2>a. IsFiniteSet(dir) /\ Cardinality(dir) \in Nat
    BY <1>0, DirFinite, FS_CardinalityType, Zenon
  <2>2. Cardinality(dir \cup {t}) \in {Cardinality(dir), Cardinality(dir) + 1}
    BY <2>a, FS_AddElement, Zenon
  <2>4. Cardinality(dir \cup {t}) <= MaxReports
    BY <1>0, <1>1, <2>a, <2>2, SameCardinality DEF R!Create
  <2>5. R!RetentionTypeOK'
    BY <1>0, <1>1, <2>1, <2>4, SameCardinality DEF R!RetentionTypeOK, R!Create, R!Times, R!MinInt,
                                  R!MaxInt
  <2> QED
    BY <2>1, <2>5, Zenon DEF RetentionRight, R!ExistsRight, R!ClearRight, R!CleanupKeepsNewest
<1>2. ASSUME NEW t \in R!Times, NEW p \in Periods, R!DuplicateExists(t, p)
      PROVE  R!RetentionTypeOK' /\ RetentionRight'
  <2>1. PICK s \in R!Walk(R!GetPeriodStart(t, p), t, 1) : R!Done("exists", t, p, s # {}, {})
    BY <1>2, Zenon DEF R!DuplicateExists
  <2>2. /\ dir' = dir /\ before' = dir /\ last'.op = "exists"
        /\ last'.t = t /\ last'.n = p /\ last'.result = (s # {})
    BY <1>2, <2>1, Zenon DEF R!DuplicateExists, R!Done
  <2>3. /\ s \subseteq Window(t, p)
        /\ s = Window(t, p) \/ Cardinality(s) = 1
    BY <1>0, <2>1, WindowSize, SameCardinality, Zenon DEF R!Walk
  <2>4. s # {} <=> Window(t, p) # {}
    BY <2>3, FS_EmptySet
  <2>5. (last.result)' <=> \E r \in before' : R!InWindow(r, t, p)
    BY <2>2, <2>4, Zenon DEF Window
  <2>6. RetentionRight'
    BY <2>2, <2>5, Zenon DEF RetentionRight, R!ExistsRight, R!ClearRight, R!CleanupKeepsNewest
  <2> QED
    BY <1>0, <2>1, <2>2, <2>6, FewerStayOK, Zenon
<1>3. ASSUME NEW t \in R!Times, NEW p \in Periods, NEW dryRun \in BOOLEAN,
             R!ClearPeriod(t, p, dryRun)
      PROVE  R!RetentionTypeOK' /\ RetentionRight'
  <2>1. PICK s \in R!Walk(R!GetPeriodStart(t, p), t, p + 1) : \E left \in SUBSET s :
            dir' = dir \ (s \ left) /\ R!Done("clear", t, p, TRUE, left)
    BY <1>3, Zenon DEF R!ClearPeriod, R!ClearLimit, R!RemoveAll
  <2>a. PICK left \in SUBSET s :
            dir' = dir \ (s \ left) /\ R!Done("clear", t, p, TRUE, left)
    BY <2>1, Zenon
  <2>2. /\ before' = dir /\ last'.op = "clear" /\ last'.t = t /\ last'.n = p
        /\ last'.left = left
    BY <2>a, Zenon DEF R!Done
  <2>3. /\ s \in SUBSET Window(t, p)
        /\ s = Window(t, p) \/ Cardinality(s) = p + 1
    BY <1>0, <2>1, WindowSize, SameCardinality, Zenon DEF R!Walk
  <2>4. s = Window(t, p)
    <3>1. /\ IsFiniteSet(Window(t, p)) /\ Cardinality(Window(t, p)) \in Nat
          /\ Cardinality(Window(t, p)) <= p + 1
      BY <1>0, WindowSize, Zenon
    <3>2. /\ Cardinality(s) <= Cardinality(Window(t, p))
          /\ Cardinality(Window(t, p)) = Cardinality(s) => Window(t, p) = s
      BY <2>3, <3>1, FS_Subset, Zenon
    <3> QED
      BY <1>0, <2>3, <3>1, <3>2
  <2>5. dir' = {r \in before' : ~R!InWindow(r, t, p) \/ r \in left}
    BY <2>a, <2>2, <2>4, Zenon DEF Window
  <2>6. RetentionRight'
    BY <2>2, <2>5, Zenon DEF RetentionRight, R!ExistsRight, R!ClearRight, R!CleanupKeepsNewest
  <2>7. dir' \in SUBSET dir
    BY <2>a, Zenon
  <2> QED
    BY <1>0, <2>a, <2>6, <2>7, FewerStayOK, Zenon
<1>4. ASSUME NEW n \in 0 .. MaxKeep + 1, R!Cleanup(n)
      PROVE  R!RetentionTypeOK' /\ RetentionRight'
  <2>0. /\ n \in Nat /\ MaxKeep \in Nat /\ IsFiniteSet(dir) /\ Cardinality(dir) \in Nat
    BY <1>0, LibraryAssumption, DirFinite, FS_CardinalityType
  <2>1. ASSUME NEW result, NEW left, R!Done("cleanup", 0, n, result, left),
               dir' \in SUBSET dir, R!CleanupKeepsNewest'
        PROVE  R!RetentionTypeOK' /\ RetentionRight'
    <3>1. last'.op = "cleanup"
      BY <2>1, Zenon DEF R!Done
    <3>2. RetentionRight'
      BY <2>1, <3>1, Zenon DEF RetentionRight, R!ExistsRight, R!ClearRight
    <3> QED
      BY <1>0, <2>0, <2>1, <3>2, FewerStayOK, Zenon
  <2>2. CASE n > MaxKeep
    <3>1. /\ R!Done("cleanup", 0, n, FALSE, {}) /\ dir' = dir
          /\ before' = dir /\ last'.n = n
      BY <1>4, <2>0, <2>2 DEF R!Cleanup, R!Done
    <3>2. R!CleanupKeepsNewest'
      BY <2>2, <3>1, Zenon DEF R!CleanupKeepsNewest
    <3> QED
      BY <2>1, <3>1, <3>2, Zenon
  <2>3. CASE ~(n > MaxKeep) /\ Cardinality(dir) <= n
    <3>1. /\ R!Done("cleanup", 0, n, TRUE, {}) /\ dir' = dir
          /\ before' = dir /\ last'.n = n /\ last'.left = {}
      BY <1>4, <2>0, <2>3, SameCardinality DEF R!Cleanup, R!Done
    <3>2. (dir \ dir') \cup {} = {} /\ dir \ {} = dir
      BY <3>1, Zenon
    <3>3. R!CleanupKeepsNewest'
      BY <2>3, <3>1, <3>2, SameCardinality, Zenon DEF R!CleanupKeepsNewest
    <3> QED
      BY <2>1, <3>1, <3>3, Zenon
  <2>4. CASE ~(n > MaxKeep) /\ ~(Cardinality(dir) <= n)
    <3>0. ~(n > MaxKeep) /\ ~(R!Cardinality(dir) <= n)
      BY <2>4, SameCardinality, Zenon
    <3>a. PICK s \in R!Surplus(dir, n) : \E left \in SUBSET s :
            dir' = dir \ (s \ left) /\ R!Done("cleanup", 0, n, TRUE, left)
      BY <1>4, <3>0, Zenon DEF R!Cleanup, R!RemoveAll
    <3>1. PICK left \in SUBSET s :
            dir' = dir \ (s \ left) /\ R!Done("cleanup", 0, n, TRUE, left)
      BY <3>a, Zenon
    <3>2. before' = dir /\ last'.n = n /\ last'.left = left
      BY <3>1, Zenon DEF R!Done
    <3>3. /\ s \in SUBSET dir /\ Cardinality(dir \ s) = n
          /\ R!Near(dir) => \A gone \in s, kept \in dir \ s : gone < kept
      BY <1>0, <2>0, SurplusRight, Zenon
    <3>4. (dir \ dir') \cup left = s /\ dir' = (dir \ s) \cup left
      BY <3>1, <3>3, Zenon
    <3>5. R!CleanupKeepsNewest'
      BY <2>4, <3>2, <3>3, <3>4, SameCardinality, Zenon
      DEF R!CleanupKeepsNewest, R!Near, R!MaxInt
    <3>6. dir' \in SUBSET dir
      BY <3>1, Zenon
    <3> QED
      BY <2>1, <3>1, <3>5, <3>6, Zenon
  <2> QED
    BY <2>2, <2>3, <2>4, Zenon
<1>5. ASSUME R!WalkFails PROVE R!RetentionTypeOK' /\ RetentionRight'
  <2>1. R!Done("unlisted", 0, 0, FALSE, {}) /\ dir' = dir /\ last'.op = "unlisted"
    BY <1>5, Zenon DEF R!WalkFails, R!Done
  <2>2. RetentionRight'
    BY <2>1, Zenon DEF RetentionRight, R!ExistsRight, R!ClearRight, R!CleanupKeepsNewest
  <2>3. dir' \in SUBSET dir /\ 0 \in Nat
    BY <2>1
  <2> QED
    BY <1>0, <2>1, <2>2, <2>3, FewerStayOK, Zenon
<1> QED
  BY <1>1, <1>2, <1>3, <1>4, <1>5, Zenon DEF R!RetentionNext
-----------------------------------------------------------------------------
(***************************************************************************)
(* The three ways in.                                                      *)
(***************************************************************************)
\* What a call may do to the files, whatever it is; the bodies of the two action
\* properties.
MetricsAllowed ==
    answer'.op # "none" =>
        \A s \in Sources, a \in Ages :
            \/ local'[s][a] = "full" /\ local[s][a] # "full"
            \/ uploaded'[s][a] = "full" /\ uploaded[s][a] # "full"
            => consent[s] = "granted" /\ sysConfig \in {"missing", "optedIn"}

DryKeeps ==
    answer'.op # "none" =>
        /\ "dry" \in answer'.flags => UNCHANGED <<consent, sysConfig, local, uploaded>>
        /\ answer'.op # "upload" => UNCHANGED uploaded

GoodStep == FrontendTypeOK' /\ CallersTold' /\ MetricsAllowed /\ DryKeeps

\* A call is counted, up to the bound.
LEMMA Counted ==
    ASSUME NEW c \in 0 .. MaxCalls, c < MaxCalls PROVE c + 1 \in 0 .. MaxCalls
<1>1. MaxCalls \in Nat
  BY FrontendAssumption, Zenon
<1> QED
  BY <1>1

LEMMA CallCounted ==
    ASSUME FrontendTypeOK, calls < MaxCalls, calls' = calls + 1
    PROVE  (calls \in 0 .. MaxCalls)'
  BY Counted, Zenon DEF FrontendTypeOK

\* Every name has a file of its own, and a source is its own name.
LEMMA FileOfName ==
    /\ \A n \in Names : FileOf(n) \in Sources
    /\ \A s \in Sources : FileOf(s) = s /\ s # ""
  BY FrontendAssumption, Zenon DEF FileOf, Names

\* Metrics are honoured only where they were granted.
LEMMA HonouredMeans ==
    ASSUME NEW n, HonouredState(n) = "true", sysConfig \in Configs
    PROVE  consent[FileOf(n)] = "granted" /\ sysConfig \in {"missing", "optedIn"}
<1>1. IsOptedOut = "false" /\ SourceState(n) = "true"
  BY Zenon DEF HonouredState, IsOptedOut
<1>2. consent[FileOf(n)] = "granted"
  BY <1>1, Zenon DEF SourceState
<1>3. sysConfig # "malformed" /\ sysConfig # "optedOut"
  BY <1>1, Zenon DEF IsOptedOut
<1> QED
  BY <1>2, <1>3, Zenon DEF Configs

\* The state is one of four, two of which are errors.
LEMMA StateKinds ==
    ASSUME NEW n
    PROVE  /\ HonouredState(n) \in {"true", "false", "notFound", "error"}
           /\ SourceState(n) \in {"true", "false", "notFound", "error"}
<1>1. SourceState(n) \in {"true", "false", "notFound", "error"}
  BY Zenon DEF SourceState
<1>2. HonouredState(n) \in {"false", "error", SourceState(n)}
  BY Zenon DEF HonouredState
<1> QED
  BY <1>1, <1>2, Zenon

LEMMA ErrorKinds ==
    /\ ErrorOf("notFound") = "notFound" /\ ErrorOf("error") = "other"
    /\ ErrorOf("true") = "none" /\ ErrorOf("false") = "none"
  BY Zenon DEF ErrorOf

\* What the files say depends on the files only.
LEMMA StatesStay ==
    ASSUME UNCHANGED <<consent, sysConfig>>, NEW n
    PROVE  /\ HonouredState(n)' = HonouredState(n)
           /\ SourceState(n)' = SourceState(n)
           /\ Payload(n)' = Payload(n)
<1>1. SourceState(n)' = SourceState(n)
  BY Zenon DEF SourceState, FileOf
<1>2. HonouredState(n)' = HonouredState(n)
  BY <1>1, Zenon DEF HonouredState, IsOptedOut
<1> QED
  BY <1>1, <1>2, Zenon DEF Payload
\* A call that changes no file but the reports directory, and tells nothing of
\* reports or consent.
LEMMA QuietCall ==
    ASSUME FrontendTypeOK, calls < MaxCalls, NEW b, NEW op, NEW ns, NEW f, NEW e, NEW v, NEW u,
           Answer(b, op, ns, f, e, v, u),
           UNCHANGED <<consent, sysConfig, dirs, local, uploaded>>,
           cacheDir' \in {cacheDir, TRUE},
           e # "none" \/ op \in {"compile", "getOptOut", "setOptOut", "optOut"}
    PROVE  GoodStep
<1>1. answer'.op = op /\ answer'.err = e /\ answer'.names = ns /\ answer'.flags = f
  BY Zenon DEF Answer
<1>2. (calls \in 0 .. MaxCalls)'
  BY CallCounted, Zenon DEF Answer
<1>3. (cacheDir \in BOOLEAN)' /\ (dirs # {} => cacheDir)'
  BY Zenon DEF FrontendTypeOK
<1>4. FrontendTypeOK'
  BY <1>2, <1>3, Zenon DEF FrontendTypeOK
<1>5. CallersTold'
  BY <1>1, Zenon DEF CallersTold, UploadTold, UploadDone, CollectTold, ConsentTold
<1>6. MetricsAllowed /\ DryKeeps
  BY Zenon DEF MetricsAllowed, DryKeeps
<1> QED
  BY <1>4, <1>5, <1>6, Zenon DEF GoodStep

\* A call that changes the system configuration only.
LEMMA OptOutCall ==
    ASSUME FrontendTypeOK, calls < MaxCalls, NEW b, NEW op \in {"setOptOut", "optOut"}, NEW e, NEW v,
           Answer(b, op, {}, {}, e, v, FALSE),
           UNCHANGED <<consent, cacheDir, dirs, local, uploaded>>,
           sysConfig' \in {"optedOut", "optedIn"}
    PROVE  GoodStep
<1>1. answer'.op = op /\ answer'.flags = {}
  BY Zenon DEF Answer
<1>2. (calls \in 0 .. MaxCalls)'
  BY CallCounted, Zenon DEF Answer
<1>3. (sysConfig \in Configs)' /\ (cacheDir \in BOOLEAN)' /\ (dirs # {} => cacheDir)'
  BY Zenon DEF FrontendTypeOK, Configs
<1>4. FrontendTypeOK'
  BY <1>2, <1>3, Zenon DEF FrontendTypeOK
<1>5. CallersTold'
  BY <1>1, Zenon DEF CallersTold, UploadTold, UploadDone, CollectTold, ConsentTold
<1>6. MetricsAllowed /\ DryKeeps
  BY <1>1, Zenon DEF MetricsAllowed, DryKeeps
<1> QED
  BY <1>4, <1>5, <1>6, Zenon DEF GoodStep

\* Every outcome of a Write keeps the reports of other ages, and the one of its age
\* becomes the payload, is cleared or stays; without an error it is the payload.
LEMMA WriteOutcome ==
    ASSUME FrontendTypeOK, NEW n \in Names, NEW f, NEW a \in Ages,
           NEW o \in WriteOutcomes(n, f, a)
    PROVE  /\ o.err \in {"none", "notFound", "duplicate", "other"}
           /\ o.err = "notFound" => HonouredState(n) = "notFound"
           /\ o.dirs \in {dirs, dirs \cup {FileOf(n)}}
           /\ o.reports \in Reports
           /\ FileOf(n) \notin o.dirs => o.reports = NoReports
           /\ o.reports[a] \in {"none", local[FileOf(n)][a], Payload(n)}
           /\ \A b \in Ages \ {a} : o.reports[b] = local[FileOf(n)][b]
           /\ "dry" \in f => o.reports = local[FileOf(n)]
           /\ o.err = "none" /\ "dry" \notin f => o.reports[a] = Payload(n)
<1> DEFINE s == FileOf(n)
           same == [err |-> "none", dirs |-> dirs, reports |-> local[s]]
           cleared == [same EXCEPT !.reports = Cleared(s, f, a)]
           made == [cleared EXCEPT !.dirs = MakeDirs(s)]
           written == [made EXCEPT !.reports[a] = Payload(n)]
           e == ErrorOf(HonouredState(n))
<1>1. s \in Sources /\ local[s] \in Reports /\ (s \notin dirs => local[s] = NoReports)
  BY FileOfName, Zenon DEF FrontendTypeOK
<1>2. Payload(n) \in {"full", "optout"}
  BY Zenon DEF Payload
<1>3. /\ same.err = "none" /\ same.dirs = dirs /\ same.reports = local[s]
      /\ cleared.err = "none" /\ cleared.dirs = dirs /\ cleared.reports = Cleared(s, f, a)
      /\ made.err = "none" /\ made.dirs = dirs \cup {s} /\ made.reports = Cleared(s, f, a)
      /\ written.err = "none" /\ written.dirs = dirs \cup {s}
      /\ written.reports = [Cleared(s, f, a) EXCEPT ![a] = Payload(n)]
  BY Zenon DEF MakeDirs
<1>4. \A x : /\ [same EXCEPT !.err = x].err = x /\ [same EXCEPT !.err = x].dirs = same.dirs
             /\ [same EXCEPT !.err = x].reports = same.reports
  OBVIOUS
<1>5. \A x \in {same, cleared, made, written} :
         /\ [x EXCEPT !.err = "other"].err = "other"
         /\ [x EXCEPT !.err = "other"].dirs = x.dirs
         /\ [x EXCEPT !.err = "other"].reports = x.reports
  OBVIOUS
<1> HIDE DEF same, cleared, made, written
<1>6. \/ e # "none" /\ o = [same EXCEPT !.err = e]
      \/ o = [same EXCEPT !.err = "duplicate"]
      \/ "dry" \in f /\ o = cleared
      \/ "dry" \notin f /\ o = written
      \/ "dry" \notin f /\ \E x \in {same, cleared, made, written} : o = [x EXCEPT !.err = "other"]
  BY Zenon DEF WriteOutcomes, same, cleared, made, written
<1>7. \/ /\ o.dirs = dirs /\ o.reports = local[s]
         /\ o.err \in {"duplicate", "other"} \/ (o.err = e /\ e # "none")
      \/ o.err = "none" /\ "dry" \in f /\ o.dirs = dirs /\ o.reports = Cleared(s, f, a)
      \/ /\ o.err = "other" /\ "dry" \notin f
         /\ o.dirs \in {dirs, dirs \cup {s}} /\ o.reports = Cleared(s, f, a)
      \/ /\ o.err \in {"none", "other"} /\ "dry" \notin f /\ o.dirs = dirs \cup {s}
         /\ o.reports = [Cleared(s, f, a) EXCEPT ![a] = Payload(n)]
  <2>1. CASE e # "none" /\ o = [same EXCEPT !.err = e]
    BY <1>3, <1>4, <2>1, Zenon
  <2>2. CASE o = [same EXCEPT !.err = "duplicate"]
    BY <1>3, <1>4, <2>2, Zenon
  <2>3. CASE ("dry" \in f /\ o = cleared) \/ ("dry" \notin f /\ o = written)
    BY <1>3, <2>3, Zenon
  <2>4. CASE "dry" \notin f /\ \E x \in {same, cleared, made, written} : o = [x EXCEPT !.err = "other"]
    BY <1>3, <1>5, <2>4
  <2> QED
    BY <1>6, <2>1, <2>2, <2>3, <2>4, Zenon
<1>8. /\ e \in {"none", "notFound", "other"}
      /\ e = "notFound" => HonouredState(n) = "notFound"
  BY StateKinds, Zenon DEF ErrorOf
<1>9. Cleared(s, f, a) \in {local[s], [local[s] EXCEPT ![a] = "none"]}
      /\ ("dry" \in f => Cleared(s, f, a) = local[s])
  BY Zenon DEF Cleared
<1> HIDE DEF e, s
<1>10. /\ Cleared(s, f, a) \in Reports /\ Cleared(s, f, a)[a] \in {"none", local[s][a]}
       /\ \A b \in Ages \ {a} : Cleared(s, f, a)[b] = local[s][b]
       /\ s \notin dirs => Cleared(s, f, a) = NoReports
  BY <1>1, <1>9, Zenon DEF Reports, NoReports
<1>11. /\ o.err \in {"none", "notFound", "duplicate", "other"}
       /\ o.err = "notFound" => HonouredState(n) = "notFound"
       /\ o.dirs \in {dirs, dirs \cup {s}}
  BY <1>7, <1>8, Zenon
<1>12. o.reports \in Reports /\ o.reports[a] \in {"none", local[s][a], Payload(n)}
       /\ \A b \in Ages \ {a} : o.reports[b] = local[s][b]
  BY <1>1, <1>2, <1>7, <1>10, Zenon DEF Reports
<1>13. s \notin o.dirs => o.reports = NoReports
  BY <1>1, <1>7, <1>10, Zenon
<1>14. /\ "dry" \in f => o.reports = local[s]
       /\ o.err = "none" /\ "dry" \notin f => o.reports[a] = Payload(n)
  BY <1>1, <1>7, <1>8, <1>9, <1>10, Zenon DEF Reports
<1> QED
  BY <1>11, <1>12, <1>13, <1>14, Zenon DEF s
\* A call that files a report: the caller hears of no error only if the report is
\* there, in a dry run, or on the command line without a consent file.
LEMMA FilingCall ==
    ASSUME FrontendTypeOK, calls < MaxCalls, NEW n \in Names, NEW f, NEW a \in Ages,
           NEW b, NEW op \in {"collect", "write"}, NEW e, NEW x, NEW v,
           FileReport(n, f, a, e), Answer(b, op, {n}, f, x, v, FALSE), cacheDir' = TRUE,
           a = IF op = "write" THEN v ELSE "new",
           x = "none" => e = "none" \/ "dry" \in f \/ (b = "cli" /\ e = "notFound")
    PROVE  GoodStep
<1>1. /\ answer'.op = op /\ answer'.err = x /\ answer'.names = {n} /\ answer'.flags = f
      /\ answer'.by = b /\ answer'.value = v
  BY Zenon DEF Answer
<1>2. PICK o \in WriteOutcomes(n, f, a) :
        /\ e = o.err /\ local' = [local EXCEPT ![FileOf(n)] = o.reports] /\ dirs' = o.dirs
        /\ UNCHANGED <<consent, sysConfig, uploaded>>
  BY Zenon DEF FileReport
<1> DEFINE s == FileOf(n)
<1>3. /\ o.err = "notFound" => HonouredState(n) = "notFound"
      /\ dirs \subseteq o.dirs /\ o.dirs \subseteq dirs \cup {s}
      /\ o.reports \in Reports /\ (s \notin o.dirs => o.reports = NoReports)
      /\ o.reports[a] \in {"none", local[s][a], Payload(n)}
      /\ \A c \in Ages \ {a} : o.reports[c] = local[s][c]
      /\ "dry" \in f => o.reports = local[s]
      /\ o.err = "none" /\ "dry" \notin f => o.reports[a] = Payload(n)
  BY WriteOutcome
<1>4. s \in Sources /\ local \in [Sources -> Reports] /\ dirs \in SUBSET Sources
  BY FileOfName, Zenon DEF FrontendTypeOK
<1> HIDE DEF s
<1>5. local'[s] = o.reports /\ \A r \in Sources \ {s} : local'[r] = local[r]
  BY <1>2, <1>4, Zenon DEF s
<1>6. FrontendTypeOK'
  <2>1. (calls \in 0 .. MaxCalls)'
    BY CallCounted, Zenon DEF Answer
  <2>2. (cacheDir \in BOOLEAN)' /\ (dirs # {} => cacheDir)'
    BY Zenon
  <2>3. (dirs \in SUBSET Sources)' /\ (local \in [Sources -> Reports])'
    BY <1>2, <1>3, <1>4, Zenon DEF s
  <2>4. \A r \in Sources \ dirs' : local'[r] = NoReports /\ uploaded'[r] = NoReports
    <3> SUFFICES ASSUME NEW r \in Sources \ dirs'
                 PROVE  local'[r] = NoReports /\ uploaded'[r] = NoReports
      OBVIOUS
    <3>1. r \notin dirs /\ r \notin o.dirs
      BY <1>2, <1>3, Zenon
    <3>2. local[r] = NoReports /\ uploaded[r] = NoReports
      BY <3>1, Zenon DEF FrontendTypeOK
    <3> QED
      BY <1>2, <1>3, <1>5, <3>1, <3>2, Zenon
  <2> QED
    BY <1>2, <2>1, <2>2, <2>3, <2>4, Zenon DEF FrontendTypeOK
<1>7. CallersTold'
  <2>1. HonouredState(n)' = HonouredState(n) /\ Payload(n)' = Payload(n)
    BY <1>2, StatesStay, Zenon
  <2>2. x = "none" => \/ "dry" \in f
                      \/ b = "cli" /\ HonouredState(n) = "notFound"
                      \/ local'[s][a] = Payload(n)
    BY <1>2, <1>3, <1>5, Zenon
  <2>3. CollectTold'
    BY <1>1, <2>1, <2>2, Zenon DEF CollectTold, s, FileOf
  <2> QED
    BY <1>1, <2>3, Zenon DEF CallersTold, UploadTold, UploadDone, ConsentTold
<1>8. MetricsAllowed
  <2> SUFFICES ASSUME NEW r \in Sources, NEW c \in Ages, local'[r][c] = "full", local[r][c] # "full"
               PROVE  consent[r] = "granted" /\ sysConfig \in {"missing", "optedIn"}
    BY <1>2, Zenon DEF MetricsAllowed
  <2>1. r = s /\ c = a
    BY <1>3, <1>5, Zenon
  <2>2. Payload(n) = "full"
    BY <1>3, <1>5, <2>1, Zenon
  <2>3. HonouredState(n) = "true"
    BY <2>2, Zenon DEF Payload
  <2> QED
    BY <2>1, <2>3, HonouredMeans, Zenon DEF FrontendTypeOK, s
<1>9. DryKeeps
  <2>1. "dry" \in f => local' = local
    BY <1>2, <1>3, <1>4, Zenon DEF s
  <2> QED
    BY <1>1, <1>2, <2>1, Zenon DEF DryKeeps
<1> QED
  BY <1>6, <1>7, <1>8, <1>9, Zenon DEF GoodStep
\* A source that is uploaded without an error has no consent file, or all of its
\* reports that are due are attempted and none is lost.
LEMMA NothingLost ==
    ASSUME NEW s \in Sources, NEW f, "dry" \notin f, NEW lost, UploadError(s, f, lost) = "none"
    PROVE  \/ HonouredState(s) = "notFound"
           \/ lost = {} /\ Attempted(s, f) = Eligible(s, f)
<1> SUFFICES ASSUME HonouredState(s) # "notFound"
             PROVE  lost = {} /\ Attempted(s, f) = Eligible(s, f)
  OBVIOUS
<1>1. s # ""
  BY FileOfName, Zenon
<1>2. HonouredState(s) # "error"
  BY <1>1, Zenon DEF UploadError
<1>3. HonouredState(s) \in {"true", "false"}
  BY <1>2, StateKinds, Zenon
<1>4. ErrorOf(HonouredState(s)) = "none"
  BY <1>3, ErrorKinds, Zenon
<1>5. lost = {} /\ \A a \in Eligible(s, f) : "force" \in f \/ uploaded[s][a] = "none"
  BY <1>1, <1>2, Zenon DEF UploadError
<1>6. Attempted(s, f) = {a \in Eligible(s, f) : "force" \in f \/ uploaded[s][a] = "none"}
  BY <1>1, <1>4, Zenon DEF Attempted
<1> QED
  BY <1>5, <1>6, Zenon

\* A call that uploads: what is sent leaves the reports to be uploaded, and metrics
\* are sent with consent only.  `asked` are the sources the caller named.
LEMMA UploadCall ==
    ASSUME FrontendTypeOK, calls < MaxCalls, NEW ns \in SUBSET Names, NEW asked, NEW f,
           NEW b, NEW e, UploadAll(ns, f, e), Answer(b, "upload", asked, f, e, "none", FALSE),
           asked # {} => ns = asked,
           asked = {} /\ b = "cli" => ns = dirs
    PROVE  GoodStep
<1>1. /\ answer'.op = "upload" /\ answer'.err = e /\ answer'.names = asked
      /\ answer'.flags = f /\ answer'.by = b
  BY Zenon DEF Answer
<1>2. PICK lost \in SUBSET UNION {{n} \X Attempted(n, f) : n \in ns} :
        LET lostOf(n) == {a \in Ages : <<n, a>> \in lost}
            sent(s) == IF s \in ns THEN Attempted(s, f) \ lostOf(s) ELSE {}
        IN  /\ dirs' = dirs \cup (ns \ {""})
            /\ cacheDir' = (cacheDir \/ ns \ {""} # {})
            /\ local' = [s \in Sources |-> [a \in Ages |->
                           IF a \in sent(s) THEN "none" ELSE local[s][a]]]
            /\ uploaded' = [s \in Sources |-> [a \in Ages |->
                           IF a \in sent(s) THEN
                              (IF HonouredState(s) = "true" THEN local[s][a]
                               ELSE "optout")
                           ELSE uploaded[s][a]]]
            /\ e = IF \E n \in ns : UploadError(n, f, lostOf(n)) # "none"
                   THEN "other" ELSE "none"
  BY Zenon DEF UploadAll
<1> DEFINE lostOf(n) == {a \in Ages : <<n, a>> \in lost}
           sent(s) == IF s \in ns THEN Attempted(s, f) \ lostOf(s) ELSE {}
<1>3. UNCHANGED <<consent, sysConfig>>
  BY Zenon DEF UploadAll
<1>4. /\ dirs' = dirs \cup (ns \ {""}) /\ cacheDir' = (cacheDir \/ ns \ {""} # {})
      /\ local' = [s \in Sources |-> [a \in Ages |->
                      IF a \in sent(s) THEN "none" ELSE local[s][a]]]
      /\ uploaded' = [s \in Sources |-> [a \in Ages |->
                      IF a \in sent(s) THEN
                         (IF HonouredState(s) = "true" THEN local[s][a] ELSE "optout")
                      ELSE uploaded[s][a]]]
      /\ e = "none" => \A n \in ns : UploadError(n, f, lostOf(n)) = "none"
  BY <1>2, Zenon
<1>5. /\ \A s : sent(s) \subseteq Attempted(s, f) /\ (s \notin ns => sent(s) = {})
      /\ \A s \in ns : lostOf(s) = {} => sent(s) = Attempted(s, f)
  OBVIOUS
<1>6. \A s : Attempted(s, f) \subseteq Eligible(s, f) /\ Eligible(s, f) \subseteq Ages
  BY Zenon DEF Attempted, Eligible
<1>7. "dry" \in f => \A s : sent(s) = {}
  BY <1>5, Zenon DEF Attempted
<1> HIDE DEF sent, lostOf
<1>8. local \in [Sources -> Reports] /\ uploaded \in [Sources -> Reports] /\ dirs \subseteq Sources
  BY Zenon DEF FrontendTypeOK
<1>9. ASSUME NEW s \in Sources, NEW a \in Ages
      PROVE  /\ local'[s][a] = IF a \in sent(s) THEN "none" ELSE local[s][a]
             /\ uploaded'[s][a] = IF a \in sent(s) THEN
                         (IF HonouredState(s) = "true" THEN local[s][a] ELSE "optout")
                      ELSE uploaded[s][a]
  BY <1>4, Zenon
<1>10. FrontendTypeOK'
  <2>1. (calls \in 0 .. MaxCalls)'
    BY CallCounted, Zenon DEF Answer
  <2>2. (cacheDir \in BOOLEAN)' /\ (dirs # {} => cacheDir)'
    BY <1>4, Zenon DEF FrontendTypeOK
  <2>3. (dirs \in SUBSET Sources)'
    BY <1>4, <1>8, Zenon DEF Names
  <2>4. (local \in [Sources -> Reports])'
    BY <1>4, <1>8, Zenon DEF Reports
  <2>5. (uploaded \in [Sources -> Reports])'
    BY <1>4, <1>8, Zenon DEF Reports
  <2>6. ASSUME NEW s \in Sources \ dirs' PROVE local'[s] = NoReports /\ uploaded'[s] = NoReports
    <3>1. s \notin dirs /\ s # "" /\ s \notin ns
      BY <1>4, FileOfName, Zenon
    <3>2. local[s] = NoReports /\ uploaded[s] = NoReports /\ sent(s) = {}
      BY <1>5, <3>1, Zenon DEF FrontendTypeOK
    <3> QED
      BY <1>4, <3>2, Zenon DEF NoReports
  <2> QED
    BY <1>3, <2>1, <2>2, <2>3, <2>4, <2>5, <2>6, Zenon DEF FrontendTypeOK
<1>11. CallersTold'
  <2>1. ASSUME e = "none", "dry" \notin f, NEW s \in ns \cap Sources
        PROVE  HonouredState(s)' = "notFound" \/ Eligible(s, f)' = {}
    <3>1. UploadError(s, f, lostOf(s)) = "none"
      BY <1>4, <2>1, Zenon
    <3>2. HonouredState(s)' = HonouredState(s)
      BY <1>3, StatesStay, Zenon
    <3>3. CASE HonouredState(s) = "notFound"
      BY <3>2, <3>3, Zenon
    <3>4. CASE lostOf(s) = {} /\ Attempted(s, f) = Eligible(s, f)
      <4>1. sent(s) = Eligible(s, f)
        BY <1>5, <3>4, Zenon
      <4>2. ASSUME NEW a \in Ages, local'[s][a] # "none", "force" \in f \/ a = "old" PROVE FALSE
        <5>1. a \notin sent(s) /\ local[s][a] # "none"
          BY <1>9, <4>2, Zenon
        <5> QED
          BY <4>1, <4>2, <5>1, Zenon DEF Eligible
      <4> QED
        BY <4>2, Zenon DEF Eligible
    <3> QED
      BY <2>1, <3>1, <3>3, <3>4, NothingLost, Zenon
  <2>2. ASSUME asked # {} \/ b = "cli" PROVE Asked' \subseteq ns \cap Sources
    <3>1. CASE asked # {}
      BY <1>1, <3>1, Zenon DEF Asked, Names
    <3>2. CASE asked = {} /\ b = "cli"
      BY <1>1, <1>4, <1>8, <3>2, Zenon DEF Asked
    <3> QED
      BY <2>2, <3>1, <3>2, Zenon
  <2>3. UploadTold'
    <3> SUFFICES ASSUME asked # {} \/ b = "cli", e = "none", "dry" \notin f, NEW s \in Asked'
                 PROVE  HonouredState(s)' = "notFound" \/ Eligible(s, f)' = {}
      BY <1>1, Zenon DEF UploadTold, UploadDone, Eligible
    <3> QED
      BY <2>1, <2>2, Zenon
  <2> QED
    BY <1>1, <2>3, Zenon DEF CallersTold, CollectTold, ConsentTold
<1>12. MetricsAllowed
  <2> SUFFICES ASSUME NEW s \in Sources, NEW a \in Ages,
                      \/ local'[s][a] = "full" /\ local[s][a] # "full"
                      \/ uploaded'[s][a] = "full" /\ uploaded[s][a] # "full"
               PROVE  consent[s] = "granted" /\ sysConfig \in {"missing", "optedIn"}
    BY Zenon DEF MetricsAllowed
  <2>1. HonouredState(s) = "true"
    BY <1>9, Zenon
  <2> QED
    BY <2>1, HonouredMeans, FileOfName, Zenon DEF FrontendTypeOK
<1>13. DryKeeps
  <2>1. "dry" \in f => local' = local /\ uploaded' = uploaded
    BY <1>4, <1>7, <1>8, Zenon DEF Reports
  <2> QED
    BY <1>1, <1>3, <2>1, Zenon DEF DryKeeps
<1> QED
  BY <1>10, <1>11, <1>12, <1>13, Zenon DEF GoodStep
\* The value a call says is the state of the sources it asked about.
ConsentSaid(ns, e, v) ==
    e = "none" => \A n \in ns :
        \/ v = "unknown" /\ SourceState(n)' \in {"notFound", "error"}
        \/ v = "" /\ SourceState(n)' \in {"true", "false"}
        \/ v \in {"true", "false"} /\ SourceState(n)' = v

\* A call about consent changes no file but those that hold it, and no flag makes
\* it a dry run; what it tells is left to show.
LEMMA ConsentCall ==
    ASSUME FrontendTypeOK, calls < MaxCalls, NEW b, NEW op \in {"consent", "getConsent", "setConsent"},
           NEW ns, NEW e, NEW v, NEW u, Answer(b, op, ns, {}, e, v, u),
           (consent \in [Sources -> Contents])',
           UNCHANGED <<sysConfig, cacheDir, dirs, local, uploaded>>,
           ConsentSaid(ns, e, v)
    PROVE  GoodStep
<1>1. /\ answer'.op = op /\ answer'.err = e /\ answer'.names = ns /\ answer'.flags = {}
      /\ answer'.value = v
  BY Zenon DEF Answer
<1>2. (calls \in 0 .. MaxCalls)'
  BY CallCounted, Zenon DEF Answer
<1>3. FrontendTypeOK'
  BY <1>2, Zenon DEF FrontendTypeOK
<1>4. ConsentTold'
  <2> SUFFICES ASSUME e = "none", NEW n \in ns
               PROVE  CASE v = "unknown" -> SourceState(n)' \in {"notFound", "error"}
                        [] v = "" -> SourceState(n)' \in {"true", "false"}
                        [] OTHER -> SourceState(n)' = v
    BY <1>1, Zenon DEF ConsentTold
  <2>0. \/ v = "unknown" /\ SourceState(n)' \in {"notFound", "error"}
        \/ v = "" /\ SourceState(n)' \in {"true", "false"}
        \/ v \in {"true", "false"} /\ SourceState(n)' = v
    BY Zenon DEF ConsentSaid
  <2>1. CASE v = "unknown" /\ SourceState(n)' \in {"notFound", "error"}
    BY <2>1, Zenon
  <2>2. CASE v = "" /\ SourceState(n)' \in {"true", "false"}
    BY <2>2, Zenon
  <2>3. CASE v \in {"true", "false"} /\ SourceState(n)' = v
    BY <2>3, Zenon
  <2> QED
    BY <2>0, <2>1, <2>2, <2>3, Zenon
<1>5. CallersTold'
  BY <1>1, <1>4, Zenon DEF CallersTold, UploadTold, UploadDone, CollectTold
<1>6. MetricsAllowed /\ DryKeeps
  BY <1>1, Zenon DEF MetricsAllowed, DryKeeps
<1> QED
  BY <1>3, <1>5, <1>6, Zenon DEF GoodStep

\* Reading the consent of a source: without an error there is a state, and in C the
\* value unknown.
LEMMA GetConsentCall ==
    ASSUME FrontendTypeOK, calls < MaxCalls, NEW b \in {"go", "c"}, NEW n \in Names,
           GetConsentState(b, n)
    PROVE  GoodStep
<1> DEFINE state == SourceState(n)
           e == IF ErrorOf(state) = "none" \/ b = "c" THEN "none" ELSE "other"
           v == StateValue(b, state)
<1>1. Answer(b, "getConsent", {n}, {}, e, v, FALSE) /\ UNCHANGED files
  BY Zenon DEF GetConsentState
<1>2. UNCHANGED <<consent, sysConfig, cacheDir, dirs, local, uploaded>>
  BY <1>1, Zenon DEF files
<1>3. state \in {"true", "false", "notFound", "error"} /\ SourceState(n)' = state
  BY <1>2, StateKinds, StatesStay, Zenon
<1> HIDE DEF state
<1>4. state \in {"true", "false"} => v = state
  BY Zenon DEF StateValue
<1>5. ASSUME e = "none", state \notin {"true", "false"} PROVE v = "unknown"
  <2>1. b = "c"
    BY <1>3, <1>5, ErrorKinds, Zenon
  <2> QED
    BY <1>5, <2>1, Zenon DEF StateValue
<1> HIDE DEF v, e
<1>6. ConsentSaid({n}, e, v)
  BY <1>3, <1>4, <1>5, Zenon DEF ConsentSaid
<1>7. (consent \in [Sources -> Contents])'
  BY <1>2, Zenon DEF FrontendTypeOK
<1>8. "getConsent" \in {"consent", "getConsent", "setConsent"}
  OBVIOUS
<1> QED
  BY <1>1, <1>2, <1>6, <1>7, <1>8, ConsentCall, Zenon

\* Setting the consent of a source: the file holds the state that was asked for.
LEMMA SetConsentCall ==
    ASSUME FrontendTypeOK, calls < MaxCalls, NEW b, NEW n \in Names,
           NEW v \in {"true", "false"}, SetConsentState(b, n, v)
    PROVE  GoodStep
<1>0. UNCHANGED <<sysConfig, cacheDir, dirs, local, uploaded>>
  BY Zenon DEF SetConsentState
<1> DEFINE kept == [consent EXCEPT ![FileOf(n)] =
                       IF v = "true" THEN "granted" ELSE "denied"]
<1>1. /\ FileOf(n) \in Sources /\ consent \in [Sources -> Contents]
      /\ "setConsent" \in {"consent", "getConsent", "setConsent"}
  BY FileOfName, Zenon DEF FrontendTypeOK
<1>2. CASE /\ consent' = kept
           /\ Answer(b, "setConsent", {n}, {}, "none", v, FALSE)
  <2>1. (consent \in [Sources -> Contents])'
        /\ consent'[FileOf(n)] = IF v = "true" THEN "granted" ELSE "denied"
    BY <1>1, <1>2, Zenon DEF Contents
  <2>2. SourceState(n)' = v
    BY <2>1, Zenon DEF SourceState, FileOf
  <2>3. ConsentSaid({n}, "none", v)
    BY <2>2, Zenon DEF ConsentSaid
  <2> QED
    BY <1>0, <1>1, <1>2, <2>1, <2>3, ConsentCall, Zenon
<1>3. CASE /\ consent' \in {consent, kept}
           /\ Answer(b, "setConsent", {n}, {}, "other", "none", FALSE)
  <2>1. (consent \in [Sources -> Contents])'
    BY <1>1, <1>3, Zenon DEF Contents
  <2>2. ConsentSaid({n}, "other", "none")
    BY Zenon DEF ConsentSaid
  <2> QED
    BY <1>0, <1>1, <1>3, <2>1, <2>2, ConsentCall, Zenon
<1> QED
  BY <1>2, <1>3, Zenon DEF SetConsentState
\* The consent command: without an error every source it named has the state it was
\* to set, or some state when there was none to set.
LEMMA ConsentCommand ==
    ASSUME FrontendTypeOK, calls < MaxCalls, NEW k \in Nat, NEW ns \in [1 .. k -> Names],
           NEW v \in Spellings, ConsentRun(ns, v)
    PROVE  GoodStep
<1> DEFINE names == IF ns = <<>> THEN <<"">> ELSE ns
           asked == {names[i] : i \in 1 .. Len(names)}
           kept == IF v = "true" THEN "granted" ELSE "denied"
<1>0. "consent" \in {"consent", "getConsent", "setConsent"}
  OBVIOUS
<1>1. names \in Seq(Names)
  <2>1. ns \in Seq(Names)
    OBVIOUS
  <2>2. <<"">> \in Seq(Names)
    <3>1. "" \in Names
      BY Zenon DEF Names
    <3>2. ASSUME NEW x \in Names PROVE <<x>> \in Seq(Names)
      OBVIOUS
    <3> QED
      BY <3>1, <3>2, Zenon
  <2> QED
    BY <2>1, <2>2, Zenon
<1>2. Len(names) \in Nat /\ asked \subseteq Names
  <2> HIDE DEF names
  <2> QED
    BY <1>1
<1>3. consent \in [Sources -> Contents]
  BY Zenon DEF FrontendTypeOK
<1>4. CASE StateRefused(v)
  <2>1. Answer("cli", "consent", asked, {}, "other", v, TRUE) /\ UNCHANGED files
    BY <1>4, Zenon DEF ConsentRun
  <2>2. UNCHANGED <<consent, sysConfig, cacheDir, dirs, local, uploaded>>
    BY <2>1, Zenon DEF files
  <2>3. (consent \in [Sources -> Contents])' /\ ConsentSaid(asked, "other", v)
    BY <1>3, <2>2, Zenon DEF ConsentSaid
  <2> HIDE DEF asked
  <2> QED
    BY <1>0, <2>1, <2>2, <2>3, ConsentCall, Zenon
<1>5. CASE ~StateRefused(v)
  <2> DEFINE e(done) == IF \/ Unset(v, done, names)
                           \/ \E n \in asked : consent'[FileOf(n)] \in {"missing", "malformed"}
                        THEN "other" ELSE "none"
  <2>1. PICK done \in 0 .. Len(names), written \in 0 .. Len(names) :
          /\ written \in {done, done + 1}
          /\ v = "" => written = 0
          /\ consent' = [s \in Sources |->
                IF \E i \in 1 .. written : FileOf(names[i]) = s THEN kept ELSE consent[s]]
          /\ Answer("cli", "consent", asked, {}, e(done), v, FALSE)
          /\ UNCHANGED <<sysConfig, cacheDir, dirs, local, uploaded>>
    BY <1>5, Zenon DEF ConsentRun
  <2>2. v \in {"", "true", "false"}
    BY <1>5, Zenon DEF Spellings, StateRefused
  <2>3. (consent \in [Sources -> Contents])'
    BY <1>3, <2>1, Zenon DEF Contents
  <2>4. asked \subseteq Names
    BY <1>2, Zenon
  <2>5. ASSUME e(done) = "none", NEW n \in asked
        PROVE  \/ v = "" /\ SourceState(n)' \in {"true", "false"}
               \/ v \in {"true", "false"} /\ SourceState(n)' = v
    <3>1. ~Unset(v, done, names) /\ consent'[FileOf(n)] \notin {"missing", "malformed"}
      BY <2>5, Zenon
    <3>2. FileOf(n) \in Sources
      BY <2>4, FileOfName, Zenon
    <3>3. consent'[FileOf(n)] \in {"granted", "denied"}
      BY <2>3, <3>1, <3>2, Zenon DEF Contents
    <3>4. CASE v = ""
      BY <3>3, <3>4, Zenon DEF SourceState, FileOf
    <3>5. CASE v \in {"true", "false"}
      <4>1. v # ""
        BY <3>5, Zenon
      <4>2. /\ done \in 0 .. Len(names) /\ ~(done < Len(names))
            /\ written \in 0 .. Len(names) /\ written \in {done, done + 1}
        BY <2>1, <3>1, <4>1, Zenon DEF Unset
      <4> HIDE DEF names
      <4>3. written = Len(names)
        BY <1>2, <4>2
      <4>4. \E i \in 1 .. written : FileOf(names[i]) = FileOf(n)
        BY <4>3, Zenon
      <4>5. consent'[FileOf(n)] = kept
        BY <2>1, <3>2, <4>4, Zenon
      <4> QED
        BY <3>5, <4>5, Zenon DEF SourceState, FileOf
    <3> QED
      BY <2>2, <3>4, <3>5, Zenon
  <2>6. ConsentSaid(asked, e(done), v)
    BY <2>5, Zenon DEF ConsentSaid
  <2> HIDE DEF asked, e
  <2> QED
    BY <1>0, <2>1, <2>3, <2>6, ConsentCall, Zenon
<1> QED
  BY <1>4, <1>5, Zenon
\* Collect and CollectRun: the errors the callers do not hear of are a missing
\* consent file, in a dry run and on the command line.
LEMMA CollectCall ==
    ASSUME FrontendTypeOK, calls < MaxCalls, NEW b, NEW n \in Names, NEW m, NEW f, Collect(b, n, m, f)
    PROVE  GoodStep
<1>1. CASE NewError(m, FALSE) # "none"
  <2>1. Answer(b, "collect", {n}, f, NewError(m, FALSE), "none", FALSE) /\ UNCHANGED files
    BY <1>1, Zenon DEF Collect
  <2> QED
    BY <1>1, <2>1, QuietCall, Zenon DEF files
<1>2. CASE NewError(m, FALSE) = "none" /\ CompileError(m) # "none"
  <2>1. /\ Answer(b, "collect", {n}, f, CompileError(m), "none", FALSE)
        /\ UNCHANGED <<consent, sysConfig, dirs, local, uploaded>> /\ cacheDir' = TRUE
    BY <1>2, Zenon DEF Collect
  <2> QED
    BY <1>2, <2>1, QuietCall, Zenon
<1>3. CASE NewError(m, FALSE) = "none" /\ CompileError(m) = "none"
  <2>1. PICK e \in {"none", "notFound", "duplicate", "other"} :
          /\ FileReport(n, f, "new", e)
          /\ IF Tolerated(f, e) THEN Answer(b, "collect", {n}, f, "none", "report", FALSE)
             ELSE Answer(b, "collect", {n}, f, e, "none", FALSE)
    BY <1>3, Zenon DEF Collect
  <2>2. cacheDir' = TRUE
    BY <1>3, Zenon DEF Collect
  <2>3. "new" \in Ages /\ "collect" \in {"collect", "write"}
    BY Zenon DEF Ages
  <2>4. \A v : "new" = IF "collect" = "write" THEN v ELSE "new"
    BY Zenon
  <2>5. CASE Tolerated(f, e)
    <3>1. "none" = "none" => e = "none" \/ "dry" \in f \/ (b = "cli" /\ e = "notFound")
      BY <2>5, Zenon DEF Tolerated
    <3> QED
      BY <2>1, <2>2, <2>3, <2>4, <2>5, <3>1, FilingCall, Zenon
  <2>6. CASE ~Tolerated(f, e)
    BY <2>1, <2>2, <2>3, <2>4, <2>6, FilingCall, Zenon
  <2> QED
    BY <2>5, <2>6, Zenon
<1> QED
  BY <1>1, <1>2, <1>3, Zenon

LEMMA CollectCommand ==
    ASSUME FrontendTypeOK, calls < MaxCalls, NEW n \in Names, NEW m, NEW f, CollectRun(n, m, f)
    PROVE  GoodStep
<1>1. CASE m = "absent"
  <2>1. Answer("cli", "collect", {n}, f, "other", "none", TRUE) /\ UNCHANGED files
    BY <1>1, Zenon DEF CollectRun
  <2> QED
    BY <2>1, QuietCall, Zenon DEF files
<1>2. CASE m # "absent" /\ CompileError(m) # "none"
  <2>1. /\ Answer("cli", "collect", {n}, f, CompileError(m), "none", FALSE)
        /\ UNCHANGED <<consent, sysConfig, dirs, local, uploaded>> /\ cacheDir' = TRUE
    BY <1>2, Zenon DEF CollectRun
  <2> QED
    BY <1>2, <2>1, QuietCall, Zenon
<1>3. CASE m # "absent" /\ CompileError(m) = "none"
  <2>1. PICK e \in {"none", "notFound", "duplicate", "other"} :
          /\ FileReport(n, f, "new", e)
          /\ Answer("cli", "collect", {n}, f, RunError(e), "report", FALSE)
    BY <1>3, Zenon DEF CollectRun
  <2>2. cacheDir' = TRUE
    BY <1>3, Zenon DEF CollectRun
  <2>3. /\ "new" \in Ages /\ "collect" \in {"collect", "write"}
        /\ "new" = IF "collect" = "write" THEN "report" ELSE "new"
    BY Zenon DEF Ages
  <2>4. RunError(e) = "none" => e = "none" \/ "dry" \in f \/ ("cli" = "cli" /\ e = "notFound")
    BY Zenon DEF RunError
  <2> QED
    BY <2>1, <2>2, <2>3, <2>4, FilingCall, Zenon
<1> QED
  BY <1>1, <1>2, <1>3, Zenon

LEMMA WriteCall ==
    ASSUME FrontendTypeOK, calls < MaxCalls, NEW b, NEW n \in Names, NEW a \in Ages, NEW valid, NEW f,
           Write(b, n, a, valid, f)
    PROVE  GoodStep
<1>1. cacheDir' = TRUE
  BY Zenon DEF Write
<1>2. CASE ~valid
  <2>1. /\ Answer(b, "write", {n}, f, "other", a, FALSE)
        /\ UNCHANGED <<consent, sysConfig, dirs, local, uploaded>>
    BY <1>2, Zenon DEF Write
  <2> QED
    BY <1>1, <2>1, QuietCall, Zenon
<1>3. CASE valid
  <2>1. PICK e \in {"none", "notFound", "duplicate", "other"} :
          FileReport(n, f, a, e) /\ Answer(b, "write", {n}, f, e, a, FALSE)
    BY <1>3, Zenon DEF Write
  <2>2. "write" \in {"collect", "write"} /\ a = IF "write" = "write" THEN a ELSE "new"
    BY Zenon
  <2> QED
    BY <1>1, <2>1, <2>2, FilingCall, Zenon
<1> QED
  BY <1>2, <1>3, Zenon

LEMMA CompileCall ==
    ASSUME FrontendTypeOK, calls < MaxCalls, NEW b, NEW m, Compile(b, m)
    PROVE  GoodStep
<1>1. PICK e, v : Answer(b, "compile", {}, {}, e, v, FALSE)
  BY Zenon DEF Compile
<1>2. /\ cacheDir' \in {cacheDir, TRUE}
      /\ UNCHANGED <<consent, sysConfig, dirs, local, uploaded>>
  BY Zenon DEF Compile, FrontendTypeOK
<1> QED
  BY <1>1, <1>2, QuietCall, Zenon
\* An upload, given where it looks for sources when it is told of none: the command
\* line looks in the reports directory, and so handles all that are there.
LEMMA UploadFromCall ==
    ASSUME FrontendTypeOK, calls < MaxCalls, NEW b, NEW ns \in SUBSET Names, NEW f,
           NEW listing, UploadFrom(listing, b, ns, f), listing.found \subseteq Names,
           b = "cli" /\ listing.err = "none" => listing.found = dirs
    PROVE  GoodStep
<1>1. CASE /\ ns = {} /\ listing.err # "none" /\ UNCHANGED files
           /\ Answer(b, "upload", ns, f, listing.err, "none", FALSE)
  BY <1>1, QuietCall, Zenon DEF files
<1>2. CASE /\ ns # {} \/ listing.err = "none"
           /\ \E e \in {"none", "other"} :
                /\ UploadAll(IF ns = {} THEN listing.found ELSE ns, f, e)
                /\ Answer(b, "upload", ns, f, e, "none", FALSE)
  <2> DEFINE all == IF ns = {} THEN listing.found ELSE ns
  <2>1. PICK e : UploadAll(all, f, e) /\ Answer(b, "upload", ns, f, e, "none", FALSE)
    BY <1>2, Zenon
  <2>2. all \in SUBSET Names
    BY Zenon
  <2>3. (ns # {} => all = ns) /\ (ns = {} /\ b = "cli" => all = dirs)
    BY <1>2, Zenon
  <2> HIDE DEF all
  <2> QED
    BY <2>1, <2>2, <2>3, UploadCall, Zenon
<1> QED
  BY <1>1, <1>2, Zenon DEF UploadFrom

LEMMA UploadCommand ==
    ASSUME FrontendTypeOK, calls < MaxCalls, NEW ns \in SUBSET Names, NEW f, UploadRun(ns, f)
    PROVE  GoodStep
<1>1. /\ GetAllSources.found \subseteq Names
      /\ GetAllSources.err = "none" => GetAllSources.found = dirs
  <2>1. CASE cacheDir
    <3>1. GetAllSources.found = dirs
      BY <2>1, Zenon DEF GetAllSources
    <3> QED
      BY <3>1, Zenon DEF FrontendTypeOK, Names
  <2>2. CASE ~cacheDir
    <3>1. GetAllSources.found = {} /\ GetAllSources.err = "other"
      BY <2>2, Zenon DEF GetAllSources
    <3> QED
      BY <3>1, Zenon
  <2> QED
    BY <2>1, <2>2, Zenon
<1>2. UploadFrom(GetAllSources, "cli", ns, f)
  BY Zenon DEF UploadRun
<1> QED
  BY <1>1, <1>2, UploadFromCall, Zenon

LEMMA UploadByName ==
    ASSUME FrontendTypeOK, calls < MaxCalls, NEW b \in {"go", "c"}, NEW ns \in SUBSET Names, NEW f,
           Upload(b, ns, f)
    PROVE  GoodStep
<1>1. ListConsentDir.found = {}
  BY Zenon DEF ListConsentDir
<1>2. ListConsentDir.found \subseteq Names /\ b # "cli"
  BY <1>1, Zenon
<1>3. UploadFrom(ListConsentDir, b, ns, f)
  BY Zenon DEF Upload
<1> QED
  BY <1>2, <1>3, UploadFromCall, Zenon

\* Reading and setting the system opt-out.
LEMMA IsOptOutCall ==
    ASSUME FrontendTypeOK, calls < MaxCalls, NEW b, IsSystemOptOut(b)
    PROVE  GoodStep
<1>1. PICK e, v : Answer(b, "getOptOut", {}, {}, e, v, FALSE)
  BY Zenon DEF IsSystemOptOut
<1>2. UNCHANGED files
  BY Zenon DEF IsSystemOptOut
<1> QED
  BY <1>1, <1>2, QuietCall, Zenon DEF files

LEMMA SetOptOutCall ==
    ASSUME FrontendTypeOK, calls < MaxCalls, NEW b, NEW v, SetSystemOptOut(b, v)
    PROVE  GoodStep
<1>0. UNCHANGED <<consent, cacheDir, dirs, local, uploaded>>
  BY Zenon DEF SetSystemOptOut
<1>1. CASE SetOptOut(v) /\ Answer(b, "setOptOut", {}, {}, "none", v, FALSE)
  <2>1. sysConfig' \in {"optedOut", "optedIn"} /\ "setOptOut" \in {"setOptOut", "optOut"}
    BY <1>1, Zenon DEF SetOptOut
  <2> QED
    BY <1>0, <1>1, <2>1, OptOutCall, Zenon
<1>2. CASE UNCHANGED sysConfig /\ Answer(b, "setOptOut", {}, {}, "other", "none", FALSE)
  BY <1>0, <1>2, QuietCall, Zenon
<1>3. CASE SetOptOut(v) /\ Answer(b, "setOptOut", {}, {}, "other", "none", FALSE)
  <2>1. sysConfig' \in {"optedOut", "optedIn"} /\ "setOptOut" \in {"setOptOut", "optOut"}
    BY <1>3, Zenon DEF SetOptOut
  <2> QED
    BY <1>0, <1>3, <2>1, OptOutCall, Zenon
<1> QED
  BY <1>1, <1>2, <1>3, Zenon DEF SetSystemOptOut

LEMMA OptOutCommand ==
    ASSUME FrontendTypeOK, calls < MaxCalls, NEW v, SystemOptOutRun(v)
    PROVE  GoodStep
<1>0. UNCHANGED <<consent, cacheDir, dirs, local, uploaded>>
  BY Zenon DEF SystemOptOutRun
<1>1. CASE SetOptOut(v) /\ Answer("cli", "optOut", {}, {}, "none", v, FALSE)
  <2>1. sysConfig' \in {"optedOut", "optedIn"} /\ "optOut" \in {"setOptOut", "optOut"}
    BY <1>1, Zenon DEF SetOptOut
  <2> QED
    BY <1>0, <1>1, <2>1, OptOutCall, Zenon
<1>2. CASE UNCHANGED sysConfig /\ \E e, x, u : Answer("cli", "optOut", {}, {}, e, x, u)
  <2>1. PICK e, x, u : Answer("cli", "optOut", {}, {}, e, x, u)
    BY <1>2, Zenon
  <2> QED
    BY <1>0, <1>2, <2>1, QuietCall, Zenon
<1>3. CASE SetOptOut(v) /\ Answer("cli", "optOut", {}, {}, "other", "none", FALSE)
  <2>1. sysConfig' \in {"optedOut", "optedIn"} /\ "optOut" \in {"setOptOut", "optOut"}
    BY <1>3, Zenon DEF SetOptOut
  <2> QED
    BY <1>0, <1>3, <2>1, OptOutCall, Zenon
<1> QED
  BY <1>1, <1>2, <1>3, Zenon DEF SystemOptOutRun

\* A command that is refused does nothing.
LEMMA RefusedCommand ==
    ASSUME FrontendTypeOK, calls < MaxCalls, NEW op, Refused(op)
    PROVE  GoodStep
<1>1. PICK u \in BOOLEAN : Answer("cli", op, {}, {}, "other", "none", u)
  BY Zenon DEF Refused
<1>2. UNCHANGED files
  BY Zenon DEF Refused
<1> QED
  BY <1>1, <1>2, QuietCall, Zenon DEF files
\* Between calls, and when the caller goes on, nobody has been told anything.
LEMMA NobodyTold ==
    ASSUME answer' = NoAnswer PROVE CallersTold' /\ MetricsAllowed /\ DryKeeps
<1>1. answer'.op = "none"
  BY Zenon DEF NoAnswer
<1> QED
  BY <1>1, Zenon DEF CallersTold, UploadTold, UploadDone, CollectTold, ConsentTold,
                     MetricsAllowed, DryKeeps

LEMMA AgeStep ==
    ASSUME FrontendTypeOK, answer = NoAnswer, NEW s \in Sources, Age(s)
    PROVE  GoodStep
<1>1. /\ local \in [Sources -> Reports] /\ uploaded \in [Sources -> Reports]
      /\ \A r \in Sources \ dirs : local[r] = NoReports /\ uploaded[r] = NoReports
  BY Zenon DEF FrontendTypeOK
<1>2. \A x \in {"none", "full", "optout"} : [old |-> x, new |-> "none"] \in Reports
  BY DEF Reports, Ages
<1>3. local[s]["new"] \in {"none", "full", "optout"} /\ uploaded[s]["new"] \in {"none", "full", "optout"}
  BY <1>1, Zenon DEF Reports, Ages
<1>4. (local \in [Sources -> Reports])' /\ (uploaded \in [Sources -> Reports])'
  BY <1>1, <1>2, <1>3, Zenon DEF Age
<1>5. s \in dirs
  <2>1. NoReports["new"] = "none"
    BY Zenon DEF NoReports, Ages
  <2> QED
    BY <1>1, <2>1, Zenon DEF Age
<1>6. ASSUME NEW r \in Sources \ dirs PROVE local'[r] = NoReports /\ uploaded'[r] = NoReports
  <2>1. local'[r] = local[r] /\ uploaded'[r] = uploaded[r]
    BY <1>1, <1>5, Zenon DEF Age
  <2> QED
    BY <1>1, <2>1, Zenon
<1>7. UNCHANGED <<consent, sysConfig, cacheDir, dirs, answer, calls>>
  BY Zenon DEF Age
<1>8. FrontendTypeOK'
  BY <1>4, <1>6, <1>7, Zenon DEF FrontendTypeOK
<1> QED
  BY <1>7, <1>8, NobodyTold, Zenon DEF GoodStep

LEMMA SeenStep == ASSUME FrontendTypeOK, Seen PROVE GoodStep
<1>1. answer' = NoAnswer /\ UNCHANGED <<consent, sysConfig, cacheDir, dirs, local, uploaded, calls>>
  BY Zenon DEF Seen, files
<1>2. FrontendTypeOK'
  BY <1>1, Zenon DEF FrontendTypeOK
<1> QED
  BY <1>1, <1>2, NobodyTold, Zenon DEF GoodStep

\* Every step of every way in.
LEMMA FrontendStep == ASSUME FrontendTypeOK, FrontendNext PROVE GoodStep
<1>1. CASE Seen
  BY <1>1, SeenStep, Zenon
<1>2. CASE answer = NoAnswer /\ \E s \in Sources : Age(s)
  BY <1>2, AgeStep, Zenon
<1>3. CASE calls < MaxCalls /\ CommandLine
  <2>1. "" \in Names /\ "object" \in Metrics
    BY Zenon DEF Names, Metrics
  <2>2. CASE \E op : Refused(op)
    BY <1>3, <2>2, RefusedCommand, Zenon
  <2>3. CASE \E n \in Names, m \in Metrics, f \in Flags : CollectRun(n, m, f)
    BY <1>3, <2>3, CollectCommand, Zenon
  <2>4. CASE \E ns \in SUBSET Names, f \in Flags : UploadRun(ns, f)
    BY <1>3, <2>4, UploadCommand, Zenon
  <2>5. CASE \E k \in 0 .. 2 : \E ns \in [1 .. k -> Names], v \in Spellings : ConsentRun(ns, v)
    <3>1. \A k \in 0 .. 2 : k \in Nat
      OBVIOUS
    <3> QED
      BY <1>3, <2>5, <3>1, ConsentCommand, Zenon
  <2>6. CASE \E v : SystemOptOutRun(v)
    BY <1>3, <2>6, OptOutCommand, Zenon
  <2> QED
    BY <1>3, <2>1, <2>2, <2>3, <2>4, <2>5, <2>6, Zenon DEF CommandLine
<1>4. ASSUME calls < MaxCalls, NEW b \in {"go", "c"},
             \/ \E n \in Names, m \in Metrics, f \in Flags : Collect(b, n, m, f)
             \/ \E m : Compile(b, m)
             \/ \E n \in Names, a \in Ages, valid \in BOOLEAN, f \in Flags : Write(b, n, a, valid, f)
             \/ \E ns \in SUBSET Names, f \in Flags : Upload(b, ns, f)
             \/ \E n \in Names : GetConsentState(b, n)
             \/ \E n \in Names, v \in {"true", "false"} : SetConsentState(b, n, v)
             \/ IsSystemOptOut(b)
             \/ \E v : SetSystemOptOut(b, v)
      PROVE  GoodStep
  <2>1. CASE \E n \in Names, m \in Metrics, f \in Flags : Collect(b, n, m, f)
    BY <1>4, <2>1, CollectCall, Zenon
  <2>2. CASE \E m : Compile(b, m)
    BY <1>4, <2>2, CompileCall, Zenon
  <2>3. CASE \E n \in Names, a \in Ages, valid \in BOOLEAN, f \in Flags : Write(b, n, a, valid, f)
    BY <1>4, <2>3, WriteCall, Zenon
  <2>4. CASE \E ns \in SUBSET Names, f \in Flags : Upload(b, ns, f)
    BY <1>4, <2>4, UploadByName, Zenon
  <2>5. CASE \E n \in Names : GetConsentState(b, n)
    BY <1>4, <2>5, GetConsentCall, Zenon
  <2>6. CASE \E n \in Names, v \in {"true", "false"} : SetConsentState(b, n, v)
    BY <1>4, <2>6, SetConsentCall, Zenon
  <2>7. CASE IsSystemOptOut(b)
    BY <1>4, <2>7, IsOptOutCall, Zenon
  <2>8. CASE \E v : SetSystemOptOut(b, v)
    BY <1>4, <2>8, SetOptOutCall, Zenon
  <2> QED
    BY <1>4, <2>1, <2>2, <2>3, <2>4, <2>5, <2>6, <2>7, <2>8, Zenon
<1>5. CASE calls < MaxCalls /\ GoPackage
  BY <1>4, <1>5, Zenon DEF GoPackage
<1>6. CASE calls < MaxCalls /\ CFunctions
  BY <1>4, <1>6, Zenon DEF CFunctions, CollectCustomInsights, CompileCustomInsights,
     WriteCustomInsights, UploadCustomInsights, GetCustomConsentState, SetCustomConsentState,
     GetCustomSystemOptOut, SetCustomSystemOptOutState
<1> QED
  BY <1>1, <1>2, <1>3, <1>5, <1>6, Zenon DEF FrontendNext

LEMMA FrontendInitOK == ASSUME FrontendInit PROVE FrontendTypeOK /\ CallersTold
<1>1. consent \in [Sources -> Contents]
  BY FrontendAssumption, Zenon DEF FrontendInit, Contents
<1>2. sysConfig \in Configs /\ cacheDir \in BOOLEAN /\ (dirs # {} => cacheDir)
  BY Zenon DEF FrontendInit, Configs
<1>3. dirs \in SUBSET Sources
  BY Zenon DEF FrontendInit
<1>4. /\ EarlierReports("full") \subseteq Reports
      /\ EarlierReports("optout") \subseteq Reports
  BY Zenon DEF EarlierReports, NoReports, Reports
<1>5. local \in [Sources -> Reports] /\ uploaded \in [Sources -> Reports]
  BY <1>4, Zenon DEF FrontendInit
<1>6. calls \in 0 .. MaxCalls
  <2>1. MaxCalls \in Nat /\ calls = 0
    BY FrontendAssumption, Zenon DEF FrontendInit
  <2> QED
    BY <2>1
<1>7. FrontendTypeOK
  BY <1>1, <1>2, <1>3, <1>5, <1>6, Zenon DEF FrontendInit, FrontendTypeOK
<1>8. answer.op = "none"
  BY Zenon DEF FrontendInit, NoAnswer
<1> QED
  BY <1>7, <1>8, Zenon DEF CallersTold, UploadTold, UploadDone, CollectTold, ConsentTold
-----------------------------------------------------------------------------
(***************************************************************************)
(* The library.                                                            *)
(***************************************************************************)
\* Each part keeps its invariant, in its own steps and while another one runs.
LibraryInv == FrontendTypeOK /\ CallersTold /\ R!RetentionTypeOK /\ RetentionRight /\ CInv

LEMMA LibraryInitInv == ASSUME LibraryInit PROVE LibraryInv
  BY FrontendInitOK, RetentionInitOK, CInitInv, Zenon DEF LibraryInit, LibraryInv

\* What a part says of its variables stays so while they do.
LEMMA FrontendStays ==
    ASSUME FrontendTypeOK, CallersTold, UNCHANGED frontend
    PROVE  FrontendTypeOK' /\ CallersTold'
<1>1. UNCHANGED <<consent, sysConfig, cacheDir, dirs, local, uploaded, answer, calls>>
  BY Zenon DEF frontend, files
<1>2. FrontendTypeOK'
  BY <1>1, Zenon DEF FrontendTypeOK
<1>3. \A n : /\ HonouredState(n)' = HonouredState(n) /\ SourceState(n)' = SourceState(n)
             /\ Payload(n)' = Payload(n)
  BY <1>1, StatesStay, Zenon
<1>4. UploadTold'
  BY <1>1, <1>3, Zenon DEF CallersTold, UploadTold, UploadDone, Asked, Eligible
<1>5. CollectTold'
  BY <1>1, <1>3, Zenon DEF CallersTold, CollectTold, FileOf
<1>6. ConsentTold'
  BY <1>1, <1>3, Zenon DEF CallersTold, ConsentTold
<1> QED
  BY <1>2, <1>4, <1>5, <1>6, Zenon DEF CallersTold

LEMMA RetentionStays ==
    ASSUME R!RetentionTypeOK, RetentionRight, UNCHANGED retention
    PROVE  R!RetentionTypeOK' /\ RetentionRight'
<1>1. UNCHANGED <<dir, before, last>>
  BY Zenon DEF retention
<1>2. R!RetentionTypeOK'
  BY <1>1, Zenon DEF R!RetentionTypeOK, R!Times, R!MinInt, R!MaxInt
<1>3. RetentionRight'
  BY <1>1, Zenon 
  DEF RetentionRight, R!ExistsRight, R!ClearRight, R!CleanupKeepsNewest, R!InWindow, R!Near,
      R!MaxInt
<1> QED
  BY <1>2, <1>3, Zenon

LEMMA CStays == ASSUME CInv, UNCHANGED clib PROVE CInv'
  BY Zenon DEF CInv, CallInv, clib, C!CTypeOK, C!Null, C!ChosenLogger, CLibraryRight, C!FreedOnce,
               C!MessagesReachCallback

\* A step of the library: the invariant is kept, and the files change as they may.
LEMMA LibraryStep ==
    ASSUME LibraryInv, [LibraryNext]_libraryVars
    PROVE  LibraryInv' /\ ((MetricsAllowed /\ DryKeeps) \/ UNCHANGED frontend)
<1>1. CASE part = "frontend" /\ FrontendNext /\ UNCHANGED <<part, retention, clib>>
  <2>1. GoodStep
    BY <1>1, FrontendStep, Zenon DEF LibraryInv
  <2>2. UNCHANGED retention /\ UNCHANGED clib
    BY <1>1, Zenon
  <2> QED
    BY <2>1, <2>2, RetentionStays, CStays, Zenon DEF LibraryInv, GoodStep
<1>2. CASE part = "retention" /\ R!RetentionNext /\ UNCHANGED <<part, frontend, clib>>
  <2>1. UNCHANGED frontend /\ UNCHANGED clib
    BY <1>2, Zenon
  <2> QED
    BY <1>2, <2>1, RetentionStep, FrontendStays, CStays, Zenon DEF LibraryInv
<1>3. CASE part = "clib" /\ C!CNext /\ UNCHANGED <<part, frontend, retention>>
  <2>1. UNCHANGED frontend /\ UNCHANGED retention
    BY <1>3, Zenon
  <2>2. CInv'
    BY <1>3, SetKeepsC, ThreadKeepsC, Zenon DEF LibraryInv, C!CNext
  <2> QED
    BY <2>1, <2>2, FrontendStays, RetentionStays, Zenon DEF LibraryInv
<1>4. CASE UNCHANGED libraryVars
  <2>1. UNCHANGED frontend /\ UNCHANGED retention /\ UNCHANGED clib
    BY <1>4, Zenon DEF libraryVars
  <2> QED
    BY <2>1, FrontendStays, RetentionStays, CStays, Zenon DEF LibraryInv
<1> QED
  BY <1>1, <1>2, <1>3, <1>4, Zenon DEF LibraryNext

\* The invariant of the library holds throughout.
THEOREM LibraryAlways == LibrarySpec => []LibraryInv
<1>1. LibraryInit => LibraryInv
  BY LibraryInitInv, Zenon
<1>2. LibraryInv /\ [LibraryNext]_libraryVars => LibraryInv'
  BY LibraryStep, Zenon
<1> QED
  BY <1>1, <1>2, PTL DEF LibrarySpec

\* The variables of the library keep their types, for any sources, threads and word
\* size; reports lie in directories that exist (upload.go:247-256, collector.go:148).
THEOREM LibraryTypes == LibrarySpec => []LibraryTypeOK
<1>1. LibraryInv => LibraryTypeOK
  BY Zenon DEF LibraryInv, CInv, LibraryTypeOK
<1> QED
  BY <1>1, LibraryAlways, PTL

\* What a caller is told is so, for any sources and any sequence of calls, through
\* the command line, the Go package and the C library: an upload that succeeds has
\* left nothing that was due (uploader/upload.go:31-64), a collection that succeeds
\* has filed the report that consent allows (api.go:134-138), and the consent a
\* caller hears of is that of the files (commands/consent.go:62-115).
THEOREM CallersAreTold == LibrarySpec => []CallersTold
<1>1. LibraryInv => CallersTold
  BY Zenon DEF LibraryInv
<1> QED
  BY <1>1, LibraryAlways, PTL

\* Whatever is called, metrics of a source are filed or sent only with the consent of
\* that source and while the system is not opted out (consent.go:67-115), a dry run
\* changes no file, and only an upload touches the uploaded reports.
THEOREM FilesChangeOnlyAsAllowed == LibrarySpec => FilesChangeAsAllowed
<1>1. LibraryInv /\ [LibraryNext]_libraryVars => [MetricsAllowed]_frontend /\ [DryKeeps]_frontend
  BY LibraryStep, Zenon
<1>2. LibrarySpec => [][MetricsAllowed]_frontend /\ [][DryKeeps]_frontend
  BY <1>1, LibraryAlways, PTL DEF LibrarySpec
<1> QED
  BY <1>2, PTL DEF FilesChangeAsAllowed, PerSourceConsent, DryRunKeeps, MetricsAllowed, DryKeeps

\* DuplicateExists, ClearPeriod and Cleanup do exactly what RetentionRight says, for
\* words of any width, any period that fits one and any reports, also where the
\* beginning of the period would lie before the smallest timestamp, where removals
\* fail and where the comparator of Cleanup wraps.  That Cleanup spares the most
\* recent reports is said only of reports less than half the range apart
\* (report.go:132-228).
THEOREM RetentionIsRight == LibrarySpec => []RetentionRight
<1>1. LibraryInv => RetentionRight
  BY Zenon DEF LibraryInv
<1> QED
  BY <1>1, LibraryAlways, PTL

\* Any number of threads in the C library free every report once, and every message
\* of a call reaches the callback that was set when it began, unless it is changed
\* meanwhile (libinsights.go:71-90, 128-147, 379-401).
THEOREM CLibraryIsRight == LibrarySpec => []CLibraryRight
<1>1. LibraryInv => CLibraryRight
  BY Zenon DEF LibraryInv, CInv
<1> QED
  BY <1>1, LibraryAlways, PTL

=============================================================================
