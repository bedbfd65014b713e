--------------------------- MODULE WaitingProofs ---------------------------
(***************************************************************************)
(* Proofs about the parts of the client that wait, for any number of       *)
(* sources, attempts, bits of a duration, callers and outputs: the pauses  *)
(* between two uploads and what UploadAll tells of them, the screens a     *)
(* compositor is asked for, and the parts of a report.                     *)
(***************************************************************************)
EXTENDS Waiting, Sequences, FiniteSetTheorems, WellFoundedInduction, NaturalsInduction,
        TLAPS

-----------------------------------------------------------------------------
(***************************************************************************)
(* The screens.                                                            *)
(***************************************************************************)
Bound == {"connect", "globals", "dispatch", "read"}

Clean == outputs = "null" /\ displays = "null" /\ count = 0 /\ capacity = 4

\* Who holds the mutex is inside, and nobody else.
MutexInv ==
    /\ holder \in Callers \cup {Y!Nobody}
    /\ wAt \in [Callers -> Y!Inside \cup {"idle", "xrandr", "done"}]
    /\ \A c \in Callers : wAt[c] \in Y!Inside <=> holder = c

\* What the caller inside finds in the globals.
ArraysInv ==
    /\ present \in 0 .. MaxOutputs /\ seen \in 0 .. MaxOutputs
    /\ count \in Nat /\ capacity \in Nat /\ memoryError \in BOOLEAN
    /\ holder = Y!Nobody => Clean
    /\ \A c \in Callers :
         /\ wAt[c] = "alloc" => Clean
         /\ wAt[c] \in Bound =>
              /\ outputs = "valid" /\ displays = "valid"
              /\ room = capacity /\ capacity >= 4 /\ count <= capacity /\ count <= seen
              /\ memoryError = FALSE => count = seen
         /\ wAt[c] \in {"alloc", "connect"} => seen = 0
         /\ wAt[c] \in Y!Inside => seen <= present
         /\ wAt[c] \in {"dispatch", "read"} => seen = present

\* What a caller has got once it is outside again.
GotInv ==
    /\ got \in [Callers -> 0 .. MaxOutputs]
    /\ \A c \in Callers :
         /\ wAt[c] = "xrandr" => got[c] = 0
         /\ wAt[c] = "done" => got[c] \in {0, present}

ScreensInv == MutexInv /\ ArraysInv /\ GotInv /\ broken = FALSE

LEMMA MutexStep ==
    ASSUME MutexInv, [Y!WaylandNext]_(Y!wayland)
    PROVE  MutexInv'
<1> USE WaitingAssumption DEF MutexInv, Y!Inside, Y!Nobody
<1>1. CASE UNCHANGED Y!wayland
  BY <1>1, Zenon DEF Y!wayland
<1>2. ASSUME NEW c \in Callers, Y!Lock(c) PROVE MutexInv'
  BY <1>2, Zenon DEF Y!Lock, Y!Goto
<1>3. ASSUME NEW c \in Callers, wAt[c] \in Y!Inside,
             NEW l \in Y!Inside, Y!Goto(c, l), UNCHANGED holder
      PROVE  MutexInv'
  BY <1>3, Zenon DEF Y!Goto
<1>4. ASSUME NEW c \in Callers, wAt[c] \in Y!Inside, NEW n, Y!Unlock(c, n)
      PROVE  MutexInv'
  BY <1>4, Zenon DEF Y!Unlock, Y!Goto
<1>5. ASSUME NEW c \in Callers, Y!Alloc(c) PROVE MutexInv'
  BY <1>3, <1>4, <1>5, Zenon DEF Y!Alloc
<1>6. ASSUME NEW c \in Callers, NEW from \in Y!Inside, NEW to \in Y!Inside,
             Y!Attempt(c, from, to)
      PROVE  MutexInv'
  BY <1>3, <1>4, <1>6, Zenon DEF Y!Attempt
<1>7. ASSUME NEW c \in Callers, Y!Connect(c) \/ Y!Roundtrip(c) \/ Y!Dispatch(c)
      PROVE  MutexInv'
  BY <1>6, <1>7, Zenon DEF Y!Connect, Y!Roundtrip, Y!Dispatch
<1>8. ASSUME NEW c \in Callers, Y!GlobalHandler(c) \/ Y!Xrandr(c) PROVE MutexInv'
  BY <1>8, Zenon DEF Y!GlobalHandler, Y!Xrandr, Y!Goto
<1>9. ASSUME NEW c \in Callers, Y!Read(c) PROVE MutexInv'
  BY <1>4, <1>9, Zenon DEF Y!Read
<1> QED
  BY <1>1, <1>2, <1>5, <1>7, <1>8, <1>9, Zenon DEF Y!WaylandNext, Y!Caller

\* Only the holder is inside, so what holds of the globals for it is all there is.
LEMMA ArraysStep ==
    ASSUME "growth" \notin Failures, MutexInv, ArraysInv, [Y!WaylandNext]_(Y!wayland)
    PROVE  ArraysInv'
<1> USE WaitingAssumption DEF ArraysInv, Clean, Bound, Y!Inside, Y!Nobody, Y!arrays
<1>0. /\ MutexInv' /\ wAt \in [Callers -> Y!Inside \cup {"idle", "xrandr", "done"}]
      /\ \A c, d \in Callers : wAt[c] \in Y!Inside /\ wAt[d] \in Y!Inside => c = d
  BY MutexStep, Zenon DEF MutexInv
<1>1. CASE UNCHANGED Y!wayland
  <2>1. UNCHANGED <<present, holder, wAt, outputs, displays, room, count, capacity,
                    memoryError, seen>>
    BY <1>1, Zenon DEF Y!wayland
  <2> QED
    BY <2>1, Zenon
<1>2. ASSUME NEW c \in Callers, Y!Lock(c) PROVE ArraysInv'
  BY <1>0, <1>2 DEF Y!Lock, Y!Goto, MutexInv
<1>3. ASSUME NEW c \in Callers, Y!Alloc(c) PROVE ArraysInv'
  <2>1. wAt[c] = "alloc" /\ Clean /\ seen = 0 /\ UNCHANGED <<present, count, capacity, seen>>
    BY <1>3, Zenon DEF Y!Alloc
  <2>2. \A d \in Callers : wAt[d] \in Y!Inside => d = c
    BY <1>0, <2>1, Zenon
  <2>3. CASE /\ outputs' = "valid" /\ displays' = "valid" /\ room' = capacity
             /\ Y!Goto(c, "connect") /\ UNCHANGED <<holder, memoryError>>
    BY <1>0, <2>1, <2>2, <2>3 DEF Y!Goto, MutexInv
  <2>4. CASE /\ outputs' = "null" /\ displays' = "null" /\ memoryError' = TRUE
             /\ Y!Unlock(c, 0)
    BY <1>0, <2>1, <2>2, <2>4 DEF Y!Goto, Y!Unlock, MutexInv
  <2> QED
    BY <1>3, <2>3, <2>4, Zenon DEF Y!Alloc
<1>4. ASSUME NEW c \in Callers, wAt[c] \in Bound, Y!Cleanup, NEW n, Y!Unlock(c, n),
             UNCHANGED <<present, seen>>
      PROVE  ArraysInv'
  BY <1>0, <1>4, ZenonT(40) DEF Y!Cleanup, Y!Unlock, Y!Goto, MutexInv
<1>5. ASSUME NEW c \in Callers, NEW to \in {"globals", "dispatch", "read"},
             wAt[c] \in Bound, Y!Goto(c, to), to # "globals" => seen = present,
             UNCHANGED <<present, seen, holder, got, Y!arrays, memoryError, broken>>
      PROVE  ArraysInv'
  BY <1>0, <1>5, Zenon DEF Y!Goto, MutexInv
<1>6. ASSUME NEW c \in Callers, Y!Connect(c) \/ Y!Roundtrip(c) \/ Y!Dispatch(c)
      PROVE  ArraysInv'
  <2>1. CASE Y!Connect(c) \/ Y!Dispatch(c)
    BY <1>4, <1>5, <2>1, Zenon DEF Y!Connect, Y!Dispatch, Y!Attempt
  <2>2. CASE Y!Roundtrip(c)
    <3>1. wAt[c] \in Bound /\ UNCHANGED <<present, seen>>
      BY <2>2, Zenon DEF Y!Roundtrip, Y!Attempt
    <3>2. CASE Y!Cleanup /\ Y!Unlock(c, 0)
      BY <1>4, <3>1, <3>2, Zenon
    <3>3. CASE /\ Y!Goto(c, "dispatch")
               /\ UNCHANGED <<holder, got, Y!arrays, memoryError, broken>>
      <4>1. wAt'[c] = "dispatch"
        BY <1>0, <3>3, Zenon DEF Y!Goto
      <4>2. seen = present
        BY <2>2, <4>1, Zenon DEF Y!Roundtrip
      <4> QED
        BY <1>5, <3>1, <3>3, <4>2, Zenon
    <3> QED
      BY <2>2, <3>2, <3>3, Zenon DEF Y!Roundtrip, Y!Attempt
  <2> QED
    BY <1>6, <2>1, <2>2, Zenon
<1>7. ASSUME NEW c \in Callers, Y!GlobalHandler(c) PROVE ArraysInv'
  <2>1. /\ wAt[c] = "globals" /\ seen < present /\ seen' = seen + 1
        /\ UNCHANGED <<present, holder, wAt, outputs, displays>>
        /\ \/ memoryError' = TRUE /\ UNCHANGED count
           \/ UNCHANGED memoryError /\ count' = count + 1
        /\ \/ UNCHANGED <<capacity, room>> /\ count < capacity
           \/ capacity' = 2 * capacity /\ room' = 2 * capacity
    BY <1>7 DEF Y!GlobalHandler, Y!GrowthFails, Y!Grown, Y!Fails
  <2>2. /\ room' = capacity' /\ capacity' \in Nat /\ capacity' >= 4 /\ count' \in Nat
        /\ count' <= capacity' /\ count' <= seen' /\ seen' \in 0 .. MaxOutputs
        /\ memoryError' = FALSE => count' = seen'
    BY <2>1
  <2>3. memoryError' \in BOOLEAN
    BY <2>1, Zenon
  <2>4. \A d \in Callers : wAt[d] \in Y!Inside => d = c
    BY <1>0, <2>1, Zenon
  <2>5. holder # "nobody"
    BY <2>1, Zenon DEF MutexInv
  <2> QED
    BY <2>1, <2>2, <2>3, <2>4, <2>5
<1>8. ASSUME NEW c \in Callers, Y!Read(c) PROVE ArraysInv'
  BY <1>4, <1>8, Zenon DEF Y!Read
<1>9. ASSUME NEW c \in Callers, Y!Xrandr(c) PROVE ArraysInv'
  BY <1>0, <1>9, Zenon DEF Y!Xrandr, Y!Goto, MutexInv
<1> QED
  BY <1>1, <1>2, <1>3, <1>6, <1>7, <1>8, <1>9, Zenon DEF Y!WaylandNext, Y!Caller

LEMMA GotStep ==
    ASSUME MutexInv, ArraysInv, GotInv, [Y!WaylandNext]_(Y!wayland)
    PROVE  GotInv'
<1> USE DEF GotInv, Y!Inside
<1>0. /\ wAt \in [Callers -> Y!Inside \cup {"idle", "xrandr", "done"}]
      /\ present \in 0 .. MaxOutputs /\ count \in Nat /\ MaxOutputs \in Nat
  BY WaitingAssumption, Zenon DEF MutexInv, ArraysInv
<1>1. CASE UNCHANGED Y!wayland
  BY <1>1, Zenon DEF Y!wayland
<1>2. ASSUME NEW c \in Callers, UNCHANGED <<got, present>>,
             \/ UNCHANGED wAt
             \/ \E l \in Y!Inside : Y!Goto(c, l)
             \/ wAt[c] = "xrandr" /\ Y!Goto(c, "done")
      PROVE  GotInv'
  BY <1>0, <1>2, Zenon DEF Y!Goto
<1>3. ASSUME NEW c \in Callers, NEW n \in {0, present}, Y!Unlock(c, n), UNCHANGED present
      PROVE  GotInv'
  BY <1>0, <1>3 DEF Y!Unlock, Y!Goto
<1>4. ASSUME NEW c \in Callers, NEW from, NEW to \in Y!Inside, Y!Attempt(c, from, to)
      PROVE  GotInv'
  BY <1>2, <1>3, <1>4, Zenon DEF Y!Attempt
<1>5. ASSUME NEW c \in Callers, Y!Connect(c) \/ Y!Roundtrip(c) \/ Y!Dispatch(c)
      PROVE  GotInv'
  BY <1>4, <1>5, Zenon DEF Y!Connect, Y!Roundtrip, Y!Dispatch
<1>6. ASSUME NEW c \in Callers, Y!Lock(c) \/ Y!GlobalHandler(c) \/ Y!Xrandr(c)
      PROVE  GotInv'
  BY <1>2, <1>6, Zenon DEF Y!Lock, Y!GlobalHandler, Y!Xrandr
<1>7. ASSUME NEW c \in Callers, Y!Alloc(c) PROVE GotInv'
  BY <1>2, <1>3, <1>7, Zenon DEF Y!Alloc
<1>8. ASSUME NEW c \in Callers, Y!Read(c) PROVE GotInv'
  <2>1. (IF memoryError THEN 0 ELSE count) \in {0, present}
    BY <1>8, Zenon DEF Y!Read, ArraysInv, Bound
  <2> QED
    BY <1>3, <1>8, <2>1, Zenon DEF Y!Read
<1> QED
  BY <1>1, <1>5, <1>6, <1>7, <1>8, Zenon DEF Y!WaylandNext, Y!Caller

LEMMA UnbrokenStep ==
    ASSUME "growth" \notin Failures, ArraysInv, broken = FALSE,
           [Y!WaylandNext]_(Y!wayland)
    PROVE  broken' = FALSE
<1>1. CASE UNCHANGED Y!wayland
  BY <1>1, Zenon DEF Y!wayland
<1>2. ASSUME NEW c \in Callers, wAt[c] \in Bound, Y!Cleanup PROVE broken' = FALSE
  <2>1. outputs # "freed" /\ displays # "freed"
    BY <1>2, Zenon DEF ArraysInv
  <2> QED
    BY <1>2, <2>1, Zenon DEF Y!Cleanup
<1>3. ASSUME NEW c \in Callers, NEW from \in Bound, NEW to, Y!Attempt(c, from, to)
      PROVE  broken' = FALSE
  BY <1>2, <1>3, Zenon DEF Y!Attempt
<1>4. ASSUME NEW c \in Callers, Y!Connect(c) \/ Y!Roundtrip(c) \/ Y!Dispatch(c)
      PROVE  broken' = FALSE
  BY <1>3, <1>4, Zenon DEF Y!Connect, Y!Roundtrip, Y!Dispatch, Bound
<1>5. ASSUME NEW c \in Callers, Y!Lock(c) \/ Y!Alloc(c) \/ Y!Xrandr(c)
      PROVE  broken' = FALSE
  BY <1>5, Zenon DEF Y!Lock, Y!Alloc, Y!Xrandr
<1>6. ASSUME NEW c \in Callers, Y!Read(c) PROVE broken' = FALSE
  BY <1>2, <1>6, Zenon DEF Y!Read, Bound
<1>7. ASSUME NEW c \in Callers, Y!GlobalHandler(c) PROVE broken' = FALSE
  <2>1. /\ outputs # "freed" /\ displays # "freed" /\ room = capacity
        /\ room \in Nat /\ room >= 4 /\ count \in Nat /\ count <= room
    BY <1>7, Zenon DEF Y!GlobalHandler, ArraysInv, Bound
  <2>2. \/ UNCHANGED room /\ ~(count >= room)
        \/ room' = 2 * room
    BY <1>7, <2>1, Zenon DEF Y!GlobalHandler, Y!GrowthFails, Y!Fails, Y!Grown
  <2>3. ~(count >= room')
    BY <2>1, <2>2
  <2>4. \/ UNCHANGED broken
        \/ broken' = (broken \/ count >= room' \/ outputs = "freed" \/ displays = "freed")
    BY <1>7, Zenon DEF Y!GlobalHandler, Y!GrowthFails
  <2> QED
    BY <2>1, <2>3, <2>4, Zenon
<1> QED
  BY <1>1, <1>4, <1>5, <1>6, <1>7, Zenon DEF Y!WaylandNext, Y!Caller

LEMMA ScreensInitInv == Y!WaylandInit => ScreensInv
<1> SUFFICES ASSUME Y!WaylandInit PROVE ScreensInv
  OBVIOUS
<1> USE WaitingAssumption DEF Y!WaylandInit, Y!Nobody, Y!Inside
<1>1. MutexInv
  BY Zenon DEF MutexInv
<1>2. ArraysInv
  <2>1. /\ memoryError \in BOOLEAN
        /\ \A c \in Callers : wAt[c] = "idle"
    BY Zenon
  <2> QED
    BY <2>1 DEF ArraysInv, Clean, Bound
<1>3. GotInv
  BY DEF GotInv
<1>4. broken = FALSE
  BY Zenon
<1> QED
  BY <1>1, <1>2, <1>3, <1>4, Zenon DEF ScreensInv

LEMMA ScreensStepInv ==
    ASSUME "growth" \notin Failures
    PROVE  ScreensInv /\ [Y!WaylandNext]_(Y!wayland) => ScreensInv'
BY MutexStep, ArraysStep, GotStep, UnbrokenStep, Zenon DEF ScreensInv
-----------------------------------------------------------------------------
(***************************************************************************)
(* The uploads.                                                            *)
(***************************************************************************)
\* Who has been joined, and that nobody is forgotten.
JoinedInv ==
    /\ all \in {"starting", "waiting", "returned"}
    /\ at \in [Sources -> {"queued", "upload", "decide", "sleep", "join", "done"}]
    /\ last \in [Sources -> Outcomes]
    /\ joined = {s \in Sources : at[s] = "done" /\ last[s] \cap {"send", "other"} # {}}
    /\ all # "starting" => \A s \in Sources : at[s] # "queued"
    /\ all = "returned" => \A s \in Sources : at[s] = "done"

\* The counter of a source tells the bound of its last pause.
PausesInv ==
    /\ attempts \in [Sources -> 0 .. MaxAttempts + 1]
    /\ period \in [Sources -> Int]
    /\ \A s \in Sources :
         /\ period[s] = IF attempts[s] = 0 THEN 0 ELSE Period(attempts[s] - 1)
         /\ at[s] \in {"upload", "decide", "sleep"} => attempts[s] <= MaxAttempts
         /\ at[s] = "queued" => attempts[s] = 0

-----------------------------------------------------------------------------
(***************************************************************************)
(* Shl is defined by recursion.  A set of natural numbers has a least      *)
(* element, and the least n at which a claim failed would contradict it:   *)
(* that is the induction used here.                                        *)
(***************************************************************************)
Less == {p \in Nat \X Nat : p[1] < p[2]}

LEMMA LeastElement ==
    ASSUME NEW T \in SUBSET Nat, T # {}
    PROVE  \E x \in T : \A y \in T : x <= y
<1>1. Less = OpToRel(<, Nat)
  BY Zenon DEF Less, OpToRel
<1>2. IsWellFoundedOn(Less, Nat)
  BY <1>1, NatLessThanWellFounded, Zenon
<1>3. T \subseteq Nat
  OBVIOUS
<1>4. \E x \in T : \A y \in T : ~(<<y, x>> \in Less)
  BY <1>2, <1>3, WFMin, Zenon
<1>5. ASSUME NEW x \in T, NEW y \in T, ~(<<y, x>> \in Less) PROVE x <= y
  <2>1. x \in Nat /\ y \in Nat
    OBVIOUS
  <2>2. ~(y < x)
    BY <1>5, <2>1, Zenon DEF Less
  <2> QED
    BY <2>1, <2>2
<1> QED
  BY <1>4, <1>5, Zenon

\* g doubles, up to n.
Doubles(g, n) == \A k \in 0 .. n : g[k] = IF k = 0 THEN 1 ELSE 2 * g[k - 1]

LEMMA DoublingExists == \A n \in Nat : \E g \in [0 .. n -> Nat] : Doubles(g, n)
<1> DEFINE T == {n \in Nat : ~\E g \in [0 .. n -> Nat] : Doubles(g, n)}
<1>1. SUFFICES ASSUME T # {} PROVE FALSE
  BY Zenon
<1>2. PICK n \in T : \A y \in T : n <= y
  BY <1>1, LeastElement, Zenon
<1>3. n # 0
  <2>1. /\ [k \in 0 .. 0 |-> 1] \in [0 .. 0 -> Nat]
        /\ Doubles([k \in 0 .. 0 |-> 1], 0)
    BY DEF Doubles
  <2> QED
    BY <2>1, Zenon
<1>4. n \in Nat /\ n - 1 \in Nat /\ n - 1 \notin T
  BY <1>2, <1>3
<1>5. PICK g \in [0 .. n - 1 -> Nat] : Doubles(g, n - 1)
  BY <1>4, Zenon
<1>6. [k \in 0 .. n |-> IF k = n THEN 2 * g[n - 1] ELSE g[k]] \in [0 .. n -> Nat]
  BY <1>4, <1>5
<1>7. Doubles([k \in 0 .. n |-> IF k = n THEN 2 * g[n - 1] ELSE g[k]], n)
  BY <1>3, <1>4, <1>5 DEF Doubles
<1> QED
  BY <1>2, <1>6, <1>7, Zenon

LEMMA DoublingUnique ==
    ASSUME NEW m \in Nat, NEW n \in Nat, NEW g, NEW h, Doubles(g, m), Doubles(h, n)
    PROVE  \A k \in Nat : k <= m /\ k <= n => g[k] = h[k]
<1> DEFINE T == {k \in Nat : k <= m /\ k <= n /\ g[k] # h[k]}
<1>1. SUFFICES ASSUME T # {} PROVE FALSE
  OBVIOUS
<1>2. PICK k \in T : \A y \in T : k <= y
  BY <1>1, LeastElement, Zenon
<1>3. k # 0
  BY DEF Doubles
<1>4. k \in 0 .. m /\ k \in 0 .. n /\ k - 1 \in Nat /\ k - 1 \notin T
  BY <1>2, <1>3
<1>5. g[k - 1] = h[k - 1]
  BY <1>4
<1> QED
  BY <1>3, <1>4, <1>5, Zenon DEF Doubles

LEMMA ShlDef == Shl = [n \in Nat |-> IF n = 0 THEN 1 ELSE 2 * Shl[n - 1]]
<1> DEFINE G(n) == CHOOSE g \in [0 .. n -> Nat] : Doubles(g, n)
<1>1. \A n \in Nat : G(n) \in [0 .. n -> Nat] /\ Doubles(G(n), n)
  BY DoublingExists, Zenon
<1> HIDE DEF G
<1> DEFINE F == [n \in Nat |-> G(n)[n]]
<1>2. ASSUME NEW n \in Nat PROVE F[n] = IF n = 0 THEN 1 ELSE 2 * F[n - 1]
  <2>1. Doubles(G(n), n) /\ n \in 0 .. n
    BY <1>1
  <2>2. G(n)[n] = IF n = 0 THEN 1 ELSE 2 * G(n)[n - 1]
    BY <2>1, Zenon DEF Doubles
  <2>3. CASE n = 0
    BY <2>2, <2>3, Zenon
  <2>4. CASE n # 0
    <3>1. n - 1 \in Nat /\ n - 1 <= n
      BY <2>4
    <3>2. G(n)[n - 1] = G(n - 1)[n - 1]
      BY <1>1, <3>1, DoublingUnique
    <3> QED
      BY <2>2, <2>4, <3>1, <3>2, Zenon
  <2> QED
    BY <2>3, <2>4, Zenon
<1>3. F = [n \in Nat |-> F[n]]
  OBVIOUS
<1> HIDE DEF F
<1>4. F = [n \in Nat |-> IF n = 0 THEN 1 ELSE 2 * F[n - 1]]
  BY <1>2, <1>3, Zenon
<1>5. \E f : f = [n \in Nat |-> IF n = 0 THEN 1 ELSE 2 * f[n - 1]]
  BY <1>4, Zenon
<1> QED
  BY <1>5, Zenon DEF Shl

LEMMA ShlDoubles ==
    /\ Shl[0] = 1
    /\ \A n \in Nat : Shl[n] \in Nat \ {0} /\ Shl[n + 1] = 2 * Shl[n]
<1>1. \A n \in Nat : Shl[n] = IF n = 0 THEN 1 ELSE 2 * Shl[n - 1]
  BY ShlDef, Zenon
<1>2. ASSUME NEW n \in Nat PROVE Shl[n + 1] = 2 * Shl[n]
  BY <1>1
<1> DEFINE T == {n \in Nat : Shl[n] \notin Nat \ {0}}
<1>3. T = {}
  <2>1. SUFFICES ASSUME T # {} PROVE FALSE
    BY Zenon
  <2>2. PICK n \in T : \A y \in T : n <= y
    BY <2>1, LeastElement, Zenon
  <2>3. n # 0
    BY <1>1
  <2>4. n - 1 \in Nat /\ n - 1 \notin T
    BY <2>2, <2>3
  <2> QED
    BY <1>1, <2>2, <2>3, <2>4
<1> QED
  BY <1>1, <1>2, <1>3, Zenon

LEMMA Division ==
    ASSUME NEW a \in Nat, NEW b \in Nat \ {0}
    PROVE  /\ a \div b \in Nat
           /\ (a \div b) * b <= a
           /\ a < (a \div b + 1) * b
OBVIOUS

LEMMA ProductGrows ==
    ASSUME NEW a \in Nat, NEW b \in Nat, NEW c \in Nat, a <= b
    PROVE  a * c <= b * c
OBVIOUS

\* The guard against overflow does what it should: in the arithmetic of Width
\* bits the period is what it would be in that of the integers, the base doubled
\* with every attempt and cut off at the maximum (BackoffUpload, upload.go:147-153).
LEMMA PeriodExact ==
    ASSUME NEW n \in Nat
    PROVE  Period(n) = Smaller(Base * Shl[Smaller(n, Width - 2)], MaxRetry)
<1> DEFINE f == Shl[Smaller(n, Width - 2)]
           h == Shl[Width - 1]
           q == MaxInt \div f
<1>1. Smaller(n, Width - 2) \in Nat
  BY WaitingAssumption DEF Smaller
<1>2. f \in Nat \ {0} /\ h \in Nat \ {0} /\ Shl[Width] = 2 * h
  <2>1. Width - 1 \in Nat /\ (Width - 1) + 1 = Width
    BY WaitingAssumption
  <2> QED
    BY <1>1, <2>1, ShlDoubles, Zenon
<1>3. MaxInt = h - 1 /\ MaxInt \in Nat
  BY <1>2 DEF MaxInt
<1> HIDE DEF f, h
<1>4. q \in Nat /\ q * f <= MaxInt /\ MaxInt < (q + 1) * f
  BY <1>2, <1>3, Division, Zenon
<1> HIDE DEF q
<1>5. Period(n) = IF q >= Base THEN Smaller(Wrap(Base * f), MaxRetry) ELSE MaxRetry
  BY Zenon DEF Period, f, q
<1>6. Base \in Nat /\ MaxRetry \in Nat /\ MaxRetry <= MaxInt
  BY <1>3, WaitingAssumption
<1>7. CASE q >= Base
  <2>1. Base * f <= MaxInt /\ Base * f \in Nat
    BY <1>2, <1>3, <1>4, <1>6, <1>7, ProductGrows
  <2>2. \A x \in Nat : x < h => ((x + h) % (2 * h)) - h = x
    BY <1>2
  <2>3. Wrap(Base * f) = Base * f
    BY <1>2, <1>3, <2>1, <2>2 DEF Wrap, h
  <2> QED
    BY <1>5, <1>7, <2>3, Zenon DEF f
<1>8. CASE ~(q >= Base)
  <2>1. Base * f > MaxRetry
    <3>1. q + 1 <= Base
      BY <1>4, <1>6, <1>8
    <3>2. (q + 1) * f <= Base * f
      BY <1>2, <1>4, <1>6, <3>1, ProductGrows
    <3>3. Base * f \in Nat /\ (q + 1) * f \in Nat
      BY <1>2, <1>4, <1>6
    <3> QED
      BY <1>3, <1>4, <1>6, <3>2, <3>3
  <2>2. Base * f \in Nat
    BY <1>2, <1>6
  <2> QED
    BY <1>5, <1>6, <1>8, <2>1, <2>2 DEF Smaller, f
<1> QED
  BY <1>7, <1>8, Zenon

\* Beyond the largest shift there is nothing left to double.
LEMMA LargestShift == Base * Shl[Width - 2] >= MaxRetry
<1> DEFINE f == Shl[Width - 2]
<1>1. /\ Base \in Nat \ {0} /\ MaxRetry \in Nat
      /\ Width - 2 \in Nat /\ (Width - 2) + 1 = Width - 1
  BY WaitingAssumption
<1>2. f \in Nat \ {0} /\ Shl[Width - 1] = 2 * f
  BY <1>1, ShlDoubles, Zenon
<1>3. MaxRetry <= 2 * f - 1 /\ (Base > 1 \/ MaxRetry <= f)
  BY <1>2, WaitingAssumption DEF MaxInt
<1> HIDE DEF f
<1>4. f <= Base * f /\ Base * f \in Nat
  BY <1>1, <1>2, ProductGrows
<1>5. CASE Base > 1
  <2>1. 2 * f <= Base * f
    BY <1>1, <1>2, <1>5, ProductGrows
  <2> QED
    BY <1>1, <1>2, <1>3, <1>4, <2>1 DEF f
<1>6. CASE MaxRetry <= f
  BY <1>1, <1>2, <1>4, <1>6 DEF f
<1> QED
  BY <1>3, <1>5, <1>6, Zenon

LEMMA PeriodDoubles ==
    ASSUME NEW n \in Nat
    PROVE  /\ Period(n) \in 1 .. MaxRetry
           /\ Period(n + 1) = Smaller(2 * Period(n), MaxRetry)
           /\ Period(0) = Smaller(Base, MaxRetry)
<1> DEFINE k == Smaller(n, Width - 2)
           l == Smaller(n + 1, Width - 2)
           x == Base * Shl[k]
<1>1. /\ Base \in Nat \ {0} /\ MaxRetry \in Nat \ {0}
      /\ Width \in Nat /\ Width >= 2
  BY WaitingAssumption DEF MaxInt
<1>2. /\ Period(n) = Smaller(x, MaxRetry)
      /\ Period(n + 1) = Smaller(Base * Shl[l], MaxRetry)
      /\ Period(0) = Smaller(Base * Shl[0], MaxRetry)
  BY <1>1, PeriodExact DEF Smaller
<1>3. k \in Nat /\ ((l = k /\ k = Width - 2) \/ l = k + 1)
  BY <1>1 DEF Smaller
<1> HIDE DEF k, l
<1>4. Shl[k] \in Nat \ {0} /\ Shl[k + 1] = 2 * Shl[k]
  BY <1>3, ShlDoubles, Zenon
<1>5. x \in Nat \ {0}
  BY <1>1, <1>4
<1>6. Base * Shl[0] = Base
  BY <1>1, ShlDoubles
<1>7. CASE l = k + 1
  <2>1. Base * Shl[l] = 2 * x
    BY <1>1, <1>4, <1>7
  <2> HIDE DEF x
  <2> QED
    BY <1>1, <1>2, <1>5, <1>6, <2>1 DEF Smaller
<1>8. CASE l = k /\ k = Width - 2
  <2>1. x >= MaxRetry
    BY <1>8, LargestShift, Zenon
  <2>2. Base * Shl[l] = x
    BY <1>8, Zenon
  <2> HIDE DEF x
  <2> QED
    BY <1>1, <1>2, <1>5, <1>6, <2>1, <2>2 DEF Smaller
<1> QED
  BY <1>3, <1>7, <1>8, Zenon

-----------------------------------------------------------------------------
\* No more goroutines than slots.
SlotsInv == Cardinality(Running) <= MaxConcurrent

UploadsInv == JoinedInv /\ PausesInv /\ SlotsInv /\ retry \in BOOLEAN

LEMMA UploadsInitInv == UploadsInit => UploadsInv
<1> SUFFICES ASSUME UploadsInit PROVE UploadsInv
  OBVIOUS
<1>1. JoinedInv
  BY Zenon DEF UploadsInit, JoinedInv, Outcomes
<1>2. PausesInv
  BY WaitingAssumption DEF UploadsInit, PausesInv
<1>3. SlotsInv
  <2>1. Running = {}
    BY Zenon DEF UploadsInit, Running
  <2> QED
    BY <2>1, FS_EmptySet, WaitingAssumption DEF SlotsInv
<1>4. retry \in BOOLEAN
  BY Zenon DEF UploadsInit
<1> QED
  BY <1>1, <1>2, <1>3, <1>4, Zenon DEF UploadsInv

LEMMA JoinedStep ==
    ASSUME JoinedInv, [UploadsNext]_uploads
    PROVE  JoinedInv'
<1> USE DEF JoinedInv, Goto
<1>1. CASE UNCHANGED uploads
  BY <1>1, Zenon DEF uploads
<1>2. ASSUME NEW s \in Sources, StartSource(s) PROVE JoinedInv'
  BY <1>2, Zenon DEF StartSource
<1>3. ASSUME NEW s \in Sources, UploadOnce(s) PROVE JoinedInv'
  BY <1>3, Zenon DEF UploadOnce
<1>4. ASSUME NEW s \in Sources, Backoff(s) \/ Wake(s) \/ Settle(s) PROVE JoinedInv'
  <2>1. /\ at[s] \in {"decide", "sleep"} /\ UNCHANGED <<all, last, joined>>
        /\ \E l \in {"upload", "sleep", "join"} : at' = [at EXCEPT ![s] = l]
    BY <1>4, Zenon DEF Backoff, Wake, Settle
  <2> QED
    BY <2>1, Zenon
<1>5. ASSUME NEW s \in Sources, Join(s) PROVE JoinedInv'
  <2>1. last[s] \in {{}, {"noConsent"}} <=> last[s] \cap {"send", "other"} = {}
    BY Zenon DEF Outcomes
  <2>2. at[s] = "join" /\ at' = [at EXCEPT ![s] = "done"] /\ UNCHANGED <<all, last>>
    BY <1>5, Zenon DEF Join
  <2>3. joined' = IF last[s] \in {{}, {"noConsent"}} THEN joined ELSE joined \cup {s}
    BY <1>5, Zenon DEF Join
  <2>4. joined' = {r \in Sources : at'[r] = "done" /\ last'[r] \cap {"send", "other"} # {}}
    BY <2>1, <2>2, <2>3, Zenon
  <2> QED
    BY <2>2, <2>4, Zenon
<1>6. CASE StartedAll
  BY <1>6, Zenon DEF StartedAll
<1>7. CASE Return
  BY <1>7, Zenon DEF Return, Running
<1> QED
  BY <1>1, <1>2, <1>3, <1>4, <1>5, <1>6, <1>7, Zenon DEF UploadsNext, Source

LEMMA PausesStep ==
    ASSUME JoinedInv, PausesInv, [UploadsNext]_uploads
    PROVE  PausesInv'
<1> USE DEF PausesInv, Goto
<1>0. at \in [Sources -> {"queued", "upload", "decide", "sleep", "join", "done"}]
  BY Zenon DEF JoinedInv
<1>1. CASE UNCHANGED uploads
  BY <1>1, Zenon DEF uploads
<1>2. ASSUME NEW s \in Sources, NEW l \in {"upload", "decide", "join", "done"},
             at' = [at EXCEPT ![s] = l], UNCHANGED <<attempts, period>>,
             l \in {"upload", "decide"} => at[s] \in {"queued", "upload", "sleep"}
      PROVE  PausesInv'
  BY <1>0, <1>2, WaitingAssumption
<1>3. ASSUME NEW s \in Sources,
             StartSource(s) \/ UploadOnce(s) \/ Wake(s) \/ Settle(s) \/ Join(s)
      PROVE  PausesInv'
  BY <1>2, <1>3, Zenon DEF StartSource, UploadOnce, Wake, Settle, Join
<1>4. ASSUME NEW s \in Sources, Backoff(s) PROVE PausesInv'
  <2>1. attempts[s] \in 0 .. MaxAttempts
    BY <1>4, WaitingAssumption DEF Backoff
  <2> HIDE DEF Goto
  <2>2. /\ period' = [period EXCEPT ![s] = Period(attempts[s])]
        /\ attempts' = [attempts EXCEPT ![s] = attempts[s] + 1]
        /\ at' = [at EXCEPT ![s] = IF attempts[s] + 1 > MaxAttempts THEN "join" ELSE "sleep"]
    BY <1>4, Zenon DEF Backoff, Goto
  <2>3. Period(attempts[s]) \in Int
    BY <2>1, PeriodDoubles, WaitingAssumption
  <2>4. attempts' \in [Sources -> 0 .. MaxAttempts + 1] /\ period' \in [Sources -> Int]
    BY <2>1, <2>2, <2>3, WaitingAssumption
  <2>5. /\ period'[s] = Period(attempts'[s] - 1) /\ attempts'[s] # 0
        /\ at'[s] = "sleep" => attempts'[s] <= MaxAttempts
        /\ at'[s] \in {"sleep", "join"}
    BY <1>0, <2>1, <2>2, WaitingAssumption
  <2>6. \A r \in Sources \ {s} :
          period'[r] = period[r] /\ attempts'[r] = attempts[r] /\ at'[r] = at[r]
    BY <1>0, <2>2, Zenon
  <2> QED
    BY <2>4, <2>5, <2>6
<1>5. CASE StartedAll \/ Return
  BY <1>5, Zenon DEF StartedAll, Return
<1> QED
  BY <1>1, <1>3, <1>4, <1>5, Zenon DEF UploadsNext, Source

LEMMA SlotsStep ==
    ASSUME JoinedInv, SlotsInv, [UploadsNext]_uploads
    PROVE  SlotsInv'
<1> USE DEF SlotsInv
<1>0. /\ at \in [Sources -> {"queued", "upload", "decide", "sleep", "join", "done"}]
      /\ IsFiniteSet(Sources) /\ MaxConcurrent \in Nat
  BY WaitingAssumption, Zenon DEF JoinedInv
<1>1. IsFiniteSet(Running) /\ Cardinality(Running) \in Nat
  BY <1>0, FS_Subset, FS_CardinalityType, Zenon DEF Running
<1>2. ASSUME Running' \subseteq Running PROVE SlotsInv'
  BY <1>0, <1>1, <1>2, FS_Subset, FS_CardinalityType
<1>3. ASSUME NEW s \in Sources, StartSource(s) PROVE SlotsInv'
  <2>1. Cardinality(Running) < MaxConcurrent
    <3>1. Cardinality(Sources) \in Nat
      BY <1>0, FS_CardinalityType, Zenon
    <3> QED
      BY <1>0, <1>1, <1>3, <3>1 DEF StartSource, Smaller
  <2>2. Running' = Running \cup {s}
    BY <1>0, <1>3, Zenon DEF StartSource, Goto, Running
  <2>3. Cardinality(Running') <= Cardinality(Running) + 1
    BY <1>1, <2>2, FS_AddElement
  <2>4. IsFiniteSet(Running') /\ Cardinality(Running') \in Nat
    BY <1>1, <2>2, FS_AddElement, FS_CardinalityType, Zenon
  <2> QED
    BY <1>0, <1>1, <2>1, <2>3, <2>4
<1>4. ASSUME NEW s \in Sources, Source(s) PROVE Running' \subseteq Running
  BY <1>0, <1>4, Zenon DEF Source, UploadOnce, Backoff, Wake, Settle, Join, Goto, Running
<1>5. ASSUME StartedAll \/ Return \/ UNCHANGED uploads PROVE Running' \subseteq Running
  BY <1>5, Zenon DEF StartedAll, Return, uploads, Running
<1> QED
  BY <1>2, <1>3, <1>4, <1>5, Zenon DEF UploadsNext

LEMMA UploadsStepInv == UploadsInv /\ [UploadsNext]_uploads => UploadsInv'
<1> SUFFICES ASSUME UploadsInv, [UploadsNext]_uploads PROVE UploadsInv'
  OBVIOUS
<1>1. retry' = retry
  BY Zenon DEF UploadsNext, Source, StartSource, UploadOnce, Backoff, Wake, Settle, Join,
         StartedAll, Return, uploads
<1>2. retry' \in BOOLEAN
  BY <1>1, Zenon DEF UploadsInv
<1> QED
  BY <1>2, JoinedStep, PausesStep, SlotsStep, Zenon DEF UploadsInv

LEMMA UploadsInvTypes == UploadsInv => UploadsTypeOK
<1> SUFFICES ASSUME UploadsInv PROVE UploadsTypeOK
  OBVIOUS
<1>1. retry \in BOOLEAN
  BY Zenon DEF UploadsInv
<1>2. period \in [Sources -> 0 .. MaxRetry]
  <2>1. \A s \in Sources : period[s] \in 0 .. MaxRetry
    <3>1. SUFFICES ASSUME NEW s \in Sources PROVE period[s] \in 0 .. MaxRetry
      OBVIOUS
    <3>2. attempts[s] \in Nat /\ (attempts[s] # 0 => attempts[s] - 1 \in Nat)
      BY WaitingAssumption DEF UploadsInv, PausesInv
    <3>3. MaxRetry \in Nat
      BY WaitingAssumption
    <3> QED
      BY <3>2, <3>3, PeriodDoubles DEF UploadsInv, PausesInv
  <2> QED
    BY <2>1, Zenon DEF UploadsInv, PausesInv
<1>3. joined \in SUBSET Sources
  BY Zenon DEF UploadsInv, JoinedInv
<1> QED
  BY <1>1, <1>2, <1>3, Zenon DEF UploadsInv, JoinedInv, PausesInv, SlotsInv, UploadsTypeOK

LEMMA UploadsInvTold == UploadsInv => EverySourceTold
BY Zenon DEF UploadsInv, JoinedInv, EverySourceTold

\* Only Backoff takes a pause, and it counts the pauses it takes.
LEMMA PausesGrowStep ==
    ASSUME UploadsInv, [UploadsNext]_uploads
    PROVE  [\A s \in Sources :
              at[s] = "decide" /\ at'[s] = "sleep" =>
                period'[s] = Smaller(IF period[s] = 0 THEN Base ELSE 2 * period[s],
                                     MaxRetry)]_uploads
<1> SUFFICES ASSUME NEW s \in Sources, at[s] = "decide", at'[s] = "sleep"
             PROVE  period'[s] = Smaller(IF period[s] = 0 THEN Base ELSE 2 * period[s],
                                         MaxRetry)
  OBVIOUS
<1>1. at \in [Sources -> {"queued", "upload", "decide", "sleep", "join", "done"}]
  BY Zenon DEF UploadsInv, JoinedInv
<1>2. PICK r \in Sources : Backoff(r)
  BY <1>1, Zenon DEF UploadsNext, Source, StartSource, UploadOnce, Wake, Settle, Join,
         StartedAll, Return, Goto, uploads
<1>3. /\ period \in [Sources -> Int] /\ attempts[s] \in Nat
      /\ period[s] = IF attempts[s] = 0 THEN 0 ELSE Period(attempts[s] - 1)
  BY WaitingAssumption DEF UploadsInv, PausesInv
<1>4. s = r
  BY <1>1, <1>2, Zenon DEF Backoff, Goto
<1>5. period'[s] = Period(attempts[s])
  BY <1>2, <1>3, <1>4, Zenon DEF Backoff
<1>6. CASE attempts[s] = 0
  BY <1>3, <1>5, <1>6, PeriodDoubles, Zenon
<1>7. CASE attempts[s] # 0
  <2>1. attempts[s] - 1 \in Nat /\ (attempts[s] - 1) + 1 = attempts[s]
    BY <1>3, <1>7
  <2>2. /\ period[s] \in 1 .. MaxRetry
        /\ period'[s] = Smaller(2 * period[s], MaxRetry)
    BY <1>3, <1>5, <1>7, <2>1, PeriodDoubles, Zenon
  <2>3. period[s] # 0
    BY <2>2, WaitingAssumption
  <2> QED
    BY <2>2, <2>3, Zenon
<1> QED
  BY <1>6, <1>7, Zenon
-----------------------------------------------------------------------------
(***************************************************************************)
(* The parts of a report.                                                  *)
(***************************************************************************)
\* The place of a step in the order of the collection, from D-Bus on.
Place(x) ==
    CASE x = "dbus" -> 1 [] x = "pro" -> 2 [] x = "product" -> 3 [] x = "cpu" -> 4
      [] x = "gpus" -> 5 [] x = "accelerators" -> 6 [] x = "memory" -> 7
      [] x = "disks" -> 8 [] x = "screens" -> 9 [] x = "lsb" -> 10 [] x = "os" -> 11
      [] x = "lang" -> 12 [] x = "bios" -> 13 [] x = "done" -> 14 [] OTHER -> 0

\* A command that failed, or will, has been blamed.
ChildInv ==
    /\ step \in S!AllSources \cup {"done"}
    /\ child \in {"none", "running", "hung", "ok", "failed"}
    /\ blamed \subseteq S!AllSources
    /\ child # "none" => step \in S!Commands /\ ~S!SkippedOnWSL(step)
    /\ child \in {"hung", "failed"} => step \in blamed

\* What is known of WSL at each step.
WslInv ==
    /\ env \in [wsl : 0 .. 2, conf : {"missing", "broken", "on", "off"}, snap : BOOLEAN]
    /\ wsl \in [version : 0 .. 2, systemd : {"unset", "used", "unused"},
                interop : {"unset", "enabled", "disabled"}, kernel : BOOLEAN, release : BOOLEAN]
    /\ step = "version" => env.wsl # 0
    /\ step \in {"kernel", "systemd", "virtAgain", "conf", "wslExe"} => wsl.version # 0
    /\ step \in {"virtAgain", "conf", "wslExe"} => wsl.systemd # "unset"
    /\ step = "wslExe" => wsl.interop = "enabled"
    /\ step \in {"virt", "version", "desktop"} => wsl.version = 0
    /\ step \in {"virt", "version", "kernel", "systemd", "virtAgain", "conf"} =>
         wsl.release = FALSE
    /\ wsl.version = 0 =>
         wsl.systemd = "unset" /\ wsl.interop = "unset" /\ wsl.kernel = FALSE /\ wsl.release = FALSE
    /\ Place(step) >= 1 /\ wsl.version # 0 =>
         wsl.systemd # "unset" /\ wsl.interop # "unset" /\ (wsl.release => wsl.interop = "enabled")

\* A part is zero until its turn, and after it full, blamed or skipped.
PartsInv ==
    /\ info \in [S!Reported -> {"zero", "part", "full"}]
    /\ \A p \in S!Reported \ {"attached", "os"} :
         /\ Place(step) <= Place(p) => info[p] = "zero"
         /\ Place(step) > Place(p) /\ info[p] # "full" => p \in blamed \/ S!SkippedOnWSL(p)
         /\ S!SkippedOnWSL(p) => info[p] = "zero"

\* The two parts with a second source.
TwiceInv ==
    /\ step = "pro" => "dbus" \in blamed
    /\ Place(step) >= 3 /\ info["attached"] # "full" =>
         {"dbus", "pro"} \subseteq blamed
    /\ step = "os" => (env.snap => "lsb" \in blamed)
    /\ Place(step) >= 12 /\ info["os"] = "part" => blamed \cap {"lsb", "os"} # {}
    /\ Place(step) >= 12 /\ info["os"] = "zero" =>
         "os" \in blamed /\ (env.snap => "lsb" \in blamed)

ReportInv == ChildInv /\ WslInv /\ PartsInv /\ TwiceInv


LEMMA CollectedIs ==
    /\ Len(S!Collected) = 11 /\ DOMAIN S!Collected = 1 .. 11
    /\ S!Collected[1] = "product" /\ S!Collected[2] = "cpu" /\ S!Collected[3] = "gpus"
    /\ S!Collected[4] = "accelerators" /\ S!Collected[5] = "memory"
    /\ S!Collected[6] = "disks" /\ S!Collected[7] = "screens" /\ S!Collected[8] = "lsb"
    /\ S!Collected[9] = "os" /\ S!Collected[10] = "lang" /\ S!Collected[11] = "bios"
BY DEF S!Collected

LEMMA RangeIs ==
    S!Range(S!Collected) = {"product", "cpu", "gpus", "accelerators", "memory", "disks",
                            "screens", "lsb", "os", "lang", "bios"}
<1>1. \A i \in 1 .. 11 : i = 1 \/ i = 2 \/ i = 3 \/ i = 4 \/ i = 5 \/ i = 6 \/ i = 7
                         \/ i = 8 \/ i = 9 \/ i = 10 \/ i = 11
  OBVIOUS
<1> QED
  BY <1>1, CollectedIs DEF S!Range

LEMMA AfterIs ==
    /\ S!After("product") = "cpu" /\ S!After("cpu") = "gpus"
    /\ S!After("gpus") = "accelerators" /\ S!After("accelerators") = "memory"
    /\ S!After("memory") = "disks" /\ S!After("disks") = "screens"
    /\ S!After("screens") = "lsb" /\ S!After("os") = "lang"
    /\ S!After("lang") = "bios" /\ S!After("bios") = "done"
<1>1. ASSUME NEW p, NEW i \in 1 .. 11, S!Collected[i] = p
      PROVE  (CHOOSE j \in DOMAIN S!Collected : S!Collected[j] = p) = i
  <2>1. \A j \in 1 .. 11 : S!Collected[j] = S!Collected[i] => j = i
    <3>1. \A j \in 1 .. 11 : j = 1 \/ j = 2 \/ j = 3 \/ j = 4 \/ j = 5 \/ j = 6 \/ j = 7
                             \/ j = 8 \/ j = 9 \/ j = 10 \/ j = 11
      OBVIOUS
    <3> QED
      BY <3>1, CollectedIs
  <2> QED
    BY <1>1, <2>1, CollectedIs, Zenon
<1>2. ASSUME NEW i \in 1 .. 11
      PROVE  S!After(S!Collected[i]) = IF i = 11 THEN "done" ELSE S!Collected[i + 1]
  BY <1>1, CollectedIs DEF S!After
<1> QED
  BY <1>2, CollectedIs

\* The parts with one source, that of the platform apart.
Plain == {"product", "cpu", "gpus", "accelerators", "memory", "disks", "screens",
          "lang", "bios"}

LEMMA SetsAre ==
    /\ S!Reported = Plain \cup {"desktop", "attached", "os"}
    /\ S!Reported \ {"attached", "os"} = Plain \cup {"desktop"}
    /\ S!AllSources = {"virt", "systemd", "virtAgain", "wslExe", "pro", "cpu", "disks",
                    "screens", "product", "gpus", "accelerators", "memory", "lsb", "os",
                    "lang", "bios", "version", "kernel", "conf", "desktop", "dbus"}
<1>1. S!Reported = Plain \cup {"desktop", "attached", "os"}
  BY RangeIs, Zenon DEF S!Reported, Plain
<1>2. S!Reported \ {"attached", "os"} = Plain \cup {"desktop"}
  BY <1>1, Zenon DEF Plain
<1> QED
  BY <1>1, <1>2, RangeIs, Zenon DEF S!AllSources, S!Commands

LEMMA PlaceIs ==
    /\ \A x : Place(x) \in Nat
    /\ Place("dbus") = 1 /\ Place("pro") = 2 /\ Place("product") = 3 /\ Place("cpu") = 4
    /\ Place("gpus") = 5 /\ Place("accelerators") = 6 /\ Place("memory") = 7
    /\ Place("disks") = 8 /\ Place("screens") = 9 /\ Place("lsb") = 10
    /\ Place("os") = 11 /\ Place("lang") = 12 /\ Place("bios") = 13 /\ Place("done") = 14
    /\ Place("virt") = 0 /\ Place("version") = 0 /\ Place("kernel") = 0
    /\ Place("systemd") = 0 /\ Place("virtAgain") = 0 /\ Place("conf") = 0
    /\ Place("wslExe") = 0 /\ Place("desktop") = 0
BY Zenon DEF Place

\* What a step may be: a command goes on, or the goroutine does, which then has
\* none any more.
Grows == blamed \subseteq blamed' /\ blamed' \subseteq S!AllSources
Quiet == UNCHANGED <<env, step, wsl, info>> /\ Grows

\* The turn of a part is over: v is what is left of it.
Taken(p, v) ==
    /\ step = p /\ step' = S!After(p) /\ child' = "none"
    /\ info' = [info EXCEPT ![p] = v]
    /\ v # "full" => p \in blamed' \/ S!SkippedOnWSL(p)
    /\ S!SkippedOnWSL(p) => v = "zero"
    /\ UNCHANGED <<env, wsl>> /\ Grows

LEMMA AnswerBlames ==
    ASSUME ChildInv, NEW ok \in BOOLEAN, S!Returns(ok)
    PROVE  /\ child' = "none" /\ UNCHANGED <<env, blamed>> /\ Grows
           /\ ~ok => step \in blamed
           /\ ~S!SkippedOnWSL(step)
<1>1. child' = "none" /\ UNCHANGED <<env, blamed>>
  BY Zenon DEF S!Returns
<1>2. child = "ok" \/ child = "failed"
  BY Zenon DEF S!Returns
<1>3. ~ok => child = "failed"
  BY Zenon DEF S!Returns
<1> QED
  BY <1>1, <1>2, <1>3, Zenon DEF ChildInv, Grows

LEMMA ReadBlames ==
    ASSUME ChildInv, NEW s \in S!AllSources \ S!Commands, NEW ok \in BOOLEAN,
           S!ReadSource(s, ok)
    PROVE  /\ step = s /\ child' = "none" /\ UNCHANGED env /\ Grows
           /\ ~ok => s \in blamed'
BY Zenon DEF S!ReadSource, S!Blame, ChildInv, Grows

LEMMA SkipTakes ==
    ASSUME ChildInv, PartsInv, NEW p \in Plain, S!Skip(p)
    PROVE  Taken(p, "zero")
<1>1. info[p] = "zero"
  BY SetsAre, Zenon DEF PartsInv, S!Skip
<1>2. info' = [info EXCEPT ![p] = "zero"]
  BY <1>1, Zenon DEF S!Skip, PartsInv
<1> QED
  BY <1>1, <1>2, Zenon DEF S!Skip, Taken, Grows, ChildInv

LEMMA FilesTake ==
    ASSUME ChildInv, NEW p \in Plain \ S!Commands, NEW remains, S!FromFiles(p, remains)
    PROVE  \E v \in remains \cup {"full"} : Taken(p, v)
<1>1. p \in S!AllSources /\ child = "none"
  BY SetsAre, Zenon DEF ChildInv, S!FromFiles, Plain
<1> QED
  BY <1>1, Zenon DEF S!FromFiles, S!Fill, S!Blame, Taken, Grows, ChildInv

LEMMA CommandTakes ==
    ASSUME ChildInv, NEW p \in Plain, NEW remains, S!FromCommand(p, remains)
    PROVE  \E v \in remains \cup {"full"} : Taken(p, v)
<1>1. PICK ok \in BOOLEAN :
        /\ S!Returns(ok)
        /\ \E value \in IF ok THEN {"full"} ELSE remains : S!Fill(p, value)
  BY Zenon DEF S!FromCommand
<1>2. step = p /\ step' = S!After(p) /\ UNCHANGED wsl
  BY Zenon DEF S!FromCommand
<1>3. /\ child' = "none" /\ UNCHANGED <<env, blamed>> /\ Grows
      /\ ~ok => step \in blamed
      /\ ~S!SkippedOnWSL(step)
  BY <1>1, AnswerBlames, Zenon
<1> QED
  BY <1>1, <1>2, <1>3, Zenon DEF S!Fill, Taken

LEMMA WaylandTakes ==
    ASSUME ChildInv, S!ScreensFromWayland
    PROVE  Taken("screens", "full")
BY Zenon DEF ChildInv, S!ScreensFromWayland, S!Fill, Taken, Grows

\* Every part with one source is taken by the action of its name.
Parts ==
    \/ S!CollectProduct \/ S!CollectCPU \/ S!CollectGPUs \/ S!CollectAccelerators
    \/ S!CollectMemory \/ S!CollectDisks \/ S!CollectScreens
    \/ S!CollectLang \/ S!CollectBios

LEMMA PartsTake ==
    ASSUME ChildInv, PartsInv, Parts
    PROVE  \E p \in Plain, v \in {"zero", "part", "full"} : Taken(p, v)
<1> DEFINE Q == \E p \in Plain, v \in {"zero", "part", "full"} : Taken(p, v)
<1> SUFFICES Q
  OBVIOUS
<1>1. ASSUME NEW p \in Plain, S!Skip(p) PROVE Q
  BY <1>1, SkipTakes, Zenon
<1>2. ASSUME NEW p \in Plain \ S!Commands,
             NEW remains \in SUBSET {"zero", "part", "full"}, S!FromFiles(p, remains)
      PROVE  Q
  <2>1. \E v \in remains \cup {"full"} : Taken(p, v)
    BY <1>2, FilesTake, Zenon
  <2> QED
    BY <2>1, Zenon
<1>3. ASSUME NEW p \in Plain, NEW remains \in SUBSET {"zero", "part", "full"},
             S!FromCommand(p, remains)
      PROVE  Q
  <2>1. \E v \in remains \cup {"full"} : Taken(p, v)
    BY <1>3, CommandTakes, Zenon
  <2> QED
    BY <2>1, Zenon
<1>4. ASSUME S!ScreensFromWayland PROVE Q
  BY <1>4, WaylandTakes, Zenon DEF Plain
<1> HIDE DEF Q
<1>5. /\ {"product", "gpus", "accelerators", "memory", "lang", "bios"}
           \subseteq Plain \ S!Commands
      /\ {"cpu", "disks", "screens", "product", "gpus", "bios"} \subseteq Plain
  BY Zenon DEF Plain, S!Commands
<1>6. /\ {"part"} \in SUBSET {"zero", "part", "full"}
      /\ {"zero"} \in SUBSET {"zero", "part", "full"}
      /\ {"part", "zero"} \in SUBSET {"zero", "part", "full"}
  OBVIOUS
<1>7. CASE S!CollectProduct \/ S!CollectGPUs \/ S!CollectBios
  BY <1>1, <1>2, <1>5, <1>6, <1>7, Zenon DEF S!CollectProduct, S!CollectGPUs, S!CollectBios
<1>8. CASE S!CollectAccelerators \/ S!CollectMemory \/ S!CollectLang
  BY <1>2, <1>5, <1>6, <1>8, Zenon DEF S!CollectAccelerators, S!CollectMemory, S!CollectLang
<1>9. CASE S!CollectCPU \/ S!CollectDisks \/ S!CollectScreens
  BY <1>1, <1>3, <1>4, <1>5, <1>6, <1>9, Zenon DEF S!CollectCPU, S!CollectDisks, S!CollectScreens
<1> QED
  BY <1>7, <1>8, <1>9, Zenon DEF Parts

LEMMA QuietSteps ==
    ASSUME ChildInv, S!StartCommand \/ S!Timeout \/ S!Environment \/ UNCHANGED S!sys
    PROVE  Quiet /\ ChildInv'
<1> USE DEF Quiet, Grows, ChildInv, S!SkippedOnWSL
<1>1. S!Commands \subseteq S!AllSources
  BY Zenon DEF S!AllSources
<1>2. CASE S!StartCommand
  BY <1>1, <1>2, Zenon DEF S!StartCommand, S!Start, S!Blame
<1>3. CASE S!Timeout
  BY <1>3, Zenon DEF S!Timeout
<1>4. CASE S!Exit \/ S!Hang \/ S!PipeCloses
  BY <1>1, <1>4, Zenon DEF S!Exit, S!Hang, S!PipeCloses, S!Blame
<1>5. CASE UNCHANGED S!sys
  BY <1>5, Zenon DEF S!sys
<1> QED
  BY <1>2, <1>3, <1>4, <1>5, Zenon DEF S!Environment

\* The other steps of the goroutine.
Platform ==
    \/ S!Detect \/ S!Version \/ S!KernelVersion \/ S!Systemd \/ S!DetectAgain
    \/ S!ReadConf \/ S!WslRelease \/ S!Desktop

Pro == S!ProOverDBus \/ S!ProOverCLI

LEMMA StepKinds ==
    ASSUME [S!SysNext]_(S!sys)
    PROVE  \/ S!StartCommand \/ S!Timeout \/ S!Environment \/ UNCHANGED S!sys
           \/ Platform \/ Pro \/ Parts \/ S!OSFromLSBRelease \/ S!OSFromFile
BY Zenon DEF S!SysNext, S!Collection, S!CollectOS, Platform, Pro, Parts

\* The goroutine goes on without a command.
LEMMA Proceeds ==
    ASSUME ChildInv, PartsInv,
           Platform \/ Pro \/ Parts \/ S!OSFromLSBRelease \/ S!OSFromFile
    PROVE  Grows /\ child' = "none" /\ UNCHANGED env /\ step' \in S!AllSources \cup {"done"}
<1>0. {"version", "kernel", "conf", "desktop", "dbus", "lsb", "os"} \cap S!Commands = {}
  BY Zenon DEF S!Commands
<1>1. CASE S!Detect \/ S!Systemd \/ S!DetectAgain \/ S!WslRelease \/ S!ProOverCLI
  <2>1. \E ok \in BOOLEAN : S!Returns(ok)
    BY <1>1, Zenon DEF S!Detect, S!Systemd, S!DetectAgain, S!WslRelease, S!ProOverCLI
  <2>2. step' \in S!AllSources \cup {"done"}
    BY <1>1, SetsAre, CollectedIs, Zenon
    DEF S!Detect, S!Systemd, S!DetectAgain, S!WslRelease, S!ProOverCLI
  <2> QED
    BY <2>1, <2>2, AnswerBlames, Zenon
<1>2. CASE S!Version \/ S!KernelVersion \/ S!ReadConf \/ S!Desktop \/ S!ProOverDBus
  <2>1. \E s \in {"version", "kernel", "conf", "desktop", "dbus"}, ok \in BOOLEAN :
          S!ReadSource(s, ok)
    BY <1>2, Zenon DEF S!Version, S!KernelVersion, S!ReadConf, S!Desktop, S!ProOverDBus
  <2>2. step' \in S!AllSources \cup {"done"}
    BY <1>2, SetsAre, CollectedIs, Zenon
    DEF S!Version, S!KernelVersion, S!ReadConf, S!Desktop, S!ProOverDBus
  <2>3. {"version", "kernel", "conf", "desktop", "dbus"} \subseteq S!AllSources \ S!Commands
    BY <1>0, SetsAre, Zenon
  <2> QED
    BY <2>1, <2>2, <2>3, ReadBlames, Zenon
<1>3. CASE Parts
  <2>1. PICK p \in Plain, v \in {"zero", "part", "full"} : Taken(p, v)
    BY <1>3, PartsTake, Zenon
  <2>2. S!After(p) \in S!AllSources \cup {"done"}
    BY AfterIs, SetsAre, Zenon DEF Plain
  <2> QED
    BY <2>1, <2>2, Zenon DEF Taken
<1>4. CASE S!OSFromLSBRelease \/ S!OSFromFile
  <2>1. step \in {"lsb", "os"} /\ child = "none"
    BY <1>0, <1>4, Zenon DEF S!OSFromLSBRelease, S!OSFromFile, S!FromFiles, ChildInv
  <2>2. step' \in {"os", "lang"}
    BY <1>4, AfterIs, Zenon DEF S!OSFromLSBRelease, S!OSFromFile, S!FromFiles
  <2>3. UNCHANGED <<env, child>> /\ (UNCHANGED blamed \/ blamed' \in {blamed \cup {"lsb"}, blamed \cup {"os"}})
    BY <1>4, Zenon DEF S!OSFromLSBRelease, S!OSFromFile, S!FromFiles, S!Blame
  <2> QED
    BY <2>1, <2>2, <2>3, SetsAre, Zenon DEF ChildInv, Grows
<1> QED
  BY <1>1, <1>2, <1>3, <1>4, Zenon DEF Platform, Pro

LEMMA ChildStep ==
    ASSUME ChildInv, PartsInv, [S!SysNext]_(S!sys)
    PROVE  ChildInv' /\ Grows /\ UNCHANGED env
<1>1. CASE S!StartCommand \/ S!Timeout \/ S!Environment \/ UNCHANGED S!sys
  BY <1>1, QuietSteps, Zenon DEF Quiet
<1>2. CASE Platform \/ Pro \/ Parts \/ S!OSFromLSBRelease \/ S!OSFromFile
  BY <1>2, Proceeds, Zenon DEF ChildInv, Grows
<1> QED
  BY <1>1, <1>2, StepKinds, Zenon

\* After the platform nothing of it is asked again.
LEMMA WslFrame ==
    ASSUME WslInv, UNCHANGED <<env, wsl>>,
           UNCHANGED step \/ (Place(step) >= 1 /\ Place(step') >= 1)
    PROVE  WslInv'
<1>1. CASE UNCHANGED step
  BY <1>1 DEF WslInv, Place
<1>2. CASE Place(step) >= 1 /\ Place(step') >= 1
  <2>1. step' \notin {"virt", "version", "kernel", "systemd", "virtAgain", "conf",
                      "wslExe", "desktop"}
    BY <1>2, PlaceIs
  <2> QED
    BY <1>2, <2>1, PlaceIs, Zenon DEF WslInv
<1> QED
  BY <1>1, <1>2, Zenon

LEMMA TakenPlaces ==
    ASSUME NEW p \in Plain, NEW v, Taken(p, v)
    PROVE  /\ Place(step) = Place(p) /\ Place(step) >= 3
           /\ Place(step') = Place(p) + 1
           /\ step' \notin {"pro", "os"} /\ (Place(step') >= 12 => Place(step) >= 12)
<1>1. step = p /\ step' = S!After(p)
  BY Zenon DEF Taken
<1> QED
  BY <1>1, AfterIs, PlaceIs DEF Plain

LEMMA WslStep ==
    ASSUME ChildInv, PartsInv, WslInv, [S!SysNext]_(S!sys)
    PROVE  WslInv'
<1>0. UNCHANGED env
  BY ChildStep, Zenon
<1>1. CASE S!StartCommand \/ S!Timeout \/ S!Environment \/ UNCHANGED S!sys
  BY <1>1, QuietSteps, WslFrame, Zenon DEF Quiet
<1>2. CASE Parts
  <2>1. PICK p \in Plain, v \in {"zero", "part", "full"} : Taken(p, v)
    BY <1>2, PartsTake, Zenon
  <2>2. UNCHANGED <<env, wsl>>
    BY <2>1, Zenon DEF Taken
  <2>3. Place(step) >= 1 /\ Place(step') >= 1
    BY <2>1, TakenPlaces, PlaceIs
  <2> QED
    BY <2>2, <2>3, WslFrame, Zenon
<1>3. CASE Pro \/ S!OSFromLSBRelease \/ S!OSFromFile
  <2>1. step \in {"dbus", "pro", "lsb", "os"} /\ step' \in {"pro", "product", "os", "lang"}
    BY <1>3, AfterIs, CollectedIs, Zenon
    DEF Pro, S!ProOverDBus, S!ProOverCLI, S!ReadSource, S!OSFromLSBRelease, S!OSFromFile,
        S!FromFiles
  <2>2. UNCHANGED wsl
    BY <1>3, Zenon DEF Pro, S!ProOverDBus, S!ProOverCLI, S!OSFromLSBRelease, S!OSFromFile,
                S!FromFiles
  <2>3. Place(step) >= 1 /\ Place(step') >= 1
    BY <2>1, PlaceIs
  <2> QED
    BY <1>0, <2>2, <2>3, WslFrame, Zenon
<1>4. CASE S!Detect
  <2>1. PICK ok \in BOOLEAN : step' = IF ok /\ env.wsl # 0 THEN "version" ELSE "desktop"
    BY <1>4, Zenon DEF S!Detect
  <2>2. step = "virt" /\ UNCHANGED wsl
    BY <1>4, Zenon DEF S!Detect
  <2>3. CASE env.wsl # 0 /\ step' = "version"
    BY <1>0, <2>2, <2>3, PlaceIs, Zenon DEF WslInv
  <2>4. CASE step' = "desktop"
    BY <1>0, <2>2, <2>4, PlaceIs, Zenon DEF WslInv
  <2> QED
    BY <2>1, <2>3, <2>4, Zenon
<1>5. CASE S!Version
  <2>1. step = "version" /\ step' = "kernel"
        /\ (\/ wsl' = [wsl EXCEPT !.version = env.wsl]
            \/ wsl' = [wsl EXCEPT !.version = 2])
    BY <1>5, Zenon DEF S!Version, S!ReadSource
  <2>2. env.wsl \in 1 .. 2
    <3>1. /\ env.wsl # 0
          /\ env \in [wsl : 0 .. 2, conf : {"missing", "broken", "on", "off"}, snap : BOOLEAN]
      BY <2>1, Zenon DEF WslInv
    <3> QED
      BY <3>1
  <2>3. PICK n \in 1 .. 2 : wsl' = [wsl EXCEPT !.version = n]
    BY <2>1, <2>2
  <2> QED
    BY <1>0, <2>1, <2>3, PlaceIs DEF WslInv
<1>6. CASE S!KernelVersion
  <2>1. step = "kernel" /\ step' = "systemd"
        /\ \E ok \in BOOLEAN : wsl' = [wsl EXCEPT !.kernel = ok]
    BY <1>6, Zenon DEF S!KernelVersion, S!ReadSource
  <2> QED
    BY <1>0, <2>1, PlaceIs, Zenon DEF WslInv
<1>7. CASE S!Systemd
  <2>1. step = "systemd" /\ step' = "virtAgain"
        /\ \E used \in {"used", "unused"} : wsl' = [wsl EXCEPT !.systemd = used]
    BY <1>7, Zenon DEF S!Systemd
  <2> QED
    BY <1>0, <2>1, PlaceIs, Zenon DEF WslInv
<1>8. CASE S!DetectAgain
  <2>1. /\ step = "virtAgain"
        /\ \/ step' = "conf" /\ wsl' = wsl
           \/ step' = "dbus" /\ wsl' = [wsl EXCEPT !.interop = "disabled"]
    BY <1>8, Zenon DEF S!DetectAgain
  <2> QED
    BY <1>0, <2>1, PlaceIs, Zenon DEF WslInv
<1>9. CASE S!ReadConf
  <2>1. /\ step = "conf"
        /\ \/ step' = "wslExe" /\ wsl' = [wsl EXCEPT !.interop = "enabled"]
           \/ step' = "dbus" /\ wsl' = [wsl EXCEPT !.interop = "disabled"]
    BY <1>9, Zenon DEF S!ReadConf, S!ReadSource
  <2> QED
    BY <1>0, <2>1, PlaceIs, Zenon DEF WslInv
<1>10. CASE S!WslRelease
  <2>1. step = "wslExe" /\ step' = "dbus"
        /\ \E ok \in BOOLEAN : wsl' = [wsl EXCEPT !.release = ok]
    BY <1>10, Zenon DEF S!WslRelease
  <2> QED
    BY <1>0, <2>1, PlaceIs, Zenon DEF WslInv
<1>11. CASE S!Desktop
  <2>1. step = "desktop" /\ step' = "dbus" /\ UNCHANGED wsl
    BY <1>11, Zenon DEF S!Desktop, S!ReadSource
  <2> QED
    BY <1>0, <2>1, PlaceIs, Zenon DEF WslInv
<1> QED
  BY <1>1, <1>2, <1>3, <1>4, <1>5, <1>6, <1>7, <1>8, <1>9, <1>10, <1>11, StepKinds, Zenon
  DEF Platform

-----------------------------------------------------------------------------
\* Nothing happens to the parts with one source.
LEMMA PartsFrame ==
    ASSUME PartsInv, Grows, UNCHANGED wsl,
           info' \in [S!Reported -> {"zero", "part", "full"}],
           \A q \in Plain \cup {"desktop"} :
              info'[q] = info[q] /\ (Place(step') > Place(q) <=> Place(step) > Place(q))
    PROVE  PartsInv'
<1>1. ASSUME NEW q \in Plain \cup {"desktop"}
      PROVE  /\ Place(step') <= Place(q) => info'[q] = "zero"
             /\ Place(step') > Place(q) /\ info'[q] # "full" =>
                  q \in blamed' \/ S!SkippedOnWSL(q)'
             /\ S!SkippedOnWSL(q)' => info'[q] = "zero"
  <2>1. Place(step) \in Nat /\ Place(step') \in Nat /\ Place(q) \in Nat
    BY PlaceIs, Zenon
  <2>2. /\ Place(step) <= Place(q) => info[q] = "zero"
        /\ Place(step) > Place(q) /\ info[q] # "full" => q \in blamed \/ S!SkippedOnWSL(q)
        /\ S!SkippedOnWSL(q) => info[q] = "zero"
    BY SetsAre, Zenon DEF PartsInv
  <2>3. S!SkippedOnWSL(q)' <=> S!SkippedOnWSL(q)
    BY Zenon DEF S!SkippedOnWSL
  <2> QED
    BY <2>1, <2>2, <2>3 DEF Grows
<1> QED
  BY <1>1, SetsAre, Zenon DEF PartsInv

\* The turn of a part is over.
LEMMA PartTaken ==
    ASSUME PartsInv, Grows, UNCHANGED wsl,
           NEW p \in Plain \cup {"desktop"}, NEW v \in {"zero", "part", "full"},
           Place(step) = Place(p), Place(step') = Place(p) + 1,
           info' = [info EXCEPT ![p] = v],
           v # "full" => p \in blamed' \/ S!SkippedOnWSL(p),
           S!SkippedOnWSL(p) => v = "zero"
    PROVE  PartsInv'
<1>0. info \in [S!Reported -> {"zero", "part", "full"}] /\ p \in S!Reported
  BY SetsAre, Zenon DEF PartsInv
<1>1. ASSUME NEW q \in Plain \cup {"desktop"}
      PROVE  /\ Place(step') <= Place(q) => info'[q] = "zero"
             /\ Place(step') > Place(q) /\ info'[q] # "full" =>
                  q \in blamed' \/ S!SkippedOnWSL(q)'
             /\ S!SkippedOnWSL(q)' => info'[q] = "zero"
  <2>1. Place(p) \in Nat /\ Place(q) \in Nat
    BY PlaceIs, Zenon
  <2>2. S!SkippedOnWSL(q)' <=> S!SkippedOnWSL(q)
    BY Zenon DEF S!SkippedOnWSL
  <2>3. CASE q = p
    BY <1>0, <2>1, <2>2, <2>3
  <2>4. CASE q # p
    <3>1. Place(q) # Place(p)
      BY <2>4, PlaceIs DEF Plain
    <3>2. info'[q] = info[q]
      BY <1>0, <2>4, SetsAre, Zenon
    <3>3. /\ Place(step) <= Place(q) => info[q] = "zero"
          /\ Place(step) > Place(q) /\ info[q] # "full" => q \in blamed \/ S!SkippedOnWSL(q)
          /\ S!SkippedOnWSL(q) => info[q] = "zero"
      BY SetsAre, Zenon DEF PartsInv
    <3> QED
      BY <2>1, <2>2, <3>1, <3>2, <3>3 DEF Grows
  <2> QED
    BY <2>3, <2>4, Zenon
<1>2. info' \in [S!Reported -> {"zero", "part", "full"}]
  BY <1>0, Zenon
<1> QED
  BY <1>1, <1>2, SetsAre, Zenon DEF PartsInv

\* While the platform is asked for WSL every part is zero, and on WSL the desktop
\* stays so.
LEMMA PartsPlatform ==
    ASSUME PartsInv, Grows, UNCHANGED info, Place(step) = 0,
           Place(step') = 0 \/ (Place(step') = 1 /\ wsl'.version # 0)
    PROVE  PartsInv'
<1>1. ASSUME NEW q \in Plain \cup {"desktop"}
      PROVE  /\ info'[q] = "zero"
             /\ Place(step') > Place(q) => S!SkippedOnWSL(q)'
  <2>1. info[q] = "zero"
    BY SetsAre, PlaceIs DEF PartsInv
  <2>2. q # "desktop" => Place(q) >= 3
    BY PlaceIs DEF Plain
  <2>3. Place("desktop") = 0 /\ Place(q) \in Nat
    BY PlaceIs, Zenon
  <2>4. Place(step') > Place(q) => q = "desktop" /\ wsl'.version # 0
    BY <2>2, <2>3
  <2> QED
    BY <2>1, <2>4, Zenon DEF S!SkippedOnWSL, S!HostOnly
<1> QED
  BY <1>1, SetsAre, Zenon DEF PartsInv

LEMMA PartsStep ==
    ASSUME ChildInv, WslInv, PartsInv, [S!SysNext]_(S!sys)
    PROVE  PartsInv'
<1>0. Grows /\ info \in [S!Reported -> {"zero", "part", "full"}]
  BY ChildStep, Zenon DEF PartsInv
<1>1. CASE S!StartCommand \/ S!Timeout \/ S!Environment \/ UNCHANGED S!sys
  <2>1. UNCHANGED <<step, wsl, info>>
    BY <1>1, QuietSteps, Zenon DEF Quiet
  <2> QED
    BY <1>0, <2>1, PartsFrame, Zenon
<1>2. CASE Parts
  <2>1. PICK p \in Plain, v \in {"zero", "part", "full"} : Taken(p, v)
    BY <1>2, PartsTake, Zenon
  <2>2. Place(step) = Place(p) /\ Place(step') = Place(p) + 1
    BY <2>1, TakenPlaces, Zenon
  <2> QED
    BY <1>0, <2>1, <2>2, PartTaken, Zenon DEF Taken
<1>3. CASE S!Detect \/ S!Version \/ S!KernelVersion \/ S!Systemd \/ S!DetectAgain
           \/ S!ReadConf \/ S!WslRelease
  <2>1. UNCHANGED info
    BY <1>3, Zenon DEF S!Detect, S!Version, S!KernelVersion, S!Systemd, S!DetectAgain,
                S!ReadConf, S!WslRelease
  <2>2. /\ step \in {"virt", "version", "kernel", "systemd", "virtAgain", "conf", "wslExe"}
        /\ step' \in {"version", "kernel", "systemd", "virtAgain", "conf", "wslExe",
                      "desktop", "dbus"}
        /\ step' = "dbus" => step \in {"virtAgain", "conf", "wslExe"}
    BY <1>3, Zenon DEF S!Detect, S!Version, S!KernelVersion, S!Systemd, S!DetectAgain,
                S!ReadConf, S!WslRelease, S!ReadSource
  <2>3. step' = "dbus" => wsl'.version = wsl.version
    BY <1>3, <2>2, Zenon DEF S!DetectAgain, S!ReadConf, S!WslRelease, WslInv, S!Detect,
                      S!Version, S!KernelVersion, S!Systemd
  <2>4. step' = "dbus" => wsl'.version # 0
    BY <2>2, <2>3, Zenon DEF WslInv
  <2>5. Place(step) = 0 /\ (Place(step') = 0 \/ (Place(step') = 1 /\ step' = "dbus"))
    BY <2>2, PlaceIs, Zenon
  <2> QED
    BY <1>0, <2>1, <2>4, <2>5, PartsPlatform, Zenon
<1>4. CASE S!Desktop
  <2>1. PICK ok \in BOOLEAN :
          /\ S!ReadSource("desktop", ok)
          /\ info' = [info EXCEPT !["desktop"] = IF ok THEN "full" ELSE "part"]
    BY <1>4, Zenon DEF S!Desktop
  <2>2. step = "desktop" /\ step' = "dbus" /\ UNCHANGED wsl
    BY <1>4, <2>1, Zenon DEF S!Desktop, S!ReadSource
  <2>3. ~S!SkippedOnWSL("desktop")
    BY <2>2, Zenon DEF WslInv, S!SkippedOnWSL
  <2>4. ~ok => "desktop" \in blamed'
    <3>1. "desktop" \in S!AllSources \ S!Commands
      BY SetsAre, Zenon DEF S!Commands
    <3> QED
      BY <2>1, <3>1, ReadBlames, Zenon
  <2>5. Place(step) = Place("desktop") /\ Place(step') = Place("desktop") + 1
    BY <2>2, PlaceIs
  <2>6. PICK v \in {"part", "full"} : info' = [info EXCEPT !["desktop"] = v]
                                      /\ (v # "full" => "desktop" \in blamed')
    BY <2>1, <2>4, Zenon
  <2> QED
    BY <1>0, <2>2, <2>3, <2>5, <2>6, PartTaken, Zenon
<1>5. CASE Pro \/ S!OSFromLSBRelease \/ S!OSFromFile
  <2>1. /\ \/ step = "dbus" /\ step' \in {"pro", "product"}
           \/ step = "pro" /\ step' = "product"
           \/ step = "lsb" /\ step' \in {"os", "lang"}
           \/ step = "os" /\ step' = "lang"
        /\ UNCHANGED wsl
    BY <1>5, AfterIs, CollectedIs
    DEF Pro, S!ProOverDBus, S!ProOverCLI, S!ReadSource, S!OSFromLSBRelease, S!OSFromFile,
        S!FromFiles
  <2>2. \E x \in {"attached", "os"}, v \in {"zero", "part", "full"} :
           info' = info \/ info' = [info EXCEPT ![x] = v]
    BY <1>5, Zenon DEF Pro, S!ProOverDBus, S!ProOverCLI, S!OSFromLSBRelease, S!OSFromFile,
                S!FromFiles, S!Fill
  <2>3. /\ info' \in [S!Reported -> {"zero", "part", "full"}]
        /\ \A q \in Plain \cup {"desktop"} : info'[q] = info[q]
    BY <1>0, <2>2, SetsAre DEF Plain
  <2>4. \A q \in Plain \cup {"desktop"} : Place(step') > Place(q) <=> Place(step) > Place(q)
    BY <2>1, PlaceIs DEF Plain
  <2> QED
    BY <1>0, <2>1, <2>3, <2>4, PartsFrame, Zenon
<1> QED
  BY <1>1, <1>2, <1>3, <1>4, <1>5, StepKinds, Zenon DEF Platform

\* Nothing happens to the parts with two sources.
LEMMA TwiceFrame ==
    ASSUME TwiceInv, Grows, UNCHANGED env,
           info'["attached"] = info["attached"], info'["os"] = info["os"],
           step' = "pro" => step = "pro",
           step' = "os" => step = "os",
           Place(step') >= 3 => Place(step) >= 3,
           Place(step') >= 12 => Place(step) >= 12
    PROVE  TwiceInv'
<1>1. blamed \subseteq blamed'
  BY Zenon DEF Grows
<1> QED
  BY <1>1, Zenon DEF TwiceInv

LEMMA TwiceStep ==
    ASSUME ChildInv, PartsInv, TwiceInv, [S!SysNext]_(S!sys)
    PROVE  TwiceInv'
<1>0. Grows /\ UNCHANGED env /\ info \in [S!Reported -> {"zero", "part", "full"}]
  BY ChildStep, Zenon DEF PartsInv
<1>1. CASE S!StartCommand \/ S!Timeout \/ S!Environment \/ UNCHANGED S!sys
  <2>1. UNCHANGED <<step, info>>
    BY <1>1, QuietSteps, Zenon DEF Quiet
  <2> QED
    BY <1>0, <2>1, TwiceFrame, Zenon
<1>2. CASE Parts
  <2>1. PICK p \in Plain, v \in {"zero", "part", "full"} : Taken(p, v)
    BY <1>2, PartsTake, Zenon
  <2>2. info'["attached"] = info["attached"] /\ info'["os"] = info["os"]
    BY <1>0, <2>1, SetsAre, Zenon DEF Taken, Plain
  <2>3. /\ Place(step) >= 3 /\ step' \notin {"pro", "os"}
        /\ (Place(step') >= 12 => Place(step) >= 12)
    BY <2>1, TakenPlaces, Zenon
  <2> QED
    BY <1>0, <2>2, <2>3, TwiceFrame, Zenon
<1>3. CASE Platform
  <2>1. info'["attached"] = info["attached"] /\ info'["os"] = info["os"]
    BY <1>0, <1>3, SetsAre, Zenon
    DEF Platform, S!Detect, S!Version, S!KernelVersion, S!Systemd, S!DetectAgain,
        S!ReadConf, S!WslRelease, S!Desktop
  <2>2. step' \in {"version", "kernel", "systemd", "virtAgain", "conf", "wslExe",
                   "desktop", "dbus"}
    BY <1>3, Zenon
    DEF Platform, S!Detect, S!Version, S!KernelVersion, S!Systemd, S!DetectAgain,
        S!ReadConf, S!WslRelease, S!Desktop
  <2>3. ~(Place(step') >= 3) /\ ~(Place(step') >= 12)
    BY <2>2, PlaceIs
  <2> QED
    BY <1>0, <2>1, <2>2, <2>3, TwiceFrame, Zenon
<1>4. CASE S!ProOverDBus
  <2>1. PICK ok \in BOOLEAN :
          /\ S!ReadSource("dbus", ok)
          /\ info' = IF ok THEN [info EXCEPT !["attached"] = "full"] ELSE info
          /\ step' = IF ok THEN S!Collected[1] ELSE "pro"
    BY <1>4, Zenon DEF S!ProOverDBus
  <2>2. ~ok => "dbus" \in blamed'
    <3>1. "dbus" \in S!AllSources \ S!Commands
      BY SetsAre, Zenon DEF S!Commands
    <3> QED
      BY <2>1, <3>1, ReadBlames, Zenon
  <2>3. \/ step' = "product" /\ info'["attached"] = "full"
        \/ step' = "pro" /\ "dbus" \in blamed'
    BY <1>0, <2>1, <2>2, CollectedIs, SetsAre, Zenon
  <2> QED
    BY <2>3, PlaceIs DEF TwiceInv
<1>5. CASE S!ProOverCLI
  <2>1. PICK ok \in BOOLEAN :
          /\ S!Returns(ok)
          /\ info' = [info EXCEPT !["attached"] = IF ok THEN "full" ELSE "zero"]
    BY <1>5, Zenon DEF S!ProOverCLI
  <2>2. step = "pro" /\ step' = "product"
    BY <1>5, CollectedIs, Zenon DEF S!ProOverCLI
  <2>3. info'["attached"] = "full" \/ "pro" \in blamed
    BY <1>0, <2>1, <2>2, AnswerBlames, SetsAre, Zenon
  <2>4. "dbus" \in blamed
    BY <2>2, Zenon DEF TwiceInv
  <2> QED
    BY <1>0, <2>2, <2>3, <2>4, PlaceIs DEF TwiceInv, Grows
<1>6. CASE S!OSFromLSBRelease
  <2>1. step = "lsb" /\ info'["attached"] = info["attached"]
    BY <1>0, <1>6, SetsAre, Zenon DEF S!OSFromLSBRelease, S!Fill
  <2>2. info["attached"] # "full" => {"dbus", "pro"} \subseteq blamed'
    BY <1>0, <2>1, PlaceIs DEF TwiceInv, Grows
  <2>3. \/ step' = "os" /\ ~env.snap
        \/ step' = "lang" /\ info'["os"] = "full"
        \/ step' = "lang" /\ info'["os"] = "part" /\ "lsb" \in blamed'
        \/ step' = "os" /\ "lsb" \in blamed'
    BY <1>0, <1>6, AfterIs, SetsAre, Zenon DEF S!OSFromLSBRelease, S!Fill, S!Blame
  <2> QED
    BY <1>0, <2>1, <2>2, <2>3, PlaceIs DEF TwiceInv
<1>7. CASE S!OSFromFile
  <2>1. step = "os" /\ step' = "lang" /\ info'["attached"] = info["attached"]
    BY <1>0, <1>7, AfterIs, SetsAre, Zenon DEF S!OSFromFile, S!FromFiles, S!Fill
  <2>2. info["attached"] # "full" => {"dbus", "pro"} \subseteq blamed'
    BY <1>0, <2>1, PlaceIs DEF TwiceInv, Grows
  <2>3. info'["os"] = "full" \/ "os" \in blamed'
    BY <1>0, <1>7, SetsAre, Zenon DEF S!OSFromFile, S!FromFiles, S!Fill, S!Blame
  <2>4. env.snap => "lsb" \in blamed'
    BY <1>0, <2>1, Zenon DEF TwiceInv, Grows
  <2> QED
    BY <1>0, <2>1, <2>2, <2>3, <2>4, PlaceIs, Zenon DEF TwiceInv
<1> QED
  BY <1>1, <1>2, <1>3, <1>4, <1>5, <1>6, <1>7, StepKinds, Zenon DEF Pro

\* The output of a command is held open only after the command has ended.
HeldInv == held \in BOOLEAN /\ (child \notin {"ok", "failed"} => held = FALSE)

LEMMA HeldStep ==
    ASSUME ChildInv, PartsInv, HeldInv, [S!SysNext]_(S!sys)
    PROVE  HeldInv'
<1> USE DEF HeldInv
<1>1. CASE S!StartCommand \/ S!Hang \/ UNCHANGED S!sys
  <2>1. held' = held /\ (child \in {"none", "running"} \/ child' = child)
    BY <1>1, Zenon DEF S!StartCommand, S!Start, S!Hang, S!sys
  <2>2. child \in {"none", "running"} => held = FALSE
    BY Zenon
  <2> QED
    BY <2>1, <2>2, Zenon
<1>2. CASE S!Exit \/ S!Timeout
  <2>1. child' \in {"ok", "failed"}
    BY <1>2, Zenon DEF S!Exit, S!Timeout
  <2>2. held' \in IF "pipe" \in Stuck THEN BOOLEAN ELSE {FALSE}
    BY <1>2, Zenon DEF S!Exit, S!Timeout
  <2> QED
    BY <2>1, <2>2, Zenon
<1>3. CASE S!PipeCloses
  BY <1>3, Zenon DEF S!PipeCloses
<1>4. CASE Platform \/ Pro \/ Parts \/ S!OSFromLSBRelease \/ S!OSFromFile
  <2>1. held' = held
    BY <1>4, Zenon
    DEF Platform, Pro, Parts, S!Detect, S!Version, S!KernelVersion, S!Systemd,
        S!DetectAgain, S!ReadConf, S!WslRelease, S!Desktop, S!ProOverDBus, S!ProOverCLI,
        S!CollectProduct, S!CollectCPU, S!CollectGPUs, S!CollectAccelerators,
        S!CollectMemory, S!CollectDisks, S!CollectScreens, S!ScreensFromWayland,
        S!CollectLang, S!CollectBios, S!OSFromLSBRelease, S!OSFromFile, S!Skip,
        S!FromFiles, S!FromCommand, S!Returns, S!ReadSource
  <2>2. child \in {"ok", "failed"} => held = FALSE
    <3>1. CASE S!Detect \/ S!Systemd \/ S!DetectAgain \/ S!WslRelease \/ S!ProOverCLI
               \/ S!CollectCPU \/ S!CollectDisks
      <4>1. \E ok \in BOOLEAN : S!Returns(ok)
        BY <3>1, Zenon DEF S!Detect, S!Systemd, S!DetectAgain, S!WslRelease, S!ProOverCLI,
                    S!CollectCPU, S!CollectDisks, S!FromCommand
      <4> QED
        BY <4>1, Zenon DEF S!Returns
    <3>2. CASE S!CollectScreens
      <4>1. child = "none" \/ \E ok \in BOOLEAN : S!Returns(ok)
        BY <3>2, Zenon DEF S!CollectScreens, S!Skip, S!ScreensFromWayland, S!FromCommand
      <4> QED
        BY <4>1, Zenon DEF S!Returns
    <3>3. CASE step \notin S!Commands
      BY <3>3, Zenon DEF ChildInv
    <3>4. CASE S!Version \/ S!KernelVersion \/ S!ReadConf \/ S!Desktop \/ S!ProOverDBus
      <4>1. step \in {"version", "kernel", "conf", "desktop", "dbus"}
        BY <3>4, Zenon DEF S!Version, S!KernelVersion, S!ReadConf, S!Desktop, S!ProOverDBus,
                    S!ReadSource
      <4> QED
        BY <3>3, <4>1, Zenon DEF S!Commands
    <3>5. CASE S!CollectProduct \/ S!CollectGPUs \/ S!CollectAccelerators
               \/ S!CollectMemory \/ S!CollectLang \/ S!CollectBios
               \/ S!OSFromLSBRelease \/ S!OSFromFile
      <4>1. step \in {"product", "gpus", "accelerators", "memory", "lang", "bios",
                      "lsb", "os"}
        BY <3>5, Zenon DEF S!CollectProduct, S!CollectGPUs, S!CollectAccelerators,
                    S!CollectMemory, S!CollectLang, S!CollectBios, S!OSFromLSBRelease,
                    S!OSFromFile, S!Skip, S!FromFiles
      <4> QED
        BY <3>3, <4>1, Zenon DEF S!Commands
    <3> QED
      BY <1>4, <3>1, <3>2, <3>4, <3>5, Zenon DEF Platform, Pro, Parts
  <2> QED
    BY <2>1, <2>2, Zenon
<1> QED
  BY <1>1, <1>2, <1>3, <1>4, StepKinds, Zenon DEF S!Environment

ReportsInv == ReportInv /\ HeldInv

LEMMA ReportsInitInv == S!SysInit => ReportsInv
<1> SUFFICES ASSUME S!SysInit PROVE ReportsInv
  OBVIOUS
<1>0. /\ step = "virt" /\ child = "none" /\ blamed = {}
      /\ info = [p \in S!Reported |-> "zero"]
      /\ wsl = [version |-> 0, systemd |-> "unset", interop |-> "unset", kernel |-> FALSE,
                release |-> FALSE]
      /\ env \in [wsl : 0 .. 2, conf : {"missing", "broken", "on", "off"}, snap : BOOLEAN]
  BY Zenon DEF S!SysInit
<1>1. ChildInv
  BY <1>0, SetsAre, Zenon DEF ChildInv
<1>2. WslInv
  BY <1>0, PlaceIs DEF WslInv
<1>3. PartsInv
  BY <1>0, PlaceIs, SetsAre DEF PartsInv, S!SkippedOnWSL, Plain
<1>4. TwiceInv
  BY <1>0, PlaceIs DEF TwiceInv
<1>5. HeldInv
  BY Zenon DEF S!SysInit, HeldInv
<1> QED
  BY <1>1, <1>2, <1>3, <1>4, <1>5, Zenon DEF ReportsInv, ReportInv

LEMMA ReportsStepInv == ReportsInv /\ [S!SysNext]_(S!sys) => ReportsInv'
BY ChildStep, WslStep, PartsStep, TwiceStep, HeldStep, Zenon DEF ReportsInv, ReportInv

LEMMA ReportsInvTypes == ReportsInv => S!SysTypeOK
<1> SUFFICES ASSUME ReportsInv PROVE S!SysTypeOK
  OBVIOUS
<1>1. held \in BOOLEAN /\ (held => child \in {"ok", "failed"})
  BY Zenon DEF ReportsInv, HeldInv
<1> QED
  BY <1>1, Zenon DEF ReportsInv, ReportInv, ChildInv, WslInv, PartsInv, S!SysTypeOK

LEMMA ReportsInvOneSystem == ReportsInv => PartsOfOneSystem
<1> SUFFICES ASSUME ReportsInv, step = "done"
             PROVE  S!PartsIndependent /\ S!OneKindOfSystem
  BY Zenon DEF PartsOfOneSystem, S!PartsIndependent, S!OneKindOfSystem
<1> USE DEF ReportsInv, ReportInv
<1>1. \A p \in S!Reported \ {"attached", "os"} : Place(step) > Place(p)
  BY PlaceIs, SetsAre DEF Plain
<1>2. S!PartsIndependent
  <2>1. Place(step) >= 12
    BY PlaceIs
  <2>2. \A p \in S!Reported \ {"attached", "os"} :
          info[p] # "full" => p \in blamed \/ S!SkippedOnWSL(p)
    BY <1>1, Zenon DEF PartsInv
  <2>3. Place(step) >= 3
    BY PlaceIs
  <2> QED
    BY <2>1, <2>2, <2>3, Zenon DEF TwiceInv, S!PartsIndependent
<1>3. S!OneKindOfSystem
  <2>1. \A p \in S!HostOnly : p \in S!Reported \ {"attached", "os"}
    BY SetsAre, Zenon DEF S!HostOnly, Plain
  <2>2. wsl.version # 0 => \A p \in S!HostOnly : info[p] = "zero"
    BY <2>1, Zenon DEF PartsInv, S!SkippedOnWSL
  <2> QED
    BY <2>2, PlaceIs DEF WslInv, S!OneKindOfSystem
<1> QED
  BY <1>2, <1>3, Zenon

LEMMA ScreensInvTypes == ScreensInv => Y!WaylandTypeOK
<1> SUFFICES ASSUME ScreensInv PROVE Y!WaylandTypeOK
  OBVIOUS
<1>1. memoryError \in BOOLEAN
  BY Zenon DEF ScreensInv, ArraysInv
<1>2. PICK c \in Callers \cup {Y!Nobody} : holder = c
  BY Zenon DEF ScreensInv, MutexInv
<1>3. {outputs, displays} \subseteq {"null", "valid", "freed"}
  <2>1. CASE holder = Y!Nobody
    BY <2>1, Zenon DEF ScreensInv, ArraysInv, Clean
  <2>2. CASE c \in Callers
    BY <1>2, <2>2, Zenon DEF ScreensInv, MutexInv, ArraysInv, Clean, Bound, Y!Inside
  <2> QED
    BY <1>2, <2>1, <2>2, Zenon
<1> QED
  BY <1>1, <1>3, Zenon DEF ScreensInv, MutexInv, ArraysInv, GotInv, Clean, Y!WaylandTypeOK

LEMMA ScreensInvAll == ScreensInv => AllScreens
<1> SUFFICES ASSUME ScreensInv PROVE Y!AllScreens
  BY Zenon DEF AllScreens
<1>1. ~broken
  BY Zenon DEF ScreensInv
<1> QED
  BY <1>1, Zenon DEF ScreensInv, GotInv, Y!AllScreens

-----------------------------------------------------------------------------
(***************************************************************************)
(* The whole: a step of one part is a step of it, and leaves the others.   *)
(***************************************************************************)
LEMMA PartSteps ==
    ASSUME [Next]_vars
    PROVE  /\ [UploadsNext]_uploads
           /\ [Y!WaylandNext]_(Y!wayland)
           /\ [S!SysNext]_(S!sys)
<1>1. UNCHANGED uploads \/ UploadsNext
  BY Zenon DEF Next, vars, OfUploads, OfWayland, OfSysInfo
<1>2. UNCHANGED wayland \/ Y!WaylandNext
  BY Zenon DEF Next, vars, OfUploads, OfWayland, OfSysInfo
<1>3. UNCHANGED sys \/ S!SysNext
  BY Zenon DEF Next, vars, OfUploads, OfWayland, OfSysInfo
<1>4. UNCHANGED wayland => UNCHANGED Y!wayland
  BY Zenon DEF wayland, Y!wayland, Y!arrays
<1>5. UNCHANGED sys => UNCHANGED S!sys
  BY Zenon DEF sys, S!sys
<1> QED
  BY <1>1, <1>2, <1>3, <1>4, <1>5, Zenon

\* UploadAll returns when every source has been tried, and its error names exactly
\* those whose last try failed, in whatever order they end and whatever the
\* server answers (upload.go:29-30, 49-59).
THEOREM EverySourceIsTold == Spec => []EverySourceTold
<1>1. Init => UploadsInv
  BY UploadsInitInv, Zenon DEF Init
<1>2. UploadsInv /\ [Next]_vars => UploadsInv'
  BY PartSteps, UploadsStepInv, Zenon
<1> QED
  BY <1>1, <1>2, UploadsInvTold, PTL DEF Spec

\* The first pause of a source is drawn below the base period and every later
\* one below twice the bound of the one before, up to the maximum, for any number
\* of attempts and any width of a duration: the test of upload.go:147-151 catches
\* every product that would wrap around, and the largest shift is large enough.
THEOREM PausesDouble == Spec => PausesGrow
<1>1. Init => UploadsInv
  BY UploadsInitInv, Zenon DEF Init
<1>2. UploadsInv /\ [Next]_vars => UploadsInv'
  BY PartSteps, UploadsStepInv, Zenon
<1>3. UploadsInv /\ [Next]_vars =>
        [\A s \in Sources :
           at[s] = "decide" /\ at'[s] = "sleep" =>
             period'[s] = Smaller(IF period[s] = 0 THEN Base ELSE 2 * period[s],
                                  MaxRetry)]_uploads
  BY PartSteps, PausesGrowStep, Zenon
<1> QED
  BY <1>1, <1>2, <1>3, PTL DEF Spec, PausesGrow

\* As long as the arrays can grow, a caller gets the screens of all the outputs
\* or none, whoever waits for the mutex and wherever a call fails, and no memory
\* is used that was freed or never allocated (hardware_linux.go:536-566,
\* wayland_displays_linux.c:57-88).
THEOREM ScreensAreComplete ==
    ASSUME "growth" \notin Failures
    PROVE  Spec => []AllScreens
<1>1. Init => ScreensInv
  BY ScreensInitInv, Zenon DEF Init
<1>2. ScreensInv /\ [Next]_vars => ScreensInv'
  BY PartSteps, ScreensStepInv, Zenon
<1> QED
  BY <1>1, <1>2, ScreensInvAll, PTL DEF Spec

\* Whatever sources fail and commands hang, a failing source costs its own part
\* of the report and no other, and the report is that of a WSL or that of a host
\* (hardware.go:116-164, software.go:70-94, platform_linux.go:121-124, 184-241).
THEOREM ReportIsOfOneSystem == Spec => []PartsOfOneSystem
<1>1. Init => ReportsInv
  BY ReportsInitInv, Zenon DEF Init
<1>2. ReportsInv /\ [Next]_vars => ReportsInv'
  BY PartSteps, ReportsStepInv, Zenon
<1> QED
  BY <1>1, <1>2, ReportsInvOneSystem, PTL DEF Spec

\* The variables of the three parts keep their types: the mutex has at most one
\* holder, who leaves the globals as it found them (hardware_linux.go:520-533),
\* and a command belongs to the source that runs it.
THEOREM WaitingTypes ==
    ASSUME "growth" \notin Failures
    PROVE  Spec => []WaitingTypeOK
<1>1. Init => UploadsInv /\ ScreensInv /\ ReportsInv
  BY UploadsInitInv, ScreensInitInv, ReportsInitInv, Zenon DEF Init
<1>2. UploadsInv /\ ScreensInv /\ ReportsInv /\ [Next]_vars
        => (UploadsInv /\ ScreensInv /\ ReportsInv)'
  BY PartSteps, UploadsStepInv, ScreensStepInv, ReportsStepInv, Zenon
<1>3. UploadsInv /\ ScreensInv /\ ReportsInv => WaitingTypeOK
  BY UploadsInvTypes, ScreensInvTypes, ReportsInvTypes, Zenon DEF WaitingTypeOK
<1> QED
  BY <1>1, <1>2, <1>3, PTL DEF Spec

=============================================================================
