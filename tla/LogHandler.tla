----------------------------- MODULE LogHandler -----------------------------
(***************************************************************************)
(* The slog handler of the C library (insights/C/log_handler.go).          *)
(* Handlers are derived from one another by WithAttrs and WithGroup and    *)
(* used from many goroutines.  The attributes of a handler are a Go slice: *)
(* a length into an array that others may share and that append writes to  *)
(* in place when it has room.                                              *)
(*                                                                         *)
(* A key is the sequence of the names it is made of, and no name is <<>>.  *)
(* An attribute has a value, or is a group of attributes.                  *)
(***************************************************************************)
EXTENDS Naturals, Sequences, SequencesExt

CONSTANTS Names,       \* names of attributes and groups
          GivenAttrs,  \* the attributes that are passed to WithAttrs
          MaxHandlers  \* bound: handlers derived

Keys == {<<n>> : n \in Names} \cup {<<>>}
Leaf(key) == [key |-> key, group |-> FALSE, attrs |-> <<>>]
Group(key, attrs) == [key |-> key, group |-> TRUE, attrs |-> attrs]

VARIABLES arrays,      \* backing arrays; their length is their capacity
          handlers,    \* the handlers: a slice of an array and a prefix
          given        \* history: how each was derived

log == <<arrays, handlers, given>>

NoAttr == "unused"

LogInit ==
    /\ arrays = <<<<>>>>
    /\ handlers = <<[array |-> 1, len |-> 0, prefix |-> <<>>]>>
    /\ given = <<<<>>>>

-----------------------------------------------------------------------------
\* Mutant of FlattenAttr: the name of an inner group is forgotten.
RECURSIVE FlattenAttrShort(_, _)
FlattenAttrShort(a, prefix) ==
    IF ~a.group THEN IF a.key = <<>> THEN <<>> ELSE <<prefix \o a.key>>
    ELSE FlattenSeq([i \in DOMAIN a.attrs |->
            FlattenAttrShort(a.attrs[i], IF prefix = <<>> THEN a.key ELSE prefix)])

\* flattenAttr: the keys of the attributes of a, which are what is printed.
RECURSIVE FlattenAttr(_, _)
FlattenAttr(a, prefix) ==
    IF ~a.group THEN IF a.key = <<>> THEN <<>> ELSE <<prefix \o a.key>>
    ELSE FlattenSeq([i \in DOMAIN a.attrs |->
            FlattenAttr(a.attrs[i], prefix \o a.key)])

FlattenAll(attrs, prefix) ==
    FlattenSeq([i \in DOMAIN attrs |-> FlattenAttr(attrs[i], prefix)])

\* The attributes a handler holds, as Handle prints them.
Held(h) == SubSeq(arrays[h.array], 1, h.len)

\* Go's append to the slice (array, len): in place when there is room, else to a
\* new array with some room to spare.
Append1(mem, array, len, new) ==
    LET old == mem[array]
        all == SubSeq(old, 1, len) \o new
    IN  IF new = <<>> THEN [mem |-> mem, array |-> array]
        ELSE IF Len(all) <= Len(old)
          THEN [mem |-> [mem EXCEPT ![array] =
                           all \o SubSeq(old, Len(all) + 1, Len(old))],
                array |-> array]
        ELSE [mem |-> Append(mem, all \o <<NoAttr, NoAttr>>),
              array |-> Len(mem) + 1]

\* Mutant of Copy: the slice of the parent is used as it is.
CopyShared(h) == [mem |-> arrays, array |-> h.array]

\* make and copy: a new array that is full.
Copy(h) == [mem |-> Append(arrays, Held(h)), array |-> Len(arrays) + 1]

Derive(array, len, prefix, how) ==
    /\ handlers' = Append(handlers,
                      [array |-> array, len |-> len, prefix |-> prefix])
    /\ given' = Append(given, how)

\* WithAttrs of handler i.
WithAttrs(i, attrs) ==
    LET h == handlers[i]
        new == FlattenAll(attrs, h.prefix)
        copied == Copy(h)
        after == Append1(copied.mem, copied.array, h.len, new)
    IN  /\ arrays' = after.mem
        /\ Derive(after.array, h.len + Len(new), h.prefix,
                  Append(given[i], [group |-> <<>>, attrs |-> attrs]))

\* WithGroup of handler i: h itself when the name is empty.
WithGroup(i, key) ==
    /\ key # <<>>
    /\ Derive(handlers[i].array, handlers[i].len, handlers[i].prefix \o key,
              Append(given[i], [group |-> key, attrs |-> <<>>]))
    /\ UNCHANGED arrays

LogNext ==
    /\ Len(handlers) < MaxHandlers
    /\ \E i \in 1 .. Len(handlers) :
         \/ \E key \in Keys : WithGroup(i, key)
         \/ \E k \in 1 .. 2 : \E attrs \in [1 .. k -> GivenAttrs] :
              WithAttrs(i, attrs)

LogSpec == LogInit /\ [][LogNext]_log

-----------------------------------------------------------------------------
(***************************************************************************)
(* What a handler should print, without recursion: the leaves of the       *)
(* attribute trees, which are three levels deep at most, from left to      *)
(* right.                                                                  *)
(***************************************************************************)
\* The paths of indices to the leaves of an attribute.
Paths(a) ==
    IF ~a.group THEN {<<>>}
    ELSE {<<i>> : i \in {i \in DOMAIN a.attrs : ~a.attrs[i].group}}
         \cup UNION {{<<i, j>> : j \in DOMAIN a.attrs[i].attrs} :
                     i \in {i \in DOMAIN a.attrs : a.attrs[i].group}}

Name(a, path) ==
    CASE path = <<>> -> a.key
      [] Len(path) = 1 -> a.key \o a.attrs[path[1]].key
      [] OTHER -> a.key \o a.attrs[path[1]].key
                  \o a.attrs[path[1]].attrs[path[2]].key

LeafAt(a, path) ==
    CASE path = <<>> -> a
      [] Len(path) = 1 -> a.attrs[path[1]]
      [] OTHER -> a.attrs[path[1]].attrs[path[2]]

Earlier(p, q) == \/ p[1] < q[1]
                 \/ Len(p) = 2 /\ Len(q) = 2 /\ p[1] = q[1] /\ p[2] < q[2]

\* The names of the leaves that have one.
Printed(a) ==
    LET sorted == SetToSortSeq({p \in Paths(a) : LeafAt(a, p).key # <<>>}, Earlier)
    IN  [i \in DOMAIN sorted |-> Name(a, sorted[i])]

\* What a handler derived by these steps prints: every attribute under the
\* groups that were opened before it.
Expected(steps) ==
    FlattenSeq([i \in DOMAIN steps |->
        LET opened == FlattenSeq([j \in 1 .. i |-> steps[j].group])
            printed == FlattenSeq([k \in DOMAIN steps[i].attrs |->
                                      Printed(steps[i].attrs[k])])
        IN  [k \in DOMAIN printed |-> opened \o printed[k]]])

\* Every handler prints exactly the attributes it was given, in order and under
\* their groups, whatever was derived from it or from its relatives
\* meanwhile (log_handler.go:62-112).
HandlersKeepAttrs ==
    \A i \in 1 .. Len(handlers) : Held(handlers[i]) = Expected(given[i])

=============================================================================
