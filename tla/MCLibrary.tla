----------------------------- MODULE MCLibrary -----------------------------
(***************************************************************************)
(* Library for TLC, and beside its parts the log handler of the C library. *)
(* As there, a behaviour is one of a single part.                          *)
(***************************************************************************)
EXTENDS Library

VARIABLES arrays, handlers, given   \* LogHandler

Leaf(key) == [key |-> key, group |-> FALSE, attrs |-> <<>>]
Group(key, attrs) == [key |-> key, group |-> TRUE, attrs |-> attrs]
Keys == {<<"a">>, <<>>}
GroupsOf(attrs, k) ==
    {Group(key, s) : key \in Keys, s \in UNION {[1 .. n -> attrs] : n \in 0 .. k}}

\* Four handlers derived from one another, with a leaf, a group of leaves with
\* an empty one among them, and a nested group.
L == INSTANCE LogHandler WITH
       Names <- {"a", "g"}, MaxHandlers <- 4,
       GivenAttrs <-
         {Leaf(<<"a">>),
          Group(<<"g">>, <<Leaf(<<"a">>), Leaf(<<>>)>>),
          Group(<<>>, <<Group(<<"g">>, <<Leaf(<<"a">>)>>), Leaf(<<"a">>)>>)}

\* The first handler, with every attribute of three levels whose groups have at
\* most two attributes, and the inner ones at most one.
Leaves == {Leaf(key) : key \in Keys}
A == INSTANCE LogHandler WITH
       Names <- {"a"}, MaxHandlers <- 2,
       GivenAttrs <- Leaves \cup GroupsOf(Leaves \cup GroupsOf(Leaves, 1), 2)

log == <<arrays, handlers, given>>
vars == <<libraryVars, log>>

Init ==
    \/ LibraryInit /\ L!LogInit
    \/ /\ part \in {"log", "attrs"}
       /\ FrontendInit /\ R!RetentionInit /\ C!CInit /\ L!LogInit
       /\ consent = [s \in Sources |-> "missing"] /\ sysConfig = "missing"
       /\ dirs = {}

Next ==
    \/ LibraryNext /\ UNCHANGED log
    \/ part = "log" /\ L!LogNext /\ UNCHANGED libraryVars
    \/ part = "attrs" /\ A!LogNext /\ UNCHANGED libraryVars

Spec == Init /\ [][Next]_vars

-----------------------------------------------------------------------------
\* Every log handler prints exactly the attributes it was given, in order and
\* under their groups, whatever was derived from it or its relatives
\* (log_handler.go:62-112).
HandlersRight == L!HandlersKeepAttrs

=============================================================================
