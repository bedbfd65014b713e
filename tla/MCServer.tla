------------------------------ MODULE MCServer ------------------------------
(* A small instance of Server: what its one worker finds. *)
EXTENDS Server, TLC

Holds(f, optOut) ==
    [form |-> f, optOut |-> optOut, data |-> FALSE, extras |-> optOut,
     sysExtras |-> FALSE]

\* An opt-out with extra fields, which is sound, and a report that fits no model.
MCContent == ("r1" :> Holds("object", TRUE)) @@ ("r2" :> Holds("mismatch", FALSE))
MCAppOf == [r \in {"r1", "r2"} |-> "a"]
MCWorkerApp == [w \in {"w1"} |-> "a"]
=============================================================================
