------------------------------ MODULE MCIngest ------------------------------
(***************************************************************************)
(* Instances of WorkerPool for TLC: an application with up to two          *)
(* goroutines, so that one told to stop and its successor are there side   *)
(* by side, and a report of it or of an application that is not listed.    *)
(***************************************************************************)
EXTENDS WorkerPool, TLC

MCOverlap == {<<"a", 1>>, <<"a", 2>>}
MCOverlapApp == [w \in MCOverlap |-> w[1]]
MCOne == {"r1"}
MCOneApp == [r \in MCOne |-> "a"]
MCOtherApp == [r \in MCOne |-> "b"]
MCOneContent == [r \in MCOne |->
    [form |-> "object", optOut |-> FALSE, data |-> TRUE, extras |-> FALSE,
     sysExtras |-> FALSE]]

=============================================================================
