----------------------------- MODULE MCPipeline -----------------------------
(***************************************************************************)
(* Instances of Pipeline for TLC.                                          *)
(***************************************************************************)
EXTENDS Pipeline, TLC

Holds(f, o, d, e) ==
    [form |-> f, optOut |-> o, data |-> d, extras |-> e, sysExtras |-> FALSE]

MCWorkersApp == [w \in Workers |-> "a"]
Symmetry == Permutations(Workers)

\* An opt-out with extra fields, which is sound; a report that goes into both
\* tables; one that fits no model.
MCContent == ("optOut" :> Holds("object", TRUE, FALSE, TRUE)) @@
             ("both" :> Holds("object", FALSE, TRUE, TRUE)) @@
             ("mismatch" :> Holds("mismatch", FALSE, FALSE, FALSE))
MCReports == DOMAIN MCContent
MCReportsApp == [r \in MCReports |-> "a"]

=============================================================================
