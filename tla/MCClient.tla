------------------------------ MODULE MCClient ------------------------------
(* Small instances of Client. *)
EXTENDS Client

Timer == {{"retry"}}
Once == {{}}
PlainOrForced == {{}, {"force"}}
DryOrForced == {{"dryRun"}, {"dryRun", "force"}, {"force"}}
Given == {{"given"}}
=============================================================================
