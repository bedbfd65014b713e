------------------------------- MODULE Intake -------------------------------
(***************************************************************************)
(* The request handlers of the web service (server/internal/webservice:    *)
(* setupPrimaryMux, handlers/*.go, metrics/*.go): a request is routed,     *)
(* checked, read, and written to the reports directory as a temporary file *)
(* that is renamed.  http.TimeoutHandler answers 503 in the handler's      *)
(* place when the time is up, while the handler goes on.                   *)
(*                                                                         *)
(* Every request makes a fresh identifier, so that a request and the file  *)
(* it may leave have the same name here.                                   *)
(***************************************************************************)
EXTENDS Naturals, FiniteSets

CONSTANTS Requests,    \* requests, and the files they may leave
          MaxRequests  \* bound: requests that arrive

\* The route a request takes, and its body.  "noName" is a path value that is
\* empty or has dots in it; "versionHead" is a HEAD request, which the pattern
\* "GET /version" matches too.
Shapes == [route : {"upload", "legacy", "version", "versionHead", "unknown",
                    "wrongMethod"},
           noName : BOOLEAN,
           body : {"json", "notJson", "tooLarge"}]
AnyShape == CHOOSE x \in Shapes : TRUE

VARIABLES shape,       \* what the requests look like, once they arrive
          handler,     \* where the handler of a request is
          answer,      \* the status the client gets; 0 as long as there is none
          reason,      \* the reject_reason label of the endpoint's metrics
          counted,     \* requests the endpoint's metrics count, by their status
          temp         \* temporary files

intake == <<shape, handler, answer, reason, counted, temp>>

Success(r) == IF shape[r].route = "upload" THEN 202 ELSE 200
Statuses == {0, 200, 202, 400, 403, 404, 405, 500, 503}
Reasons == {"none", "forbidden", "unreadable_payload", "invalid_json",
            "method_not_allowed", "internal_server_error"}

IntakeTypeOK ==
    /\ shape \in [Requests -> Shapes]
    /\ handler \in [Requests -> {"new", "admit", "body", "mkdir", "create",
                                 "write", "stored", "done", "killed"}]
    /\ answer \in [Requests -> Statuses]
    /\ reason \in [Requests -> Reasons]
    /\ counted \in [Requests -> Statuses \ {503}]
    /\ temp \in SUBSET Requests

IntakeInit ==
    /\ shape = [r \in Requests |-> AnyShape]
    /\ handler = [r \in Requests |-> "new"]
    /\ answer = [r \in Requests |-> 0]
    /\ reason = [r \in Requests |-> "none"]
    /\ counted = [r \in Requests |-> 0]
    /\ temp = {}

-----------------------------------------------------------------------------
GotoH(r, l) == handler' = [handler EXCEPT ![r] = l]

\* What the handler writes reaches the client unless the time was up before.
Reply(r, status) ==
    answer' = [answer EXCEPT ![r] = IF @ = 0 THEN status ELSE @]

\* The handler of an endpoint returns: the middleware counts the status it
\* wrote, with the reason it set, whatever the client got.
Finish(r, status, why) ==
    /\ GotoH(r, "done")
    /\ Reply(r, status)
    /\ counted' = [counted EXCEPT ![r] = status]
    /\ reason' = [reason EXCEPT ![r] = why]

\* ServeHTTP of Upload and of LegacyReport, which has two names to check: an
\* invalid name is refused, and any other goes to the JSON handler.
UploadServeHTTP(r, x) ==
    IF x.noName THEN Finish(r, 403, "forbidden")
    ELSE GotoH(r, "admit") /\ UNCHANGED <<answer, counted, reason>>

LegacyServeHTTP(r, x) == UploadServeHTTP(r, x)

VersionHandler(r, x) ==
    IF x.route = "version" THEN Finish(r, 200, "none")
    ELSE Finish(r, 405, "method_not_allowed")

\* setupPrimaryMux: the mux answers what matches no route or method itself.
Route(r) ==
    /\ handler[r] = "new"
    /\ Cardinality({q \in Requests : handler[q] # "new"}) < MaxRequests
    /\ \E x \in Shapes :
         /\ shape' = [shape EXCEPT ![r] = x]
         /\ CASE x.route = "unknown" ->
                   GotoH(r, "done") /\ Reply(r, 404) /\ UNCHANGED <<counted, reason>>
              [] x.route = "wrongMethod" ->
                   GotoH(r, "done") /\ Reply(r, 405) /\ UNCHANGED <<counted, reason>>
              [] x.route \in {"version", "versionHead"} -> VersionHandler(r, x)
              [] x.route = "upload" -> UploadServeHTTP(r, x)
              [] x.route = "legacy" -> LegacyServeHTTP(r, x)
    /\ UNCHANGED temp

\* IsAllowed: the list may be edited at any time (ConfigWatch), so either
\* answer is possible.
Admit(r) ==
    /\ handler[r] = "admit"
    /\ \/ Finish(r, 403, "forbidden")
       \/ GotoH(r, "body") /\ UNCHANGED <<answer, counted, reason>>
    /\ UNCHANGED <<shape, temp>>

\* The body is read, up to the limit, and must be JSON; the connection may
\* break while it is.
ReadBody(r) ==
    /\ handler[r] = "body"
    /\ \/ Finish(r, 400, "unreadable_payload")
       \/ shape[r].body = "notJson" /\ Finish(r, 400, "invalid_json")
       \/ /\ shape[r].body = "json"
          /\ GotoH(r, "mkdir")
          /\ UNCHANGED <<answer, counted, reason>>
    /\ UNCHANGED <<shape, temp>>

\* MkdirAll, and the creation of the temporary file by AtomicWrite.
Prepare(r) ==
    /\ handler[r] \in {"mkdir", "create"}
    /\ \/ Finish(r, 500, "internal_server_error") /\ UNCHANGED temp
       \/ /\ handler[r] = "mkdir"
          /\ GotoH(r, "create")
          /\ UNCHANGED <<answer, counted, reason, temp>>
       \/ /\ handler[r] = "create"
          /\ GotoH(r, "write")
          /\ temp' = temp \cup {r}
          /\ UNCHANGED <<answer, counted, reason>>
    /\ UNCHANGED shape

\* Mutant of WriteFails: the error of the rename is not looked at.
WriteFailsSilent(r) ==
    /\ handler[r] = "write"
    /\ Finish(r, Success(r), "none")
    /\ temp' = temp \ {r}
    /\ UNCHANGED shape

\* A write, the close or the rename fails: the temporary file is removed, or
\* stays when that fails too.
WriteFails(r) ==
    /\ handler[r] = "write"
    /\ Finish(r, 500, "internal_server_error")
    /\ temp' \in {temp, temp \ {r}}
    /\ UNCHANGED shape

\* The rename puts the file in place.
Renamed(r) ==
    /\ handler[r] = "write"
    /\ GotoH(r, "stored")
    /\ temp' = temp \ {r}
    /\ UNCHANGED <<shape, answer, counted, reason>>

\* Mutant of Accept: the time limit leads to a refusal in the metrics.
AcceptRefused(r) ==
    /\ handler[r] = "stored"
    /\ Finish(r, Success(r), IF answer[r] = 503 THEN "internal_server_error" ELSE "none")
    /\ UNCHANGED <<shape, temp>>

Accept(r) ==
    /\ handler[r] = "stored"
    /\ Finish(r, Success(r), "none")
    /\ UNCHANGED <<shape, temp>>

\* RequestTimeout: the client gets 503 while the handler is at work.
TimeIsUp(r) ==
    /\ handler[r] \notin {"new", "done", "killed"}
    /\ answer[r] = 0
    /\ answer' = [answer EXCEPT ![r] = 503]
    /\ UNCHANGED <<shape, handler, counted, reason, temp>>

\* The web service is killed: the answers that were not sent never are, and
\* the temporary files stay.
IntakeKilled ==
    /\ handler' = [r \in Requests |->
                     IF handler[r] \in {"new", "done"} THEN handler[r] ELSE "killed"]
    /\ UNCHANGED <<shape, answer, counted, reason, temp>>

\* The steps of a handler apart from the rename.
Handle(r) ==
    \/ Route(r) \/ Admit(r) \/ ReadBody(r) \/ Prepare(r) \/ WriteFails(r)
    \/ Accept(r)

Acked == {r \in Requests : answer[r] = Success(r) /\ shape[r].route # "version"}

=============================================================================
