----------------------------- MODULE HttpServer -----------------------------
(***************************************************************************)
(* What the two services use of net/http: a server that listens, takes     *)
(* requests, and is stopped by Shutdown (which lets the requests finish,   *)
(* as long as its context allows) or by Close (which cuts them off).  A    *)
(* server that was stopped before it listens never does.                   *)
(***************************************************************************)
EXTENDS Naturals

CONSTANTS Servers,
          MaxBusy      \* bound: requests a server works on at a time

VARIABLES listener,    \* "new", "listening", "failed", "down"
          busy,        \* requests in progress
          cut          \* history: a request was cut off

http == <<listener, busy, cut>>

HttpTypeOK ==
    /\ listener \in [Servers -> {"new", "listening", "failed", "down"}]
    /\ busy \in [Servers -> 0 .. MaxBusy]
    /\ cut \in SUBSET Servers

HttpInit ==
    /\ listener = [s \in Servers |-> "new"]
    /\ busy = [s \in Servers |-> 0]
    /\ cut = {}

\* net.Listen and Serve, in the goroutine of the server; either may fail.
Listen(s) ==
    /\ listener[s] = "new"
    /\ listener' = [listener EXCEPT ![s] = "listening"]
    /\ UNCHANGED <<busy, cut>>

ServeFails(s) ==
    /\ listener[s] \in {"new", "listening"}
    /\ listener' = [listener EXCEPT ![s] = "failed"]
    /\ UNCHANGED <<busy, cut>>

Request(s) ==
    /\ listener[s] = "listening"
    /\ busy[s] < MaxBusy
    /\ busy' = [busy EXCEPT ![s] = @ + 1]
    /\ UNCHANGED <<listener, cut>>

Respond(s) ==
    /\ busy[s] > 0
    /\ busy' = [busy EXCEPT ![s] = @ - 1]
    /\ UNCHANGED <<listener, cut>>

Down(s) == IF listener[s] = "failed" THEN "failed" ELSE "down"

\* Shutdown closes the listener and then waits.
Shutdown(s) ==
    /\ listener' = [listener EXCEPT ![s] = Down(s)]
    /\ UNCHANGED <<busy, cut>>

\* Close closes the listeners and the connections of a set of servers.
Close(ss) ==
    /\ listener' = [s \in Servers |-> IF s \in ss THEN Down(s) ELSE listener[s]]
    /\ cut' = cut \cup {s \in ss : busy[s] > 0}
    /\ busy' = [s \in Servers |-> IF s \in ss THEN 0 ELSE busy[s]]

\* The goroutine of the server has ended: Serve has returned.
ServeEnded(s) == listener[s] \in {"failed", "down"}

=============================================================================
