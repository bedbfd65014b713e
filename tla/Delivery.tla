------------------------------ MODULE Delivery ------------------------------
(***************************************************************************)
(* What the server as a whole promises about a report: it acknowledges     *)
(* only what it holds, records what it holds, and lets go of a report only *)
(* when it is recorded, when it is not a sound report, or when it could    *)
(* not be read.  Pipeline implements it.                                   *)
(***************************************************************************)
EXTENDS Naturals

CONSTANTS Items,       \* reports
          Sound        \* those that decode and validate

VARIABLES taken,       \* reports that have been stored
          held,        \* those that still are
          acked,       \* those whose sender has been told so
          recorded,    \* those that have a row in the table of their application
          unreadable   \* those of which a read failed

delivery == <<taken, held, acked, recorded, unreadable>>

DInit ==
    /\ taken = {} /\ held = {} /\ acked = {} /\ recorded = {}
    /\ unreadable = {}

Take(r) ==
    /\ r \notin taken
    /\ taken' = taken \cup {r}
    /\ held' = held \cup {r}
    /\ UNCHANGED <<acked, recorded, unreadable>>

Acknowledge(r) ==
    /\ r \in taken
    /\ acked' = acked \cup {r}
    /\ UNCHANGED <<taken, held, recorded, unreadable>>

Record(r) ==
    /\ r \in taken
    /\ r \in Sound
    /\ recorded' = recorded \cup {r}
    /\ UNCHANGED <<taken, held, acked, unreadable>>

GiveUp(r) ==
    /\ r \in held
    /\ unreadable' = unreadable \cup {r}
    /\ UNCHANGED <<taken, held, acked, recorded>>

Release(r) ==
    /\ r \in held
    /\ r \in Sound => r \in recorded \cup unreadable
    /\ held' = held \ {r}
    /\ UNCHANGED <<taken, acked, recorded, unreadable>>

DNext ==
    \E r \in Items :
       Take(r) \/ Acknowledge(r) \/ Record(r) \/ GiveUp(r) \/ Release(r)

DSpec == DInit /\ [][DNext]_delivery

\* The promise to the sender: a sound report that was acknowledged is held or
\* recorded, unless it could not be read.
Promise ==
    acked \cap Sound \subseteq held \cup recorded \cup unreadable

=============================================================================
