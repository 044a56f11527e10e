------------------------------- MODULE Ledger -------------------------------
(***************************************************************************)
(* What request_logs promises, whatever the calls go through: "One row per *)
(* forwarded call" (README.md), no row for a rejected one, and each row    *)
(* the account of what its client was told.  A row may be missing, when    *)
(* something stopped between the answer and the insert; it is never        *)
(* written twice, early, for a call that was refused, or changed.  A call  *)
(* that ends in an unforeseen exception is refused as far as its client    *)
(* can tell, even if the provider was paid.                                *)
(*                                                                         *)
(* Proxy implements it for buffered calls, StreamProxy for a streamed one. *)
(***************************************************************************)
CONSTANTS Call,  \* the calls
          Untold \* told of a call that has no answer yet

VARIABLES phase, \* "open", "refused", "served" or "closed"
          told,  \* what the client was told, as far as a row tells it
          rows

vars == <<phase, told, rows>>

Init == /\ phase = [c \in Call |-> "open"]
        /\ told = [c \in Call |-> Untold]
        /\ rows = {}

\* The client has its answer, and so has the ledger's writer if it is not a refusal.
Answer(c, next) ==
    /\ phase[c] = "open"
    /\ phase' = [phase EXCEPT ![c] = next]
    /\ told' = [told EXCEPT ![c] = told'[c]]
    /\ UNCHANGED rows

Record(c) ==
    /\ phase[c] = "served"
    /\ phase' = [phase EXCEPT ![c] = "closed"]
    /\ rows' = rows \cup {[call |-> c, tale |-> told[c]]}
    /\ UNCHANGED told

\* A client or a machine goes away, or the database refuses the row.  An open
\* call may have got some of its answer out before.
Stop(calls) ==
    /\ \A c \in calls : phase[c] \in {"open", "served"}
    /\ phase' = [c \in Call |-> IF c \in calls THEN "closed" ELSE phase[c]]
    /\ told' = [c \in Call |-> IF c \in calls /\ phase[c] = "open" THEN told'[c] ELSE told[c]]
    /\ UNCHANGED rows

Next == \/ \E c \in Call : Answer(c, "refused") \/ Answer(c, "served") \/ Record(c)
        \/ \E calls \in SUBSET Call : Stop(calls)

Spec == Init /\ [][Next]_vars
=============================================================================
