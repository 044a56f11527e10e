------------------------------- MODULE DbPool -------------------------------
(***************************************************************************)
(* The database connections of one machine: the pool of backend/app/db.py, *)
(* the session every request gets from get_session, and the one that       *)
(* write_request_log opens next to it.                                     *)
(*                                                                         *)
(* A session checks a connection out with its first statement and keeps it *)
(* until it is closed.  FastAPI closes the request's session when the      *)
(* response has been sent and its background tasks have run: a call holds  *)
(* the connection of its authentication while the provider works, and      *)
(* still holds it while its log record waits for a second one.  What the   *)
(* calls do otherwise is modelled in Proxy and StreamProxy; with           *)
(* AUTH_ENABLED, as deployed.                                              *)
(***************************************************************************)
EXTENDS Naturals, FiniteSets

CONSTANTS
    Req,        \* the requests of a behaviour; each arrives once
    Query,      \* those that read the metrics; the others are calls under /v1
    Connection, \* what the pool may open: pool_size + max_overflow
    Unwritable, \* the calls whose row Postgres refuses: a model that is not a text,
                \* a count beyond 32 bits
    Outages,    \* whether Postgres may be out of reach for a while
    None        \* "no connection"

ASSUME ReqAssumption        == /\ IsFiniteSet(Req) /\ Query \subseteq Req
                               /\ Unwritable \subseteq Req \ Query
ASSUME ConnectionAssumption == None \notin Connection
ASSUME OutagesAssumption    == Outages \in BOOLEAN

VARIABLES
    database,    \* whether Postgres can be reached
    pc,          \* where a request stands
    session,     \* the connection of its get_session
    sink,        \* the connection of its write_request_log
    forwarded,   \* the calls that were answered and have a record to write
    request_logs \* the calls that have a row

vars == <<database, pc, session, sink, forwarded, request_logs>>

PC == {"idle", "connecting", "serving", "logging", "inserting", "closing", "done"}

Free == {c \in Connection : \A r \in Req : session[r] # c /\ sink[r] # c}

----------------------------------------------------------------------------
Init == /\ database = TRUE
        /\ pc = [r \in Req |-> "idle"]
        /\ session = [r \in Req |-> None]
        /\ sink = [r \in Req |-> None]
        /\ forwarded = {} /\ request_logs = {}

Goto(r, from, to) == pc[r] = from /\ pc' = [pc EXCEPT ![r] = to]

\* External, the pool: it gives up on a waiter after 30 seconds.  Inserting a row
\* and closing a session are short against that; a provider's answer is not.
Exhausted == Free = {} /\ \A r \in Req : pc[r] \notin {"inserting", "closing"}

Arrive(r) ==
    /\ Goto(r, "idle", "connecting")
    /\ UNCHANGED <<database, session, sink, forwarded, request_logs>>

\* The first statement: the select of resolve_auth, or a metrics query.
Connect(r) ==
    /\ database /\ Goto(r, "connecting", "serving")
    /\ \E c \in Free : session' = [session EXCEPT ![r] = c]
    /\ UNCHANGED <<database, sink, forwarded, request_logs>>

\* A connection is not to be had: the pool gives up, or what it gives out, even
\* after the pre-ping, leads nowhere.
Unavailable == Exhausted \/ (Free # {} /\ ~database)

\* A 500; the session has nothing to give back.
ConnectFails(r) ==
    /\ Unavailable /\ Goto(r, "connecting", "done")
    /\ UNCHANGED <<database, session, sink, forwarded, request_logs>>

\* A query is answered; a call is refused (401, 429), ends in an exception (500), or
\* has its answer sent.  A call waits here for its client, which may never finish
\* sending its body or reading its stream.
Serve(r) ==
    \/ /\ Goto(r, "serving", "closing")
       /\ UNCHANGED <<database, session, sink, forwarded, request_logs>>
    \/ /\ r \notin Query /\ Goto(r, "serving", "logging")
       /\ forwarded' = forwarded \cup {r}
       /\ UNCHANGED <<database, session, sink, request_logs>>

\* write_request_log opens a session of its own.
LogConnect(r) ==
    /\ database /\ Goto(r, "logging", "inserting")
    /\ \E c \in Free : sink' = [sink EXCEPT ![r] = c]
    /\ UNCHANGED <<database, session, forwarded, request_logs>>

\* Mutant of LogFails: the pool has no patience at all (pool_timeout = 0).
LogFailsAtOnce(r) ==
    /\ Goto(r, "logging", "closing")
    /\ UNCHANGED <<database, session, sink, forwarded, request_logs>>

\* Mutant of LogFails: the pool never gives up (pool_timeout = None).
LogWaits(r) ==
    /\ Free # {} /\ ~database /\ Goto(r, "logging", "closing")
    /\ UNCHANGED <<database, session, sink, forwarded, request_logs>>

\* The error of the pool or of Postgres is caught and logged: the record is gone.
LogFails(r) ==
    /\ Unavailable /\ Goto(r, "logging", "closing")
    /\ UNCHANGED <<database, session, sink, forwarded, request_logs>>

\* Mutant of Insert: the sink's session is not closed.
InsertKeepsItsConnection(r) ==
    /\ database /\ Goto(r, "inserting", "closing")
    /\ request_logs' = request_logs \cup {r}
    /\ UNCHANGED <<database, session, sink, forwarded>>

\* The row is committed, and the sink's session closed.
Insert(r) ==
    /\ database /\ r \notin Unwritable /\ Goto(r, "inserting", "closing")
    /\ request_logs' = request_logs \cup {r}
    /\ sink' = [sink EXCEPT ![r] = None]
    /\ UNCHANGED <<database, session, forwarded>>

\* Postgres refuses the values, or is lost before the commit or with its reply.
\* Either is caught and logged.
InsertFails(r) ==
    /\ Goto(r, "inserting", "closing")
    /\ \/ (r \in Unwritable \/ ~database) /\ UNCHANGED request_logs
       \/ /\ r \notin Unwritable /\ ~database
          /\ request_logs' = request_logs \cup {r}
    /\ sink' = [sink EXCEPT ![r] = None]
    /\ UNCHANGED <<database, session, forwarded>>

\* Mutant of Close: a connection whose database is lost is not given back.
CloseKeepsALostConnection(r) ==
    /\ Goto(r, "closing", "done")
    /\ session' = IF database THEN [session EXCEPT ![r] = None] ELSE session
    /\ UNCHANGED <<database, sink, forwarded, request_logs>>

\* get_session is resumed and closes the request's session.
Close(r) ==
    /\ Goto(r, "closing", "done")
    /\ session' = [session EXCEPT ![r] = None]
    /\ UNCHANGED <<database, sink, forwarded, request_logs>>

\* What a request does once it is not waiting for a client or the provider.
Proceed(r) == \/ Connect(r) \/ ConnectFails(r) \/ LogConnect(r) \/ LogFails(r)
              \/ Insert(r) \/ InsertFails(r) \/ Close(r)

Step(r) == Proceed(r) \/ Serve(r)

\* External: Postgres is lost, or there again.
DatabaseTurns ==
    /\ Outages /\ database' = ~database
    /\ UNCHANGED <<pc, session, sink, forwarded, request_logs>>

Next == DatabaseTurns \/ \E r \in Req : Arrive(r) \/ Step(r)

Spec == Init /\ [][Next]_vars

----------------------------------------------------------------------------
(* Properties. *)

\* Every variable keeps its type.
TypeOK == /\ database \in BOOLEAN
          /\ pc \in [Req -> PC]
          /\ session \in [Req -> Connection \cup {None}]
          /\ sink \in [Req -> Connection \cup {None}]
          /\ forwarded \subseteq Req /\ request_logs \subseteq Req

\* A connection is in one session at a time, and back in the pool whatever way
\* its session ended: a request that waits to begin, or is done, has none, and
\* only one that is inserting has two.
NoConnectionIsShared ==
    /\ \A r, q \in Req : r # q /\ session[r] # None => session[r] # session[q]
    /\ \A r, q \in Req : r # q /\ sink[r] # None => sink[r] # sink[q]
    /\ \A r, q \in Req : session[r] # None => session[r] # sink[q]
    /\ \A r \in Req : sink[r] # None => pc[r] = "inserting"
    /\ \A r \in Req : session[r] # None =>
          pc[r] \in {"serving", "logging", "inserting", "closing"}

\* The requests that have a connection for themselves.
Open == {r \in Req : session[r] # None}

\* While Postgres can be reached, a row is lost only if as many requests are open
\* as the pool has connections: below that there is always one for the insert, or
\* one on its way back, however long the provider or their clients keep the others.
\* (A row Postgres would not take is lost in any case.)
RowLostOnlyIfFull ==
    [][(\E r \in Req \ Unwritable :
                       /\ pc[r] \in {"logging", "inserting"} /\ pc'[r] = "closing"
                       /\ r \notin request_logs')
          => ~database \/ Cardinality(Open) >= Cardinality(Connection)]_vars

\* Requests wait for one another's connections, but not for ever, whatever the
\* clients of the others do: a request is served or turned away, and one that has
\* its answer ends, with its row or without.
EveryWaitEnds ==
    \A r \in Req : /\ pc[r] = "connecting" ~> pc[r] \in {"serving", "done"}
                   /\ pc[r] = "logging" ~> pc[r] = "done"

\* The inductive invariant behind RowLostOnlyIfFull: connections are held where
\* the positions of the requests say so, and nowhere else.
IInv == /\ TypeOK
        /\ NoConnectionIsShared
        /\ request_logs \subseteq forwarded
        /\ \A r \in Req : pc[r] \in {"logging", "inserting"} => r \in forwarded

----------------------------------------------------------------------------
(* A claim of the documentation that the code does not keep. *)

\* README.md on request_logs: "One row per forwarded call".  Calls that all hold a
\* connection wait for each other's second one, until the pool gives up on a row.
OneRowPerForwardedCall ==
    \A r \in Req : r \in forwarded /\ pc[r] = "done" => r \in request_logs
=============================================================================
