----------------------------- MODULE Readiness -----------------------------
(***************************************************************************)
(* One machine between Fly and its dependencies: the start-up and the      *)
(* readiness endpoint of backend/app/main.py, on the connection pool of    *)
(* DbPool.  Fly asks /health/ready (fly.toml), waits five seconds for the  *)
(* answer, and sends traffic to the machine while the answers are 200.     *)
(* The check needs a connection of the same pool as the calls, which may   *)
(* all be held for as long as the provider and the clients take.           *)
(***************************************************************************)
EXTENDS DbPool

CONSTANT Probe \* the handlers of /health/ready that may be running at once

ASSUME ProbeAssumption == Probe \subseteq Query

VARIABLES
    up,       \* whether the process has started
    redis,    \* whether Redis can be reached
    rotation, \* whether Fly routes traffic to the machine
    waiting,  \* the probe whose answer Fly waits for, if any
    healthy,  \* the probes whose `select 1` was answered
    troubled  \* the probes during which a dependency was lost (history)

machine == <<up, redis, rotation, waiting, healthy, troubled>>
all     == <<vars, machine>>

----------------------------------------------------------------------------
MachineInit == /\ Init
               /\ up = FALSE /\ redis = TRUE /\ rotation = FALSE
               /\ waiting = {} /\ healthy = {} /\ troubled = {}

\* lifespan: without an answer to its PING the process does not start, and is
\* started again.
Startup ==
    /\ ~up /\ redis /\ up' = TRUE
    /\ UNCHANGED <<vars, redis, rotation, waiting, healthy, troubled>>

\* A deploy, a suspension, a crash: what was running is gone, and the pool with it.
Shutdown ==
    /\ up /\ up' = FALSE
    /\ pc' = [r \in Req |-> IF pc[r] = "idle" THEN "idle" ELSE "done"]
    /\ session' = [r \in Req |-> None] /\ sink' = [r \in Req |-> None]
    /\ rotation' = FALSE /\ waiting' = {} /\ healthy' = {}
    /\ UNCHANGED <<database, forwarded, request_logs, redis, troubled>>

\* Traffic comes while the machine is in rotation, and is served while it is not.
Traffic(r) == up /\ rotation /\ Arrive(r) /\ UNCHANGED machine

Serving(r) == Step(r) /\ UNCHANGED machine

\* Mutant of Check: what the last check saw of the database is remembered.
CheckRemembers(p) ==
    /\ up /\ waiting = {} /\ waiting' = {p}
    /\ Arrive(p)
    /\ troubled' = IF database /\ redis THEN troubled \ {p} ELSE troubled \cup {p}
    /\ UNCHANGED <<up, redis, rotation, healthy>>

\* Fly has one check under way; the handler of an earlier one may still wait.
Check(p) ==
    /\ up /\ waiting = {} /\ waiting' = {p}
    /\ Arrive(p)
    /\ healthy' = healthy \ {p}
    /\ troubled' = IF database /\ redis THEN troubled \ {p} ELSE troubled \cup {p}
    /\ UNCHANGED <<up, redis, rotation>>

\* Mutant of CheckDatabase: the outcome is noted when the connection is back.
CheckDatabaseLate(p) ==
    /\ \/ Connect(p) \/ Close(p)
       \/ ConnectFails(p) /\ (Exhausted => p \notin waiting)
       \/ Serve(p)
    /\ healthy' = IF pc[p] = "closing" /\ database THEN healthy \cup {p} ELSE healthy
    /\ UNCHANGED <<up, redis, rotation, waiting, troubled>>

\* engine.connect(), `select 1`, and the connection given back.  The pool's
\* patience (30 seconds) outlasts Fly's.
CheckDatabase(p) ==
    /\ \/ Connect(p) \/ Close(p)
       \/ ConnectFails(p) /\ (Exhausted => p \notin waiting)
       \/ Serve(p)
    /\ healthy' = IF pc[p] = "serving" /\ database THEN healthy \cup {p} ELSE healthy
    /\ UNCHANGED <<up, redis, rotation, waiting, troubled>>

\* The PING, and the answer: 200 if both checks are "ok", else 503.  The name of
\* the handler, or of one that was stopped, can be used again.
Verdict(p) ==
    /\ Goto(p, "done", "idle")
    /\ rotation' = IF p \in waiting THEN p \in healthy /\ redis ELSE rotation
    /\ waiting' = waiting \ {p}
    /\ UNCHANGED <<database, session, sink, forwarded, request_logs, up, redis, healthy, troubled>>

\* External, Fly: five seconds are over.  Only a dependency that is lost, or a
\* pool without a connection, takes as long.
FlyGivesUp(p) ==
    /\ p \in waiting
    /\ \/ pc[p] = "connecting" /\ (Exhausted \/ ~database)
       \/ pc[p] = "serving" /\ ~database
       \/ pc[p] = "done" /\ ~redis
    /\ rotation' = FALSE /\ waiting' = {}
    /\ UNCHANGED <<vars, up, redis, healthy, troubled>>

\* External: a dependency is lost, or there again.
RedisTurns ==
    /\ Outages /\ redis' = ~redis /\ troubled' = troubled \cup waiting
    /\ UNCHANGED <<vars, up, rotation, waiting, healthy>>

PostgresTurns ==
    /\ DatabaseTurns /\ troubled' = troubled \cup waiting
    /\ UNCHANGED <<up, redis, rotation, waiting, healthy>>

Run(r)   == IF r \in Probe THEN CheckDatabase(r) \/ Verdict(r) ELSE Serving(r)
Watch    == \E p \in Probe : Check(p) \/ FlyGivesUp(p)

MachineNext == \/ Startup \/ Shutdown \/ Watch \/ RedisTurns \/ PostgresTurns
               \/ \E r \in Req : Run(r)
               \/ \E r \in Req \ Probe : Traffic(r)

\* What runs on its own: a check, a metrics query, and a call but for the wait for
\* its client.
Unattended(r) == IF r \in Query THEN Run(r) ELSE Proceed(r) /\ UNCHANGED machine

MachineSafety == MachineInit /\ [][MachineNext]_all

\* The process is started again until it runs, its tasks are scheduled, the pool
\* serves its waiters in the order they came, so that no check overtakes a call
\* for ever, and Fly asks every 30 seconds and waits no longer than 5.  Nothing is
\* assumed of traffic, of clients, which may neither send, read nor hang up, of
\* outages and of shutdowns.
MachineSpec ==
    /\ MachineSafety
    /\ WF_all(Startup) /\ WF_all(Watch)
    /\ \A r \in Req : SF_all(Unattended(r))

----------------------------------------------------------------------------
(* Properties. *)

\* Every variable keeps its type, and Fly waits for one handler at a time.
MachineTypeOK == /\ up \in BOOLEAN /\ redis \in BOOLEAN /\ rotation \in BOOLEAN
                 /\ waiting \subseteq Probe /\ healthy \subseteq Probe /\ troubled \subseteq Probe
                 /\ \A p, q \in waiting : p = q

\* A machine that keeps running is taken out of rotation only if a dependency was
\* lost while it was being asked, or if the pool had no connection for the check
\* because as many requests as it has connections were open: no number of
\* requests below that, and nothing an earlier check left behind, does it.
OutOnlyForCause ==
    [][rotation /\ ~rotation' /\ up' =>
          \/ Cardinality(Open) >= Cardinality(Connection)
          \/ \E p \in waiting : p \in troubled]_all

\* "An instance that has lost either should be pulled out of rotation": it ends up
\* outside and stays there while Postgres or Redis stays away.
LostDependencyIsNoticed == <>[](~database) \/ <>[](~redis) => <>[](~rotation)

\* The calls that wait for their clients or the provider, each with a connection.
Attended == {r \in Req \ Query : pc[r] = "serving"}

\* A machine whose dependencies are back serves again, without being restarted,
\* unless calls that wait for their clients hold every connection of its pool, one
\* each: neither an outage, nor a pool that was full, nor fewer stalled clients than
\* that leave anything that keeps it outside.
ComesBack ==
    <>[](/\ up /\ database /\ redis
         /\ Cardinality(Attended) < Cardinality(Connection)) => <>[]rotation

\* The invariant behind OutOnlyForCause: a check under way during which nothing was
\* lost has found the database well as soon as it has asked.
Untroubled(p) == /\ database /\ redis
                 /\ pc[p] \in {"connecting", "serving", "closing", "done"}
                 /\ pc[p] \in {"closing", "done"} => p \in healthy

MachineInv == /\ IInv /\ MachineTypeOK
              /\ \A p \in waiting \ troubled : Untroubled(p)
=============================================================================
