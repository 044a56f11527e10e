-------------------------- MODULE ReadinessProofs --------------------------
(***************************************************************************)
(* Theorems about DbPool and Readiness, for every number of calls, checks  *)
(* and connections: the pool is sound, it stays so under checks, outages   *)
(* and restarts, and a machine is taken out of rotation only for cause.    *)
(***************************************************************************)
EXTENDS Readiness, FiniteSetTheorems, TLAPS

----------------------------------------------------------------------------
(* The pool: DbPool. *)

LEMMA IInvInit == Init => IInv
BY OutagesAssumption DEF Init, IInv, TypeOK, PC, NoConnectionIsShared

\* A step that only moves a request among positions that allow what it holds.
LEMMA MoveOk ==
    ASSUME IInv, NEW r \in Req, NEW from \in PC, NEW to \in PC,
           Goto(r, from, to), UNCHANGED <<database, session, sink, request_logs>>,
           sink[r] = None,
           session[r] # None => to \in {"serving", "logging", "inserting", "closing"},
           forwarded' \in {forwarded, forwarded \cup {r}},
           to \in {"logging", "inserting"} => r \in forwarded'
    PROVE  IInv'
<1>1. TypeOK'
  BY DEF IInv, TypeOK, Goto
<1>2. NoConnectionIsShared'
  BY DEF IInv, TypeOK, NoConnectionIsShared, Goto
<1>3. request_logs' \subseteq forwarded'
  BY DEF IInv
<1>4. \A q \in Req : pc'[q] \in {"logging", "inserting"} => q \in forwarded'
  BY DEF IInv, TypeOK, Goto
<1> QED
  BY <1>1, <1>2, <1>3, <1>4 DEF IInv

\* Checking a free connection out does not take it from anyone.
LEMMA ConnectOk == ASSUME IInv, NEW r \in Req, Connect(r) PROVE IInv'
<1>1. PICK c \in Free : session' = [session EXCEPT ![r] = c]
  BY DEF Connect
<1>2. c \in Connection /\ c # None /\ \A q \in Req : session[q] # c /\ sink[q] # c
  BY ConnectionAssumption DEF Free
<1>3. pc' = [pc EXCEPT ![r] = "serving"] /\ pc[r] = "connecting"
  BY DEF Connect, Goto
<1>4. TypeOK'
  BY <1>1, <1>2, <1>3 DEF IInv, TypeOK, PC, Connect
<1>5. NoConnectionIsShared'
  BY <1>1, <1>2, <1>3 DEF IInv, TypeOK, NoConnectionIsShared, Connect
<1> QED
  BY <1>3, <1>4, <1>5 DEF IInv, TypeOK, Connect

LEMMA LogConnectOk == ASSUME IInv, NEW r \in Req, LogConnect(r) PROVE IInv'
<1>1. PICK c \in Free : sink' = [sink EXCEPT ![r] = c]
  BY DEF LogConnect
<1>2. c \in Connection /\ c # None /\ \A q \in Req : session[q] # c /\ sink[q] # c
  BY ConnectionAssumption DEF Free
<1>3. pc' = [pc EXCEPT ![r] = "inserting"] /\ pc[r] = "logging"
  BY DEF LogConnect, Goto
<1>4. TypeOK'
  BY <1>1, <1>2, <1>3 DEF IInv, TypeOK, PC, LogConnect
<1>5. NoConnectionIsShared'
  BY <1>1, <1>2, <1>3 DEF IInv, TypeOK, NoConnectionIsShared, LogConnect
<1> QED
  BY <1>3, <1>4, <1>5 DEF IInv, TypeOK, LogConnect

\* What is given back was held by one session.
LEMMA GiveBackOk == ASSUME IInv, NEW r \in Req, Insert(r) \/ InsertFails(r) \/ Close(r)
    PROVE  IInv'
<1>1. CASE Insert(r) \/ InsertFails(r)
  <2>1. pc' = [pc EXCEPT ![r] = "closing"] /\ pc[r] = "inserting"
    BY <1>1 DEF Insert, InsertFails, Goto
  <2>2. TypeOK'
    BY <1>1, <2>1 DEF IInv, TypeOK, PC, Insert, InsertFails
  <2>3. NoConnectionIsShared'
    BY <1>1, <2>1 DEF IInv, TypeOK, NoConnectionIsShared, Insert, InsertFails
  <2> QED
    BY <1>1, <2>1, <2>2, <2>3 DEF IInv, TypeOK, Insert, InsertFails
<1>2. CASE Close(r)
  <2>1. pc' = [pc EXCEPT ![r] = "done"] /\ pc[r] = "closing"
    BY <1>2 DEF Close, Goto
  <2>2. TypeOK'
    BY <1>2, <2>1 DEF IInv, TypeOK, PC, Close
  <2>3. NoConnectionIsShared'
    BY <1>2, <2>1 DEF IInv, TypeOK, NoConnectionIsShared, Close
  <2> QED
    BY <1>2, <2>1, <2>2, <2>3 DEF IInv, TypeOK, Close
<1> QED
  BY <1>1, <1>2

LEMMA IInvNext == IInv /\ [Next]_vars => IInv'
<1> SUFFICES ASSUME IInv, [Next]_vars PROVE IInv'
  OBVIOUS
<1>1. CASE UNCHANGED vars
  BY <1>1 DEF vars, IInv, TypeOK, NoConnectionIsShared
<1>2. ASSUME NEW r \in Req, Arrive(r) \/ ConnectFails(r) PROVE IInv'
  <2>1. sink[r] = None /\ session[r] = None
    BY <1>2 DEF IInv, NoConnectionIsShared, Arrive, ConnectFails, Goto
  <2> QED
    BY <1>2, <2>1, MoveOk DEF Arrive, ConnectFails, PC
<1>3. ASSUME NEW r \in Req, Serve(r) \/ LogFails(r) PROVE IInv'
  <2>1. sink[r] = None
    BY <1>3 DEF IInv, NoConnectionIsShared, Serve, LogFails, Goto
  <2> QED
    BY <1>3, <2>1, MoveOk DEF Serve, LogFails, PC
<1>4. CASE DatabaseTurns
  BY <1>4 DEF DatabaseTurns, IInv, TypeOK, NoConnectionIsShared
<1> QED
  BY <1>1, <1>2, <1>3, <1>4, ConnectOk, LogConnectOk, GiveBackOk DEF Next, Step, Proceed

----------------------------------------------------------------------------
\* Connections are held where the positions of the requests say so.
THEOREM Invariance == Spec => []IInv
<1> QED
  BY IInvInit, IInvNext, PTL DEF Spec

\* No connection is in two sessions, and none stays with a request that is done.
THEOREM SessionsAreDisjoint == Spec => []NoConnectionIsShared
<1>1. IInv => NoConnectionIsShared
  BY DEF IInv
<1> QED
  BY <1>1, Invariance, PTL

\* When the pool is exhausted and nobody inserts, every connection is the
\* session of an open request of its own.
LEMMA ExhaustedIsFull ==
    ASSUME IInv, Exhausted PROVE Cardinality(Open) >= Cardinality(Connection)
<1> DEFINE f == [r \in Open |-> session[r]]
<1>1. IsFiniteSet(Open)
  BY ReqAssumption, FS_Subset DEF Open
<1>2. \A c \in Connection : \E r \in Open : session[r] = c
  <2> SUFFICES ASSUME NEW c \in Connection PROVE \E r \in Open : session[r] = c
    OBVIOUS
  <2>1. PICK r \in Req : session[r] = c \/ sink[r] = c
    BY DEF Exhausted, Free
  <2>2. sink[r] = None
    BY DEF IInv, NoConnectionIsShared, Exhausted
  <2> QED
    BY <2>1, <2>2, ConnectionAssumption DEF Open
<1>3. \A r \in Open : session[r] \in Connection
  BY DEF IInv, TypeOK, Open
<1>4. f \in Surjection(Open, Connection)
  BY <1>2, <1>3 DEF Surjection
<1>5. IsFiniteSet(Connection) /\ Cardinality(Connection) <= Cardinality(Open)
  BY <1>1, <1>4, FS_Surjection
<1> QED
  BY <1>1, <1>5, FS_CardinalityType

\* Only a pool with every connection in an open request of its own loses a row
\* that a reachable Postgres would take: fewer concurrent requests lose none.
THEOREM RowsAreLostOnlyWhenFull == Spec => RowLostOnlyIfFull
<1> DEFINE Lost == \E r \in Req \ Unwritable :
                      /\ pc[r] \in {"logging", "inserting"} /\ pc'[r] = "closing"
                      /\ r \notin request_logs'
           Full == Cardinality(Open) >= Cardinality(Connection)
<1>1. IInv /\ [Next]_vars => [Lost => ~database \/ Full]_vars
  <2> SUFFICES ASSUME IInv, [Next]_vars, database, NEW r \in Req \ Unwritable,
                      pc[r] \in {"logging", "inserting"}, pc'[r] = "closing",
                      r \notin request_logs'
               PROVE Full
    BY DEF Lost
  <2>1. PICK q \in Req : Arrive(q) \/ Step(q)
    BY DEF Next, vars, DatabaseTurns
  <2>2. q = r
    BY <2>1 DEF IInv, TypeOK, Step, Proceed, Goto, Arrive, Connect, ConnectFails, Serve,
                LogConnect, LogFails, Insert, InsertFails, Close
  <2>3. LogFails(r)
    BY <2>1, <2>2 DEF IInv, TypeOK, Step, Proceed, Goto, Arrive, Connect, ConnectFails, Serve,
                      LogConnect, LogFails, Insert, InsertFails, Close
  <2> QED
    BY <2>3, ExhaustedIsFull DEF LogFails, Unavailable
<1> QED
  BY <1>1, Invariance, PTL DEF Spec, RowLostOnlyIfFull

----------------------------------------------------------------------------
(* The pool in a machine that is checked: Readiness. *)

LEMMA MachineInvInit == MachineInit => MachineInv
BY IInvInit DEF MachineInit, MachineInv, MachineTypeOK

\* What the steps of the machine are to the pool.
LEMMA PoolStep ==
    ASSUME IInv, [MachineNext]_all PROVE IInv'
<1>1. CASE [Next]_vars
  BY <1>1, IInvNext
<1>2. CASE Shutdown
  <2>1. TypeOK' /\ \A r \in Req : pc'[r] \in {"idle", "done"}
    BY <1>2 DEF Shutdown, IInv, TypeOK, PC
  <2>2. NoConnectionIsShared'
    BY <1>2 DEF Shutdown, NoConnectionIsShared
  <2> QED
    BY <1>2, <2>1, <2>2 DEF Shutdown, IInv
<1>3. ASSUME NEW p \in Req, Verdict(p) PROVE IInv'
  <2>1. sink[p] = None /\ session[p] = None
    BY <1>3 DEF Verdict, Goto, IInv, NoConnectionIsShared
  <2> QED
    BY <1>3, <2>1, MoveOk DEF Verdict, PC
<1>4. ASSUME NEW r \in Req, CheckDatabase(r) \/ Serving(r) \/ Traffic(r) PROVE Next
  BY <1>4 DEF CheckDatabase, Serving, Traffic, Next, Step, Proceed
<1>5. ASSUME NEW p \in Probe, Check(p) \/ FlyGivesUp(p) PROVE [Next]_vars
  BY <1>5, ProbeAssumption, ReqAssumption DEF Check, FlyGivesUp, Next
<1>6. CASE Startup \/ RedisTurns \/ PostgresTurns \/ UNCHANGED all
  BY <1>1, <1>6 DEF Startup, RedisTurns, PostgresTurns, all, Next
<1> QED
  BY <1>1, <1>2, <1>3, <1>4, <1>5, <1>6 DEF MachineNext, Watch, Run

LEMMA TypeStep ==
    ASSUME MachineTypeOK, IInv, [MachineNext]_all PROVE MachineTypeOK'
<1> USE DEF MachineTypeOK
<1>1. ASSUME NEW p \in Probe, Check(p) PROVE MachineTypeOK'
  BY <1>1 DEF Check
<1>2. ASSUME NEW p \in Probe, FlyGivesUp(p) \/ CheckDatabase(p) PROVE MachineTypeOK'
  BY <1>2 DEF FlyGivesUp, CheckDatabase
<1>3. ASSUME NEW p \in Probe, Verdict(p) PROVE MachineTypeOK'
  <2>1. rotation' \in BOOLEAN
    BY <1>3 DEF Verdict
  <2> QED
    BY <1>3, <2>1 DEF Verdict
<1>4. CASE Startup \/ Shutdown
  BY <1>4 DEF Startup, Shutdown
<1>5. CASE RedisTurns \/ PostgresTurns
  BY <1>5 DEF RedisTurns, PostgresTurns
<1>6. ASSUME NEW r \in Req, Serving(r) \/ Traffic(r) PROVE MachineTypeOK'
  BY <1>6 DEF Serving, Traffic, machine
<1>7. CASE UNCHANGED all
  BY <1>7 DEF all, machine
<1> QED
  BY <1>1, <1>2, <1>3, <1>4, <1>5, <1>6, <1>7 DEF MachineNext, Watch, Run

\* A step of one handler leaves the checks of others where they are.
LEMMA OthersStay ==
    ASSUME TypeOK, NEW r \in Req, Arrive(r) \/ Step(r), NEW p \in Req, p # r
    PROVE  pc'[p] = pc[p] /\ database' = database
BY DEF TypeOK, Step, Proceed, Goto, Arrive, Connect, ConnectFails, Serve, LogConnect, LogFails,
       Insert, InsertFails, Close

\* The check itself: asked of a database that is there, it answers.
LEMMA CheckDatabaseStep ==
    ASSUME IInv, MachineTypeOK, NEW p \in Probe, CheckDatabase(p),
           p \in waiting, Untroubled(p)
    PROVE  Untroubled(p)'
<1>1. p \in Query /\ p \in Req
  BY ProbeAssumption, ReqAssumption
<1>2. CASE Connect(p) \/ Close(p)
  BY <1>1, <1>2 DEF CheckDatabase, Connect, Close, Goto, Untroubled, IInv, TypeOK
<1>3. CASE Serve(p)
  BY <1>1, <1>3 DEF CheckDatabase, Serve, Goto, Untroubled, IInv, TypeOK
<1>4. ~(ConnectFails(p) /\ (Exhausted => p \notin waiting))
  BY DEF ConnectFails, Unavailable, Untroubled
<1> QED
  BY <1>2, <1>3, <1>4 DEF CheckDatabase

LEMMA UntroubledStep ==
    ASSUME MachineInv, [MachineNext]_all, NEW p \in waiting' \ troubled'
    PROVE  Untroubled(p)'
<1> USE ProbeAssumption, ReqAssumption
<1>1. IInv /\ TypeOK /\ MachineTypeOK /\ MachineTypeOK'
  BY TypeStep DEF MachineInv, IInv
<1>2. p \in Probe /\ p \in Req
  BY <1>1 DEF MachineTypeOK
<1>3. p \in waiting \ troubled => Untroubled(p)
  BY DEF MachineInv
<1>4. ASSUME NEW q \in Probe, Check(q) PROVE Untroubled(p)'
  BY <1>1, <1>2, <1>4 DEF Check, Arrive, Goto, Untroubled, TypeOK
<1>5. ASSUME NEW q \in Probe, FlyGivesUp(q) PROVE Untroubled(p)'
  BY <1>5 DEF FlyGivesUp
<1>6. ASSUME NEW q \in Probe, CheckDatabase(q) PROVE Untroubled(p)'
  <2>1. Untroubled(p) /\ p \in waiting
    BY <1>3, <1>6 DEF CheckDatabase
  <2>2. CASE q = p
    BY <1>1, <1>6, <2>1, <2>2, CheckDatabaseStep
  <2>3. CASE q # p
    <3>1. pc'[p] = pc[p] /\ database' = database
      BY <1>1, <1>2, <1>6, <2>3, OthersStay DEF CheckDatabase, Step, Proceed
    <3> QED
      BY <1>6, <2>1, <2>3, <3>1 DEF CheckDatabase, Untroubled
  <2> QED
    BY <2>2, <2>3
<1>7. ASSUME NEW q \in Probe, Verdict(q) PROVE Untroubled(p)'
  <2>1. p # q /\ Untroubled(p)
    BY <1>3, <1>7 DEF Verdict
  <2> QED
    BY <1>1, <1>2, <1>7, <2>1 DEF Verdict, Goto, Untroubled, TypeOK
<1>8. ASSUME NEW r \in Req \ Probe, Serving(r) \/ Traffic(r) PROVE Untroubled(p)'
  <2>1. pc'[p] = pc[p] /\ database' = database
    BY <1>1, <1>2, <1>8, OthersStay DEF Serving, Traffic
  <2> QED
    BY <1>3, <1>8, <2>1 DEF Serving, Traffic, machine, Untroubled
<1>9. CASE Shutdown
  BY <1>9 DEF Shutdown
<1>10. CASE RedisTurns \/ PostgresTurns
  BY <1>10 DEF RedisTurns, PostgresTurns
<1>11. CASE Startup \/ UNCHANGED all
  BY <1>3, <1>11 DEF Startup, all, vars, machine, Untroubled
<1> QED
  BY <1>4, <1>5, <1>6, <1>7, <1>8, <1>9, <1>10, <1>11 DEF MachineNext, Watch, Run

LEMMA MachineInvNext == MachineInv /\ [MachineNext]_all => MachineInv'
BY PoolStep, TypeStep, UntroubledStep DEF MachineInv

\* Checks, outages and restarts leave the pool as sound as it is without them.
THEOREM MachineInvariance == MachineSpec => []MachineInv
BY MachineInvInit, MachineInvNext, PTL DEF MachineSpec, MachineSafety

\* The machine leaves rotation only for an outage, a full pool or a shutdown.
LEMMA OutForCause ==
    ASSUME MachineInv, [MachineNext]_all, rotation, ~rotation', up'
    PROVE  \/ Cardinality(Open) >= Cardinality(Connection)
           \/ \E p \in waiting : p \in troubled
<1>1. \/ \E p \in Probe : FlyGivesUp(p) \/ Verdict(p)
      \/ UNCHANGED rotation
  BY DEF MachineNext, Watch, Run, Startup, Shutdown, Check, CheckDatabase, Serving, Traffic,
         RedisTurns, PostgresTurns, all, machine
<1>2. ASSUME NEW p \in Probe, FlyGivesUp(p), ~Exhausted PROVE p \in waiting /\ p \in troubled
  BY <1>2 DEF FlyGivesUp, MachineInv, Untroubled
<1>3. ASSUME NEW p \in Probe, Verdict(p) PROVE p \in waiting /\ p \in troubled
  BY <1>3 DEF Verdict, Goto, MachineInv, Untroubled
<1>4. Exhausted => Cardinality(Open) >= Cardinality(Connection)
  BY ExhaustedIsFull DEF MachineInv
<1> QED
  BY <1>1, <1>2, <1>3, <1>4

\* readiness() and Fly take a running machine out of rotation only for an outage
\* during the check or a full pool, however many calls and checks there are.
THEOREM MachinesLeaveForCause == MachineSpec => OutOnlyForCause
<1>1. MachineInv /\ [MachineNext]_all =>
        [rotation /\ ~rotation' /\ up' =>
            \/ Cardinality(Open) >= Cardinality(Connection)
            \/ \E p \in waiting : p \in troubled]_all
  BY OutForCause
<1> QED
  BY <1>1, MachineInvariance, PTL DEF MachineSpec, MachineSafety, OutOnlyForCause
=============================================================================
