------------------------- MODULE SyncConnectionProofs -------------------------
(***************************************************************************)
(* Proofs about SyncConnection, for any number of connections and          *)
(* statements.                                                             *)
(***************************************************************************)
EXTENDS SyncConnection, TLAPS

USE DEF Parents, Running, Throws

-----------------------------------------------------------------------------
(* What the operators on handle tables return.                             *)

(* Destruction only ever empties entries of the handle table.              *)
LEMMA DestroyedTable ==
    ASSUME NEW t, TableOK(t), NEW d, NEW D
    PROVE  /\ TableOK(Destroyed(t, d, D))
           /\ \A o \in Objects : Destroyed(t, d, D)[o] \in {t[o], "unused"}
           /\ \A o \in Objects \ D : Destroyed(t, d, D)[o] = t[o]
<1> DEFINE rest == ChildrenDestroyed(t, d, D)
           done == Destroyed(t, d, D)
<1>1. \A tt, o : AfterDtor(tt, d, o) \in {tt[o], "unused"}
  BY DEF AfterDtor
<1>2. \A o \in Objects : rest[o] \in {t[o], "unused"}
  BY <1>1 DEF ChildrenDestroyed
<1>3. /\ done = [o \in Objects |->
                    IF o = Env /\ o \in D THEN AfterDtor(rest, d, o) ELSE rest[o]]
      /\ \A o \in Objects \ D : rest[o] = t[o]
  BY DEF Destroyed, ChildrenDestroyed
<1>4. \A o \in Objects : done[o] \in {t[o], "unused"}
  BY <1>1, <1>2, <1>3
<1>5. \A o \in Objects \ D : done[o] = t[o]
  BY <1>3
<1>6. TableOK(done)
  <2>1. /\ "unused" \in EnvStates /\ "unused" \in ConnStates
        /\ "unused" \in StmtStates /\ "unused" \in HandleStates
    BY DEF EnvStates, ConnStates, StmtStates, HandleStates
  <2>2. \A o \in Objects : done[o] \in HandleStates
    BY <1>4, <2>1 DEF TableOK
  <2>3. done \in [Objects -> HandleStates]
    BY <2>2, <1>3
  <2>4. done[Env] \in EnvStates /\ (\A c \in Conns : done[c] \in ConnStates)
          /\ (\A s \in Stmts : done[s] \in StmtStates)
    BY <1>4, <2>1 DEF TableOK, Objects
  <2> QED BY <2>3, <2>4 DEF TableOK
<1> QED BY <1>4, <1>5, <1>6

(* SQLDisconnect leaves a handle table behind.                             *)
LEMMA DisconnectedTable ==
    ASSUME TableOK(hdl), NEW own, NEW c \in Conns, NEW r
    PROVE  /\ TableOK(TableAfterDisconnect(r, own, c))
           /\ \A s \in Stmts : TableAfterDisconnect(r, own, c)[s] # "unused"
                                => hdl[s] # "unused"
           /\ TableAfterDisconnect(r, own, c)[Env] = hdl[Env]
<1> DEFINE t == TableAfterDisconnect(r, own, c)
<1>1. CASE r # "success"
  BY <1>1 DEF TableAfterDisconnect
<1>2. CASE r = "success"
  <2>1. t = DisconnectTable(hdl, own, c)
    BY <1>2 DEF TableAfterDisconnect
  <2>2. \A o \in Objects : t[o] \in {hdl[o], "alloc", "freed", "unused"}
    BY <2>1 DEF DisconnectTable
  <2>3. t \in [Objects -> HandleStates]
    BY <2>1, <2>2 DEF DisconnectTable, TableOK, HandleStates, EnvStates, ConnStates, StmtStates
  <2>4. t[Env] = hdl[Env]
    BY <2>1, ObjectsAreDistinct DEF DisconnectTable, Objects
  <2>5. \A x \in Conns : t[x] \in {hdl[x], "alloc"}
    BY <2>1, ObjectsAreDistinct DEF DisconnectTable, Objects
  <2>6. \A s \in Stmts : t[s] \in StmtStates /\ (t[s] # "unused" => hdl[s] # "unused")
    BY <2>1, ObjectsAreDistinct DEF DisconnectTable, Objects, TableOK, StmtStates
  <2> QED BY <2>3, <2>4, <2>5, <2>6 DEF TableOK, ConnStates
<1> QED BY <1>1, <1>2

LEMMA AllocatedHandles ==
    ASSUME NEW t, NEW p
    PROVE  AllocHandle(t, p) \subseteq {"invalid", "null", "alloc"}
BY DEF AllocHandle, OrFault

LEMMA StatementHandlesRange ==
    ASSUME NEW c, NEW h \in StatementHandles(c)
    PROVE  h \in {"null", "alloc"}
BY AllocatedHandles DEF StatementHandles

(* One entry of the table set to a state its object may be in.             *)
LEMMA OneEntry ==
    ASSUME NEW t, TableOK(t), NEW o \in Objects, NEW h \in HandleStates,
           o = Env => h \in EnvStates,
           o \in Conns => h \in ConnStates,
           o \in Stmts => h \in StmtStates
    PROVE  TableOK([t EXCEPT ![o] = h])
BY DEF TableOK, Objects

-----------------------------------------------------------------------------
(* Releasing an object keeps the handle types.                             *)
LEMMA ReleaseType ==
    ASSUME HandlesTypeOK, NEW o \in Objects, NEW k,
           NEW t, TableOK(t), t[Env] # "null", NEW d \in [Parents -> BOOLEAN],
           \A s \in Stmts : t[s] # "unused" => hdl[s] # "unused",
           Release(o, k, t, d)
    PROVE  HandlesTypeOK'
<1> DEFINE own == Without(o, k)
           D   == Living(owners) \ Living(own)
<1>1. /\ owners' = own /\ dead' = d /\ hdl' = Destroyed(t, d, D)
      /\ fault' \in {"dtor", "none"} /\ parent_' = parent_
  BY DEF Release
<1>2. TableOK(hdl') /\ \A x \in Objects : hdl'[x] \in {t[x], "unused"}
  BY <1>1, DestroyedTable
<1>3. own \in [Objects -> SUBSET OwnerKinds] /\ \A x \in Objects : own[x] \subseteq owners[x]
  BY DEF Without, HandlesTypeOK
<1>4. \A s \in Stmts : hdl'[s] # "unused" \/ owners'[s] # {} => parent_'[s] \in Conns
  BY <1>1, <1>2, <1>3 DEF HandlesTypeOK, Objects
<1>5. TableOK(hdl)' /\ (hdl[Env] # "null")'
  BY <1>2 DEF TableOK, Objects
<1> QED BY <1>1, <1>3, <1>4, <1>5 DEF HandlesTypeOK, Endings

(* Any operation that leaves the handles alone keeps their types.          *)
LEMMA GainsType ==
    ASSUME HandlesTypeOK, NEW o \in Objects, NEW k \in OwnerKinds, Gains(o, k)
    PROVE  /\ owners' \in [Objects -> SUBSET OwnerKinds]
           /\ \A x \in Objects : x # o => owners'[x] = owners[x]
BY DEF HandlesTypeOK, Gains

LEMMA TransientType ==
    ASSUME UNCHANGED world,
           TypeOK, Running, NEW c \in Conns, NEW s \in Stmts, NEW h \in {"null", "alloc"},
           NEW r \in Results, TransientEnds(s, c, h, r)
    PROVE  TypeOK'
<1>1. s \in Objects /\ s # Env /\ s \notin Conns
  BY ObjectsAreDistinct DEF Objects
<1>2. TableOK(hdl)'
  <2>1. \E x \in {"alloc", "unused"} : hdl' = [hdl EXCEPT ![s] = x]
    BY DEF TransientEnds
  <2> QED BY <1>1, <2>1, OneEntry
            DEF TypeOK, HandlesTypeOK, HandleStates, StmtStates, TableOK
<1>3. /\ parent_' \in [Stmts -> Conns \cup {NoConn}]
      /\ \A x \in Stmts : hdl'[x] # "unused" \/ owners'[x] # {} => parent_'[x] \in Conns
  BY <1>1 DEF TransientEnds, TypeOK, HandlesTypeOK, TableOK
<1> QED BY <1>2, <1>3
        DEF TransientEnds, TypeOK, HandlesTypeOK, Endings, connectionState

(* A call that returned, and an abort, keep every type.                    *)
LEMMA ReturnsType ==
    ASSUME UNCHANGED world,
           TypeOK, NEW r \in Results, Returns(r)
    PROVE  TypeOK'
BY DEF Returns, TypeOK, HandlesTypeOK, TableOK, handleVars

LEMMA AbortsType ==
    ASSUME UNCHANGED world,
           TypeOK, Running, Aborts
    PROVE  TypeOK'
BY DEF Aborts, TypeOK, HandlesTypeOK, TableOK, Endings

(* The statement handle that an operation keeps.                           *)
LEMMA NewStatementType ==
    ASSUME UNCHANGED world,
           TypeOK, NEW c \in Conns, NEW s \in Stmts, NEW h \in {"null", "alloc"},
           NEW k \in OwnerKinds, Gains(s, k),
           hdl' = [hdl EXCEPT ![s] = h],
           parent_' = [parent_ EXCEPT ![s] = c],
           ret' \in Results,
           UNCHANGED <<dead, fault, connectionState>>
    PROVE  TypeOK'
<1>1. s \in Objects /\ s # Env /\ s \notin Conns
  BY ObjectsAreDistinct DEF Objects
<1>2. TableOK(hdl)'
  BY <1>1, OneEntry DEF TypeOK, HandlesTypeOK, HandleStates, StmtStates, TableOK
<1>3. /\ owners' \in [Objects -> SUBSET OwnerKinds]
      /\ \A x \in Objects : x # s => owners'[x] = owners[x]
  BY <1>1, GainsType DEF TypeOK
<1>4. /\ parent_' \in [Stmts -> Conns \cup {NoConn}]
      /\ \A x \in Stmts : hdl'[x] # "unused" \/ owners'[x] # {} => parent_'[x] \in Conns
  BY <1>1, <1>3 DEF TypeOK, HandlesTypeOK, TableOK, Objects
<1>5. hdl'[Env] = hdl[Env]
  BY <1>1 DEF TypeOK, HandlesTypeOK, TableOK, Objects
<1> QED BY <1>2, <1>3, <1>4, <1>5 DEF TypeOK, HandlesTypeOK, connectionState

-----------------------------------------------------------------------------
(* TypeOK is inductive: every operation leaves the handle table, the       *)
(* owners and the flags within their types, in any build, under any faults.*)

LEMMA TypeInit == Init => TypeOK
BY ObjectsAreDistinct
   DEF Init, HandlesInit, TypeOK, HandlesTypeOK, TableOK, Results, Endings,
       HandleStates, EnvStates, ConnStates, StmtStates, Objects

LEMMA EnvironmentType ==
    ASSUME UNCHANGED world,
           TypeOK, EnvironmentStep
    PROVE  TypeOK'
<1>0. Env \in Objects /\ Env \notin Stmts /\ Env \notin Conns /\ "environment" \in OwnerKinds
  BY ObjectsAreDistinct DEF Objects, OwnerKinds
<1>1. CASE NewEnvironment
  <2>1. PICK h \in {"alloc", "null"} : hdl' = [hdl EXCEPT ![Env] = h]
    BY <1>1 DEF NewEnvironment, AllocEnv, OrFault
  <2>2. TableOK(hdl)'
    BY <1>0, <2>1, OneEntry DEF TypeOK, HandlesTypeOK, HandleStates, EnvStates, TableOK
  <2>3. /\ owners' \in [Objects -> SUBSET OwnerKinds]
        /\ \A x \in Objects : x # Env => owners'[x] = owners[x]
    BY <1>0, <1>1, GainsType DEF TypeOK, NewEnvironment
  <2>4. \A s \in Stmts : hdl'[s] # "unused" \/ owners'[s] # {} => parent_'[s] \in Conns
    BY <1>0, <1>1, <2>1, <2>3 DEF NewEnvironment, TypeOK, HandlesTypeOK, TableOK, Objects
  <2> QED BY <1>1, <2>2, <2>3, <2>4
          DEF NewEnvironment, TypeOK, HandlesTypeOK, Endings, Results, connectionState
<1>2. CASE InitEnvironment
  <2>1. TableOK(hdl)'
    BY <1>0, <1>2, OneEntry
       DEF InitEnvironment, TypeOK, HandlesTypeOK, HandleStates, EnvStates, TableOK
  <2>2. \A s \in Stmts : hdl'[s] = hdl[s]
    BY <1>0, <1>2 DEF InitEnvironment, TypeOK, HandlesTypeOK, TableOK, Objects
  <2> QED BY <1>2, <2>1, <2>2
          DEF InitEnvironment, TypeOK, HandlesTypeOK, Results, connectionState
<1>3. CASE DestroyEnvironment
  <2>1. HandlesTypeOK'
    BY <1>0, <1>3, ReleaseType DEF DestroyEnvironment, TypeOK, HandlesTypeOK
  <2> QED BY <1>3, <2>1 DEF DestroyEnvironment, TypeOK, Results, connectionState
<1> QED BY <1>1, <1>2, <1>3 DEF EnvironmentStep

(* A connection's table entry set to a state a dbc handle may be in.       *)
LEMMA ConnEntry ==
    ASSUME HandlesTypeOK, NEW c \in Conns, NEW h \in ConnStates
    PROVE  /\ TableOK([hdl EXCEPT ![c] = h])
           /\ \A s \in Stmts : [hdl EXCEPT ![c] = h][s] = hdl[s]
<1>1. c \in Objects /\ c # Env /\ c \notin Stmts /\ Stmts \subseteq Objects
  BY ObjectsAreDistinct DEF Objects
<1> QED BY <1>1, OneEntry DEF HandlesTypeOK, HandleStates, TableOK

LEMMA ConnectType ==
    ASSUME UNCHANGED world,
           TypeOK, NEW c \in Conns, Connect(c) \/ ConnectVoid(c)
    PROVE  TypeOK'
<1>1. CASE Returns("false")
  BY <1>1, ReturnsType DEF Results
<1>2. CASE Aborts
  BY <1>2, AbortsType DEF Connect, ConnectVoid
<1>3. CASE ~Returns("false") /\ ~Aborts
  <2>1. \/ hdl' = [hdl EXCEPT ![c] = "conn"]
        \/ hdl' = hdl
    BY <1>3 DEF Connect, ConnectVoid
  <2>2. /\ UNCHANGED <<parent_, owners, dead, fault, cancelled_>>
        /\ \E b : connected_' = [connected_ EXCEPT ![c] = @ \/ b]
        /\ ret' \in Results
    BY <1>3 DEF Connect, ConnectVoid, Results
  <2>3. /\ TableOK(hdl')
        /\ \A s \in Stmts : hdl'[s] # "unused" => hdl[s] # "unused"
        /\ hdl'[Env] = hdl[Env]
    <3>1. "conn" \in ConnStates /\ TableOK(hdl) /\ c # Env /\ Env \in Objects
      BY ObjectsAreDistinct DEF ConnStates, TypeOK, HandlesTypeOK, Objects
    <3>2. CASE hdl' = [hdl EXCEPT ![c] = "conn"]
      BY <3>1, <3>2, ConnEntry DEF TypeOK, TableOK
    <3> QED BY <2>1, <3>1, <3>2
  <2>4. connected_' \in [Conns -> BOOLEAN]
    BY <2>2 DEF TypeOK
  <2>5. TableOK(hdl)'
    BY <2>3 DEF TableOK
  <2> QED BY <2>2, <2>3, <2>4, <2>5 DEF TypeOK, HandlesTypeOK
<1> QED BY <1>1, <1>2, <1>3 DEF Connect, ConnectVoid

LEMMA ConnectionType ==
    ASSUME UNCHANGED world,
           TypeOK, NEW c \in Conns, ConnectionStep(c)
    PROVE  TypeOK'
<1>0. /\ c \in Objects /\ c \in Parents /\ "connection" \in OwnerKinds
      /\ mark_children_dead(dead, c) \in [Parents -> BOOLEAN]
      /\ Stmts \subseteq Objects /\ c \notin Stmts
  BY ObjectsAreDistinct DEF Objects, OwnerKinds, mark_children_dead, TypeOK, HandlesTypeOK
<1>1. CASE NewConnection(c)
  <2>1. hdl[Env] # "null"
    BY <1>1 DEF NewConnection, TypeOK, HandlesTypeOK
  <2>2. PICK h \in {"null", "alloc"} : hdl' = [hdl EXCEPT ![c] = h]
    BY <1>1, <2>1 DEF NewConnection, AllocHandle, OrFault
  <2>3. TableOK(hdl') /\ \A s \in Stmts : hdl'[s] = hdl[s]
    <3>1. h \in ConnStates /\ HandlesTypeOK
      BY DEF ConnStates, TypeOK
    <3> QED BY <2>2, <3>1, ConnEntry
  <2>4. /\ owners' \in [Objects -> SUBSET OwnerKinds]
        /\ \A x \in Objects : x # c => owners'[x] = owners[x]
    BY <1>0, <1>1, GainsType DEF NewConnection, TypeOK
  <2>5. \A s \in Stmts : hdl'[s] # "unused" \/ owners'[s] # {} => parent_'[s] \in Conns
    BY <1>0, <1>1, <2>3, <2>4 DEF NewConnection, TypeOK, HandlesTypeOK
  <2>6. hdl'[Env] = hdl[Env]
    BY <1>0, <2>2, ObjectsAreDistinct DEF Objects, TypeOK, HandlesTypeOK, TableOK
  <2>7. TableOK(hdl)' /\ fault' \in Endings
    BY <1>1, <2>3 DEF TableOK, NewConnection, Endings
  <2> QED BY <1>0, <1>1, <2>1, <2>4, <2>5, <2>6, <2>7
          DEF NewConnection, TypeOK, HandlesTypeOK, Results
<1>2. CASE Connect(c) \/ ConnectVoid(c)
  BY <1>2, ConnectType
<1>3. CASE Disconnect(c)
  <2>1. CASE Aborts
    BY <1>3, <2>1, AbortsType DEF Disconnect
  <2>2. CASE Returns("void")
    BY <2>2, ReturnsType DEF Results
  <2>3. CASE ~Aborts /\ ~Returns("void")
    <3>1. PICK r : hdl' = TableAfterDisconnect(r, owners, c)
      BY <1>3, <2>3 DEF Disconnect
    <3>2. /\ TableOK(hdl)'
          /\ \A s \in Stmts : hdl'[s] # "unused" => hdl[s] # "unused"
          /\ hdl'[Env] = hdl[Env]
      BY <3>1, DisconnectedTable DEF TypeOK, HandlesTypeOK, TableOK
    <3> QED BY <1>0, <1>3, <2>3, <3>2
            DEF Disconnect, TypeOK, HandlesTypeOK, Results
  <2> QED BY <2>1, <2>2, <2>3
<1>4. CASE DestroyConnection(c)
  <2>1. CASE Aborts
    BY <1>4, <2>1, AbortsType DEF DestroyConnection
  <2>2. CASE ~Aborts /\ ~connected_[c]
    <3>1. Release(c, "connection", hdl, dead)
      BY <1>4, <2>2 DEF DestroyConnection
    <3>2. HandlesTypeOK'
      <4>1. TableOK(hdl) /\ hdl[Env] # "null" /\ dead \in [Parents -> BOOLEAN]
        BY <1>4 DEF DestroyConnection, TypeOK, HandlesTypeOK
      <4> QED BY <1>0, <3>1, <4>1, ReleaseType DEF TypeOK
    <3> QED BY <1>4, <2>2, <3>2 DEF DestroyConnection, TypeOK, Results, connectionState
  <2>3. CASE ~Aborts /\ connected_[c]
    <3>1. PICK r : Release(c, "connection", TableAfterDisconnect(r, owners, c),
                           mark_children_dead(dead, c))
      BY <1>4, <2>3 DEF DestroyConnection
    <3>2. HandlesTypeOK'
      <4> DEFINE t == TableAfterDisconnect(r, owners, c)
      <4>1. TableOK(hdl) /\ hdl[Env] # "null"
        BY <1>4 DEF DestroyConnection, TypeOK, HandlesTypeOK
      <4>2. /\ TableOK(t) /\ t[Env] = hdl[Env]
            /\ \A s \in Stmts : t[s] # "unused" => hdl[s] # "unused"
        BY <4>1, DisconnectedTable
      <4> HIDE DEF t
      <4>3. Release(c, "connection", t, mark_children_dead(dead, c))
        BY <3>1 DEF t
      <4> QED BY <1>0, <4>1, <4>2, <4>3, ReleaseType DEF TypeOK
    <3> QED BY <1>4, <2>3, <3>2 DEF DestroyConnection, TypeOK, Results
  <2> QED BY <2>1, <2>2, <2>3
<1> QED BY <1>1, <1>2, <1>3, <1>4 DEF ConnectionStep

LEMMA QueryType ==
    ASSUME UNCHANGED world,
           TypeOK, NEW c \in Conns, NEW s \in Stmts, QueryStep(c, s)
    PROVE  TypeOK'
<1>0. Running /\ {"statement", "result_set"} \subseteq OwnerKinds
  BY DEF QueryStep, CreateStatement, Execute, ExecuteQuery, OwnerKinds
<1>1. CASE Returns("throw")
  BY <1>1, ReturnsType DEF Results
<1>2. CASE Aborts
  BY <1>0, <1>2, AbortsType
<1>3. CASE \E h \in StatementHandles(c), r \in Results : TransientEnds(s, c, h, r)
  BY <1>0, <1>3, StatementHandlesRange, TransientType
<1>4. CASE \E h \in StatementHandles(c), k \in OwnerKinds :
             /\ Gains(s, k)
             /\ hdl' = [hdl EXCEPT ![s] = h]
             /\ parent_' = [parent_ EXCEPT ![s] = c]
             /\ ret' \in Results
             /\ UNCHANGED <<dead, fault, connectionState>>
  BY <1>4, StatementHandlesRange, NewStatementType
<1>5. CASE CreateStatement(c, s)
  BY <1>0, <1>1, <1>2, <1>4, <1>5 DEF CreateStatement, Results
<1>6. \A h : ExecuteResults(h) \subseteq Results /\ QueryResults(h) \subseteq Results
  BY DEF ExecuteResults, QueryResults, OrFault, Results
<1>7. CASE Execute(c, s)
  BY <1>1, <1>2, <1>3, <1>6, <1>7 DEF Execute
<1>8. CASE ExecuteQuery(c, s)
  <2>1. CASE \E h \in StatementHandles(c) : \E r \in QueryResults(h) :
             \/ TransientEnds(s, c, h, r)
             \/ /\ hdl' = [hdl EXCEPT ![s] = h]
                /\ parent_' = [parent_ EXCEPT ![s] = c]
                /\ Gains(s, "result_set")
                /\ ret' = r
                /\ UNCHANGED <<dead, fault, connectionState>>
    BY <1>0, <1>3, <1>4, <1>6, <2>1
  <2> QED BY <1>1, <1>2, <1>8, <2>1 DEF ExecuteQuery
<1> QED BY <1>5, <1>7, <1>8 DEF QueryStep

LEMMA StatementType ==
    ASSUME UNCHANGED world,
           TypeOK, NEW s \in Stmts, StatementStep(s)
    PROVE  TypeOK'
<1>0. Running /\ s \in Objects /\ s # Env /\ "result_set" \in OwnerKinds
  BY ObjectsAreDistinct
     DEF StatementStep, StatementExecute, StatementExecuteQuery, DestroyStatement,
         DestroyResultSet, Objects, OwnerKinds
<1>1. CASE \E r \in Results : Returns(r)
  BY <1>1, ReturnsType
<1>2. \A h : ExecuteResults(h) \subseteq Results /\ QueryResults(h) \subseteq Results
  BY DEF ExecuteResults, QueryResults, OrFault, Results
<1>3. CASE StatementExecute(s)
  BY <1>1, <1>2, <1>3 DEF StatementExecute
<1>4. CASE StatementExecuteQuery(s)
  <2>1. CASE /\ Holds(s, "statement") /\ Gains(s, "result_set") /\ ret' \in Results
             /\ UNCHANGED <<hdl, parent_, dead, fault, connectionState>>
    <3>1. /\ owners' \in [Objects -> SUBSET OwnerKinds]
          /\ \A x \in Objects : x # s => owners'[x] = owners[x]
      BY <1>0, <2>1, GainsType DEF TypeOK
    <3>2. owners[s] # {}
      BY <2>1 DEF Holds
    <3>3. \A x \in Stmts : hdl'[x] # "unused" \/ owners'[x] # {} => parent_'[x] \in Conns
      BY <2>1, <3>1, <3>2 DEF TypeOK, HandlesTypeOK, Objects
    <3> QED BY <2>1, <3>1, <3>3 DEF TypeOK, HandlesTypeOK, TableOK, connectionState
  <2> QED BY <1>1, <1>2, <1>4, <2>1 DEF StatementExecuteQuery
<1>5. CASE DestroyStatement(s) \/ DestroyResultSet(s)
  <2>1. PICK k : Release(s, k, hdl, dead)
    BY <1>5 DEF DestroyStatement, DestroyResultSet
  <2>2. TableOK(hdl) /\ hdl[Env] # "null" /\ dead \in [Parents -> BOOLEAN]
    BY <1>0 DEF TypeOK, HandlesTypeOK
  <2>3. HandlesTypeOK'
    BY <1>0, <2>1, <2>2, ReleaseType DEF TypeOK
  <2> QED BY <1>5, <2>3
          DEF DestroyStatement, DestroyResultSet, TypeOK, Results, connectionState
<1> QED BY <1>3, <1>4, <1>5 DEF StatementStep

LEMMA TypeStep == TypeOK /\ [Next]_vars => TypeOK'
<1> SUFFICES ASSUME TypeOK, [Next]_vars
             PROVE  TypeOK'
  OBVIOUS
<1>1. CASE UNCHANGED vars
  BY <1>1 DEF vars, handleVars, TypeOK, HandlesTypeOK, TableOK
<1> QED BY <1>1, EnvironmentType, ConnectionType, QueryType, StatementType DEF Next

(* Every variable of the connection and handle layer keeps its type, in    *)
(* any build and whatever the driver answers (sync/connection.hpp,         *)
(* handles.hpp).                                                           *)
THEOREM TypeCorrect == Spec => []TypeOK
<1>1. Init => TypeOK
  BY TypeInit
<1>2. TypeOK /\ [Next]_vars => TypeOK'
  BY TypeStep
<1> QED BY <1>1, <1>2, PTL DEF Spec

-----------------------------------------------------------------------------
(* A usable handle has a usable parent: an open statement a connected dbc, *)
(* a dbc an initialised environment, in every order of destruction.  This  *)
(* part of the invariant speaks of the handle table alone and survives a   *)
(* failed destructor, so it is inductive without Running.                  *)

TreeOK(t, parent) ==
    /\ \A s \in Stmts : t[s] = "alloc" => t[parent[s]] = "conn"
    /\ \A c \in Conns : t[c] \in {"alloc", "conn"} => t[Env] = "ready"

ParentsTyped(t) == \A s \in Stmts : t[s] # "unused" => parent_[s] \in Conns

(* A connected dbc and an environment with dbcs cannot be freed.           *)
LEMMA DestroyedTree ==
    ASSUME NEW t, TableOK(t), ParentsTyped(t), TreeOK(t, parent_), NEW d, NEW D
    PROVE  TreeOK(Destroyed(t, d, D), parent_)
<1> DEFINE rest == ChildrenDestroyed(t, d, D)
           done == Destroyed(t, d, D)
<1>1. \A o \in Objects : done[o] \in {t[o], "unused"}
  BY DestroyedTable
<1>2. \A c \in Conns : t[c] = "conn" => done[c] = "conn"
  BY ObjectsAreDistinct
     DEF Destroyed, ChildrenDestroyed, AfterDtor, FreeHandle, Objects
<1>3. \A s \in Stmts : done[s] = "alloc" => done[parent_[s]] = "conn"
  BY <1>1, <1>2 DEF TreeOK, ParentsTyped, Objects
<1>4. ASSUME NEW c \in Conns, done[c] \in {"alloc", "conn"}
      PROVE  done[Env] = "ready"
  <2>1. rest[c] = done[c] /\ rest[Env] = t[Env] /\ t[Env] = "ready"
    BY <1>1, <1>4, ObjectsAreDistinct
       DEF TreeOK, Destroyed, ChildrenDestroyed, Objects
  <2>2. AfterDtor(rest, d, Env) = rest[Env]
    BY <1>4, <2>1 DEF AfterDtor, FreeHandle
  <2> QED BY <2>1, <2>2 DEF Destroyed, Objects
<1> QED BY <1>3, <1>4 DEF TreeOK

LEMMA DisconnectedTree ==
    ASSUME HandlesTypeOK, TreeOK(hdl, parent_), NEW c \in Conns,
           NEW r \in DriverDisconnect(c), NEW own
    PROVE  TreeOK(TableAfterDisconnect(r, own, c), parent_)
<1> DEFINE t == TableAfterDisconnect(r, own, c)
<1>1. CASE r # "success"
  BY <1>1 DEF TableAfterDisconnect
<1>2. CASE r = "success"
  <2>1. t = DisconnectTable(hdl, own, c) /\ hdl[c] = "conn"
    BY <1>2 DEF TableAfterDisconnect, DriverDisconnect, OrFault
  <2>2. \A x \in Conns : x # c => t[x] = hdl[x]
    BY <2>1, ObjectsAreDistinct DEF DisconnectTable, Objects
  <2>3. t[Env] = hdl[Env] /\ hdl[Env] = "ready"
    BY <2>1, ObjectsAreDistinct DEF DisconnectTable, Objects, TreeOK
  <2>4. \A s \in Stmts : t[s] = "alloc" => hdl[s] = "alloc" /\ parent_[s] # c
    BY <2>1, ObjectsAreDistinct DEF DisconnectTable, Objects
  <2> QED BY <2>2, <2>3, <2>4 DEF TreeOK, HandlesTypeOK
<1> QED BY <1>1, <1>2

LEMMA ReleaseTree ==
    ASSUME NEW o, NEW k, NEW t, NEW d, TableOK(t), ParentsTyped(t),
           TreeOK(t, parent_), Release(o, k, t, d)
    PROVE  TreeOK(hdl', parent_')
BY DestroyedTree DEF Release, TreeOK

(* A new statement handle stands on a connected dbc.                       *)
LEMMA NewStatementTree ==
    ASSUME TypeOK, TreeOK(hdl, parent_), NEW c \in Conns, NEW s \in Stmts,
           NEW h, h = "alloc" => "alloc" \in AllocHandle(hdl, c),
           hdl' = [hdl EXCEPT ![s] = h], parent_' = [parent_ EXCEPT ![s] = c]
    PROVE  TreeOK(hdl', parent_')
<1>1. /\ s \in Objects /\ \A x \in Objects : x # s => hdl'[x] = hdl[x]
      /\ hdl'[s] = h /\ parent_'[s] = c
      /\ \A x \in Stmts : x # s => parent_'[x] = parent_[x]
  BY DEF TypeOK, HandlesTypeOK, TableOK, Objects
<1>2. h = "alloc" => hdl[c] = "conn"
  BY DEF AllocHandle, TypeOK, HandlesTypeOK, TableOK, ConnStates
<1>3. \A x \in Stmts : hdl'[x] = "alloc" => hdl'[parent_'[x]] = "conn"
  BY <1>1, <1>2, ObjectsAreDistinct DEF TreeOK, TypeOK, HandlesTypeOK, Objects
<1>4. \A x \in Conns \cup {Env} : hdl'[x] = hdl[x]
  BY <1>1, ObjectsAreDistinct DEF Objects
<1> QED BY <1>3, <1>4 DEF TreeOK

-----------------------------------------------------------------------------
(* The inductive invariant about the objects that live: each has an entry  *)
(* in the handle table, with asserts never a null handle; and a statement  *)
(* handle that SQLDisconnect freed still has its impl_type, under a parent *)
(* whose children are marked dead.                                         *)

LivingTable(t) ==
    \A o \in Living(owners) : t[o] # "unused" /\ (Asserts => t[o] # "null")

FreedTable(t, d) ==
    \A s \in Stmts : t[s] = "freed" => owners[s] # {} /\ d[parent_[s]]

LivingInv == Running => LivingTable(hdl) /\ FreedTable(hdl, dead)

(* Fewer owners, fewer living objects.                                     *)
LEMMA LivingMonotone ==
    ASSUME NEW own1, NEW own2, \A o \in Objects : own1[o] \subseteq own2[o]
    PROVE  Living(own1) \subseteq Living(own2)
BY DEF Living, EnvLives, ConnLives, StmtLives, Objects

LEMMA LivingAreObjects ==
    ASSUME NEW own
    PROVE  Living(own) \subseteq Objects
BY DEF Living, Objects

(* A freed statement is skipped, and every other living object has a       *)
(* handle that the driver manager accepts, when no null handle is around.  *)
LEMMA DestructionIsSafe ==
    ASSUME Asserts, NEW t, TableOK(t), LivingTable(t), NEW d, FreedTable(t, d),
           NEW D \in SUBSET Living(owners)
    PROVE  ~DestructionThrows(t, d, D)
<1> DEFINE rest == ChildrenDestroyed(t, d, D)
<1>1. D \subseteq Objects
  BY LivingAreObjects
<1>2. ASSUME NEW o \in D \ {Env}
      PROVE  ~DtorThrows(t, d, o)
  <2>1. t[o] \notin {"unused", "null"}
    BY DEF LivingTable
  <2>2. CASE t[o] = "freed"
    <3>1. o \in Stmts
      BY <1>1, <2>2 DEF TableOK, Objects, ConnStates, EnvStates
    <3> QED BY <2>2, <3>1, ObjectsAreDistinct
            DEF FreedTable, DtorThrows, SkipsDealloc, ChildrenDead, ParentOf
  <2> QED BY <2>1, <2>2 DEF DtorThrows, FreeHandle
<1>3. ASSUME Env \in D
      PROVE  ~DtorThrows(rest, d, Env)
  <2>1. rest[Env] = t[Env] /\ t[Env] \notin {"unused", "null", "freed"}
    BY <1>3 DEF LivingTable, ChildrenDestroyed, Objects, TableOK, EnvStates
  <2> QED BY <2>1 DEF DtorThrows, FreeHandle
<1> QED BY <1>2, <1>3 DEF DestructionThrows

LEMMA ReleaseLiving ==
    ASSUME UNCHANGED world,
           HandlesTypeOK, NEW o \in Objects, NEW k, NEW t, TableOK(t), NEW d,
           LivingTable(t), FreedTable(t, d), Release(o, k, t, d)
    PROVE  /\ LivingInv'
           /\ Asserts => fault' # "dtor"
<1> DEFINE own == Without(o, k)
           D   == Living(owners) \ Living(own)
<1>1. /\ owners' = own /\ dead' = d /\ hdl' = Destroyed(t, d, D) /\ parent_' = parent_
      /\ fault' = IF DestructionThrows(t, d, D) THEN "dtor" ELSE "none"
  BY DEF Release
<1>2. Living(own) \subseteq Living(owners)
  BY LivingMonotone DEF Without, HandlesTypeOK
<1>3. \A x \in Living(own) : hdl'[x] = t[x]
  BY <1>1, <1>2, LivingAreObjects, DestroyedTable
<1>4. Living(owners)' = Living(own)
  BY <1>1 DEF Living, EnvLives, ConnLives, StmtLives
<1>5. LivingTable(hdl)'
  BY <1>2, <1>3, <1>4 DEF Asserts, LivingTable
<1>6. ASSUME NEW s \in Stmts, hdl'[s] = "freed"
      PROVE  owners'[s] # {} /\ dead'[parent_'[s]]
  <2>1. s \in Objects /\ s # Env
    BY ObjectsAreDistinct DEF Objects
  <2>2. t[s] = "freed"
    BY <1>1, <1>6, <2>1, DestroyedTable
  <2>3. s \in Living(owners)
    BY <2>2 DEF FreedTable, Living, StmtLives
  <2>4. s \notin D
    <3>1. CASE s \in D
      <4>1. hdl'[s] = AfterDtor(t, d, s)
        BY <1>1, <2>1, <3>1 DEF Destroyed, ChildrenDestroyed
      <4> QED BY <1>6, <2>2, <4>1 DEF AfterDtor
    <3> QED BY <3>1
  <2>5. own[s] # {}
    BY <2>1, <2>3, <2>4, ObjectsAreDistinct DEF Living, StmtLives
  <2> QED BY <1>1, <2>2, <2>5 DEF FreedTable
<1>7. FreedTable(hdl, dead)'
  BY <1>6 DEF FreedTable
<1>8. Asserts => fault' # "dtor"
  BY <1>1, DestructionIsSafe
<1> QED BY <1>5, <1>7, <1>8 DEF LivingInv

-----------------------------------------------------------------------------
(* The invariant of handles and objects together.                          *)

SafeInv ==
    /\ TypeOK
    /\ TreeOK(hdl, parent_)
    /\ LivingInv
    /\ Asserts => fault # "dtor"

LEMMA SafeInit == Init => SafeInv
<1> SUFFICES ASSUME Init PROVE SafeInv
  OBVIOUS
<1>1. \A o \in Objects : hdl[o] = "unused" /\ owners[o] = {}
  BY DEF Init, HandlesInit
<1>2. Living(owners) = {}
  BY <1>1 DEF Living, EnvLives, ConnLives, StmtLives, Objects
<1>3. TypeOK
  BY TypeInit
<1> QED BY <1>1, <1>2, <1>3
        DEF SafeInv, TreeOK, LivingInv, LivingTable, FreedTable, Init, HandlesInit, Objects

LEMMA StaysSafe ==
    ASSUME UNCHANGED world,
           SafeInv, TypeOK', UNCHANGED <<hdl, parent_, owners, dead>>,
           fault' \in {fault, "assert"}
    PROVE  SafeInv'
BY DEF Asserts, SafeInv, TreeOK, LivingInv, LivingTable, FreedTable, Living, EnvLives,
       ConnLives, StmtLives

(* Letting go of an object, with a table t and flags d that still fit it.  *)
LEMMA ReleaseSafe ==
    ASSUME UNCHANGED world,
           SafeInv, TypeOK', NEW o \in Objects, NEW k, NEW t, NEW d,
           TableOK(t), ParentsTyped(t), TreeOK(t, parent_),
           LivingTable(t), FreedTable(t, d), Release(o, k, t, d)
    PROVE  SafeInv'
<1>1. TreeOK(hdl, parent_)'
  BY ReleaseTree DEF TreeOK
<1>2. LivingInv' /\ (Asserts => fault' # "dtor")
  BY ReleaseLiving DEF SafeInv, TypeOK
<1> QED BY <1>1, <1>2 DEF Asserts, SafeInv

LEMMA TableFits ==
    ASSUME SafeInv, Running
    PROVE  /\ TableOK(hdl) /\ ParentsTyped(hdl) /\ TreeOK(hdl, parent_)
           /\ LivingTable(hdl) /\ FreedTable(hdl, dead)
BY DEF SafeInv, TypeOK, HandlesTypeOK, ParentsTyped, LivingInv

(* ... after SQLDisconnect, with the children marked dead.                 *)
LEMMA DisconnectedFits ==
    ASSUME SafeInv, Running, NEW c \in Conns, NEW r \in DriverDisconnect(c)
    PROVE  LET t == TableAfterDisconnect(r, owners, c)
               d == mark_children_dead(dead, c)
           IN  /\ TableOK(t) /\ ParentsTyped(t) /\ TreeOK(t, parent_)
               /\ LivingTable(t) /\ FreedTable(t, d)
<1> DEFINE t == TableAfterDisconnect(r, owners, c)
           d == mark_children_dead(dead, c)
<1>1. HandlesTypeOK /\ LivingTable(hdl) /\ FreedTable(hdl, dead) /\ TreeOK(hdl, parent_)
  BY TableFits DEF SafeInv, TypeOK
<1>2. TableOK(t) /\ ParentsTyped(t)
  BY <1>1, DisconnectedTable DEF ParentsTyped, HandlesTypeOK
<1>3. TreeOK(t, parent_)
  BY <1>1, DisconnectedTree
<1>4. d[c] = TRUE /\ \A p \in Parents : dead[p] => d[p]
  BY <1>1 DEF mark_children_dead, HandlesTypeOK
<1>5. CASE r # "success"
  <2>1. t = hdl
    BY <1>5 DEF TableAfterDisconnect
  <2>2. FreedTable(t, d)
    BY <1>1, <1>4, <2>1 DEF FreedTable, HandlesTypeOK
  <2> QED BY <1>1, <1>2, <1>3, <2>1, <2>2
<1>6. CASE r = "success"
  <2>1. t = DisconnectTable(hdl, owners, c)
    BY <1>6 DEF TableAfterDisconnect
  <2>2. LivingTable(t)
    <3> SUFFICES ASSUME NEW o \in Living(owners)
                 PROVE  t[o] # "unused" /\ (Asserts => t[o] # "null")
      BY DEF LivingTable
    <3>1. o \in Objects /\ hdl[o] # "unused" /\ (Asserts => hdl[o] # "null")
      BY <1>1, LivingAreObjects DEF LivingTable
    <3>2. o \in Stmts => StmtLives(owners, o)
      BY ObjectsAreDistinct DEF Living
    <3> QED BY <2>1, <3>1, <3>2 DEF DisconnectTable
  <2>3. FreedTable(t, d)
    <3> SUFFICES ASSUME NEW s \in Stmts, t[s] = "freed"
                 PROVE  owners[s] # {} /\ d[parent_[s]]
      BY DEF FreedTable
    <3>1. CASE hdl[s] = "freed"
      BY <1>1, <1>4, <3>1 DEF FreedTable, HandlesTypeOK
    <3>2. CASE hdl[s] # "freed"
      <4>1. StmtLives(owners, s) /\ parent_[s] = c
        BY <2>1, <3>2 DEF DisconnectTable, Objects
      <4> QED BY <1>4, <4>1 DEF StmtLives
    <3> QED BY <3>1, <3>2
  <2> QED BY <1>2, <1>3, <2>2, <2>3
<1> QED BY <1>5, <1>6

(* A new statement on a connection that is held.                           *)
LEMMA NewStatementSafe ==
    ASSUME UNCHANGED world,
           SafeInv, Running, TypeOK', NEW c \in Conns, NEW s \in Stmts,
           owners[c] # {}, Unused(s),
           NEW h \in StatementHandles(c), NEW k, Gains(s, k),
           hdl' = [hdl EXCEPT ![s] = h], parent_' = [parent_ EXCEPT ![s] = c],
           UNCHANGED <<dead, fault>>
    PROVE  SafeInv'
<1>0. /\ h \in {"null", "alloc"} /\ (Asserts => h # "null")
      /\ (h = "alloc" => "alloc" \in AllocHandle(hdl, c))
  BY StatementHandlesRange DEF StatementHandles
<1>1. TreeOK(hdl, parent_)'
  BY <1>0, NewStatementTree DEF SafeInv, TreeOK
<1>2. /\ s \in Objects /\ \A x \in Objects : x # s => hdl'[x] = hdl[x] /\ owners'[x] = owners[x]
      /\ hdl'[s] = h /\ parent_'[s] = c
      /\ \A x \in Stmts : x # s => parent_'[x] = parent_[x]
  BY DEF Gains, SafeInv, TypeOK, HandlesTypeOK, TableOK, Objects
<1>3. c \in Living(owners) /\ Env \in Living(owners)
  BY DEF Living, EnvLives, ConnLives
<1>4. Living(owners)' \subseteq Living(owners) \cup {s}
  <2>1. \A x \in Stmts : StmtLives(owners, x)' => x = s \/ StmtLives(owners, x)
    BY <1>2 DEF StmtLives, Objects
  <2>2. \A x \in Conns : ConnLives(owners, x)' => x = c \/ ConnLives(owners, x)
    BY <1>2, <2>1, ObjectsAreDistinct DEF ConnLives, Objects, StmtLives
  <2> QED BY <1>3, <2>1, <2>2 DEF Living
<1>5. LivingTable(hdl)'
  BY <1>0, <1>2, <1>4, LivingAreObjects, TableFits DEF Asserts, LivingTable
<1>6. FreedTable(hdl, dead)'
  BY <1>0, <1>2, TableFits DEF FreedTable, Objects
<1> QED BY <1>1, <1>5, <1>6 DEF SafeInv, LivingInv

LEMMA TransientSafe ==
    ASSUME UNCHANGED world,
           SafeInv, Running, TypeOK', NEW c \in Conns, NEW s \in Stmts, Unused(s),
           NEW h \in StatementHandles(c), NEW r, TransientEnds(s, c, h, r)
    PROVE  SafeInv'
<1>0. /\ h \in {"null", "alloc"} /\ (Asserts => h # "null")
      /\ (h = "alloc" => "alloc" \in AllocHandle(hdl, c))
  BY StatementHandlesRange DEF StatementHandles
<1>1. PICK x \in {h, "unused"} :
        /\ hdl' = [hdl EXCEPT ![s] = x] /\ parent_' = [parent_ EXCEPT ![s] = c]
        /\ x \in {"alloc", "unused"}
  BY DEF TransientEnds
<1>2. TreeOK(hdl, parent_)'
  BY <1>0, <1>1, NewStatementTree DEF SafeInv, TreeOK
<1>3. /\ \A y \in Objects : y # s => hdl'[y] = hdl[y]
      /\ hdl'[s] = x /\ s \in Objects
      /\ \A y \in Stmts : y # s => parent_'[y] = parent_[y]
      /\ UNCHANGED <<owners, dead>>
  BY <1>1 DEF TransientEnds, SafeInv, TypeOK, HandlesTypeOK, TableOK, Objects
<1>4. s \notin Living(owners)
  BY TableFits DEF LivingTable, Unused
<1>5. Living(owners)' = Living(owners)
  <2>1. ~StmtLives(owners, s)
    BY <1>4 DEF Living
  <2>2. \A y \in Conns : ConnLives(owners, y)' <=> ConnLives(owners, y)
    BY <1>3, <2>1 DEF ConnLives, StmtLives
  <2> QED BY <1>3, <2>2 DEF Living, StmtLives, EnvLives
<1>6. LivingTable(hdl)'
  BY <1>3, <1>4, <1>5, LivingAreObjects, TableFits DEF Asserts, LivingTable
<1>7. FreedTable(hdl, dead)'
  BY <1>1, <1>3, TableFits DEF FreedTable, Objects
<1>8. Asserts => fault' # "dtor"
  BY <1>0 DEF TransientEnds, FreeHandle, SafeInv, TypeOK, HandlesTypeOK, TableOK, Objects
<1> QED BY <1>2, <1>6, <1>7, <1>8 DEF Asserts, SafeInv, LivingInv

LEMMA EnvironmentSafe ==
    ASSUME UNCHANGED world,
           SafeInv, TypeOK', EnvironmentStep
    PROVE  SafeInv'
<1>0. Env \in Objects /\ Env \notin Stmts /\ Env \notin Conns
  BY ObjectsAreDistinct DEF Objects
<1>1. CASE NewEnvironment \/ InitEnvironment
  <2>1. PICK h \in {"alloc", "null", "ready"} :
          /\ hdl' = [hdl EXCEPT ![Env] = h]
          /\ fault' = IF h = "null" THEN "noexcept" ELSE "none"
          /\ hdl[Env] = "unused" \/ h = "ready"
    BY <1>1 DEF NewEnvironment, InitEnvironment, AllocEnv, OrFault
  <2>2. /\ Running /\ UNCHANGED <<parent_, dead>>
        /\ \A o \in Objects : o # Env => hdl'[o] = hdl[o] /\ owners'[o] = owners[o]
        /\ hdl'[Env] = h
    BY <1>0, <1>1, <2>1
       DEF NewEnvironment, InitEnvironment, Gains, SafeInv, TypeOK, HandlesTypeOK, TableOK
  <2>3. TreeOK(hdl, parent_)'
    BY <1>0, <2>1, <2>2 DEF TreeOK, SafeInv, TypeOK, HandlesTypeOK, Objects
  <2>4. Living(owners)' \subseteq Living(owners) \cup {Env}
    BY <2>2, ObjectsAreDistinct DEF Living, ConnLives, StmtLives, Objects
  <2>5. Running' => LivingTable(hdl)'
    BY <2>1, <2>2, <2>4, LivingAreObjects, TableFits DEF Asserts, LivingTable
  <2>6. FreedTable(hdl, dead)'
    BY <1>0, <2>2, TableFits DEF FreedTable, Objects
  <2> QED BY <2>1, <2>3, <2>5, <2>6 DEF SafeInv, LivingInv
<1>2. CASE DestroyEnvironment
  BY <1>0, <1>2, TableFits, ReleaseSafe DEF DestroyEnvironment
<1> QED BY <1>1, <1>2 DEF EnvironmentStep

LEMMA ConnectionSafe ==
    ASSUME UNCHANGED world,
           SafeInv, TypeOK', NEW c \in Conns, ConnectionStep(c)
    PROVE  SafeInv'
<1>0. c \in Objects /\ c # Env /\ c \notin Stmts /\ Running
  BY ObjectsAreDistinct
     DEF Objects, ConnectionStep, NewConnection, Connect, ConnectVoid, Disconnect,
         DestroyConnection
<1>a. CASE Aborts \/ \E r : Returns(r)
  BY <1>a, StaysSafe DEF Aborts, Returns, handleVars
<1>1. CASE NewConnection(c)
  <2>1. PICK h \in AllocHandle(hdl, Env) :
          /\ hdl' = [hdl EXCEPT ![c] = h]
          /\ fault' = IF h = "null" /\ Asserts THEN "assert" ELSE "none"
    BY <1>1 DEF NewConnection
  <2>2. /\ hdl[c] = "unused" /\ owners[Env] # {} /\ UNCHANGED parent_
        /\ \A o \in Objects : o # c => hdl'[o] = hdl[o] /\ owners'[o] = owners[o]
        /\ hdl'[c] = h
        /\ \A p \in Parents : p # c => dead'[p] = dead[p]
    BY <1>0, <1>1, <2>1
       DEF NewConnection, Holds, Gains, SafeInv, TypeOK, HandlesTypeOK, TableOK
  <2>3. hdl[Env] # "null" /\ h \in {"null", "alloc"} /\ (h = "alloc" => hdl[Env] = "ready")
    BY <1>0, <2>1 DEF AllocHandle, OrFault, SafeInv, TypeOK, HandlesTypeOK, TableOK, EnvStates
  <2>4. TreeOK(hdl, parent_)'
    <3>1. \A s \in Stmts : hdl[s] = "alloc" => parent_[s] # c /\ parent_[s] \in Conns
      BY <2>2 DEF SafeInv, TreeOK, TypeOK, HandlesTypeOK
    <3> QED BY <1>0, <2>2, <2>3, <3>1, ObjectsAreDistinct DEF SafeInv, TreeOK, Objects
  <2>5. c \notin Living(owners) /\ Env \in Living(owners)
    BY <2>2, TableFits, <1>0 DEF LivingTable, Living, EnvLives
  <2>6. Living(owners)' \subseteq Living(owners) \cup {c}
    <3>1. \A x \in Conns : ConnLives(owners, x)' => x = c \/ ConnLives(owners, x)
      BY <1>0, <2>2 DEF ConnLives, StmtLives, Objects
    <3>2. \A s \in Stmts : StmtLives(owners, s)' => StmtLives(owners, s)
      BY <1>0, <2>2 DEF StmtLives, Objects
    <3> QED BY <2>5, <3>1, <3>2 DEF Living
  <2>7. Running' => LivingTable(hdl)'
    BY <2>1, <2>2, <2>3, <2>6, LivingAreObjects, TableFits, <1>0 DEF Asserts, LivingTable
  <2>8. FreedTable(hdl, dead)'
    <3> SUFFICES ASSUME NEW s \in Stmts, hdl'[s] = "freed"
                 PROVE  owners'[s] # {} /\ dead'[parent_'[s]]
      BY DEF FreedTable
    <3>1. s \in Objects /\ s # c /\ hdl[s] = "freed"
      BY <1>0, <2>2 DEF Objects
    <3>2. owners[s] # {} /\ dead[parent_[s]] /\ parent_[s] \in Conns
      BY <1>0, <3>1, TableFits DEF FreedTable, SafeInv, TypeOK, HandlesTypeOK
    <3>3. parent_[s] # c
      BY <2>5, <3>2 DEF Living, ConnLives, StmtLives
    <3> QED BY <2>2, <3>1, <3>2, <3>3
  <2> QED BY <2>1, <2>4, <2>7, <2>8 DEF SafeInv, LivingInv
<1>2. CASE (Connect(c) \/ ConnectVoid(c)) /\ ~Aborts /\ ~Returns("false")
  <2>1. /\ UNCHANGED <<parent_, owners, dead, fault>>
        /\ \/ hdl' = hdl
           \/ hdl' = [hdl EXCEPT ![c] = "conn"] /\ "success" \in DriverConnect(c)
    BY <1>2 DEF Connect, ConnectVoid
  <2>2. CASE hdl' = hdl
    BY <2>1, <2>2, StaysSafe
  <2>3. CASE hdl' = [hdl EXCEPT ![c] = "conn"] /\ "success" \in DriverConnect(c)
    <3>1. /\ hdl[c] = "alloc"
          /\ c \in Living(owners)
      <4>1. c \in Living(owners)
        BY <1>2 DEF Connect, ConnectVoid, Holds, Living, ConnLives
      <4>2. hdl[c] # "unused" /\ hdl[c] \in ConnStates
        BY <1>0, <4>1, TableFits DEF LivingTable, TableOK
      <4>3. hdl[c] \notin {"null", "conn"}
        BY <2>3 DEF DriverConnect, OrFault
      <4> QED BY <4>1, <4>2, <4>3 DEF ConnStates
    <3>2. hdl'[c] = "conn" /\ \A o \in Objects : o # c => hdl'[o] = hdl[o]
      BY <1>0, <2>3 DEF SafeInv, TypeOK, HandlesTypeOK, TableOK
    <3>3. TreeOK(hdl, parent_)'
      BY <1>0, <2>1, <3>1, <3>2, ObjectsAreDistinct
         DEF SafeInv, TreeOK, TypeOK, HandlesTypeOK, Objects
    <3>4. Living(owners)' = Living(owners)
      BY <2>1 DEF Living, EnvLives, ConnLives, StmtLives
    <3>5. LivingTable(hdl)'
      BY <1>0, <3>2, <3>4, LivingAreObjects, TableFits DEF Asserts, LivingTable
    <3>6. FreedTable(hdl, dead)'
      BY <1>0, <2>1, <3>2, TableFits DEF FreedTable, Objects
    <3> QED BY <2>1, <3>3, <3>5, <3>6 DEF Asserts, SafeInv, LivingInv
  <2> QED BY <2>1, <2>2, <2>3
<1>3. CASE Disconnect(c) /\ ~Aborts /\ ~Returns("void")
  <2>1. PICK r \in DriverDisconnect(c) :
          /\ hdl' = TableAfterDisconnect(r, owners, c)
          /\ dead' = mark_children_dead(dead, c)
          /\ UNCHANGED <<parent_, owners, fault>>
    BY <1>3 DEF Disconnect
  <2>2. /\ TreeOK(hdl', parent_) /\ LivingTable(hdl') /\ FreedTable(hdl', dead')
    BY <1>0, <2>1, DisconnectedFits
  <2>3. Living(owners)' = Living(owners)
    BY <2>1 DEF Living, EnvLives, ConnLives, StmtLives
  <2> QED BY <2>1, <2>2, <2>3 DEF Asserts, SafeInv, LivingInv, LivingTable, FreedTable, TreeOK
<1>4. CASE DestroyConnection(c) /\ ~Aborts
  <2>1. CASE Release(c, "connection", hdl, dead)
    BY <1>0, <2>1, TableFits, ReleaseSafe
  <2>2. CASE \E r \in DriverDisconnect(c) :
               Release(c, "connection", TableAfterDisconnect(r, owners, c),
                       mark_children_dead(dead, c))
    BY <1>0, <2>2, DisconnectedFits, ReleaseSafe
  <2> QED BY <1>4, <2>1, <2>2 DEF DestroyConnection
<1> QED BY <1>a, <1>1, <1>2, <1>3, <1>4 DEF ConnectionStep

LEMMA StatementsSafe ==
    ASSUME UNCHANGED world,
           SafeInv, TypeOK',
           \/ \E c \in Conns, s \in Stmts : QueryStep(c, s)
           \/ \E s \in Stmts : StatementStep(s)
    PROVE  SafeInv'
<1>a. CASE Aborts \/ \E r : Returns(r)
  BY <1>a, StaysSafe DEF Aborts, Returns, handleVars
<1>1. ASSUME NEW c \in Conns, NEW s \in Stmts, QueryStep(c, s), ~Aborts,
             ~Returns("throw")
      PROVE  SafeInv'
  <2>1. Running /\ owners[c] # {} /\ Unused(s)
    BY <1>1 DEF QueryStep, CreateStatement, Execute, ExecuteQuery, Holds
  <2>2. PICK h \in StatementHandles(c) :
          \/ \E r : TransientEnds(s, c, h, r)
          \/ \E k : /\ hdl' = [hdl EXCEPT ![s] = h] /\ parent_' = [parent_ EXCEPT ![s] = c]
                    /\ Gains(s, k) /\ UNCHANGED <<dead, fault>>
    BY <1>1 DEF QueryStep, CreateStatement, Execute, ExecuteQuery
  <2> QED BY <2>1, <2>2, NewStatementSafe, TransientSafe
<1>2. ASSUME NEW s \in Stmts, StatementStep(s), ~\E r : Returns(r)
      PROVE  SafeInv'
  <2>0. Running /\ s \in Objects
    BY <1>2 DEF StatementStep, StatementExecute, StatementExecuteQuery, DestroyStatement,
                DestroyResultSet, Objects
  <2>1. CASE \E k : Release(s, k, hdl, dead)
    BY <2>0, <2>1, TableFits, ReleaseSafe
  <2>2. CASE /\ owners[s] # {} /\ Gains(s, "result_set")
             /\ UNCHANGED <<hdl, parent_, dead, fault>>
    <3>1. \A o \in Objects : owners'[o] # {} <=> owners[o] # {}
      BY <2>0, <2>2 DEF Gains, SafeInv, TypeOK, HandlesTypeOK
    <3>2. Living(owners)' = Living(owners)
      BY <2>2, <3>1 DEF Living, EnvLives, ConnLives, StmtLives, Objects
    <3> QED BY <2>2, <3>1, <3>2
            DEF Asserts, SafeInv, TreeOK, LivingInv, LivingTable, FreedTable, Objects
  <2> QED BY <1>2, <2>1, <2>2
          DEF StatementStep, StatementExecute, StatementExecuteQuery, DestroyStatement,
              DestroyResultSet, Holds
<1> QED BY <1>a, <1>1, <1>2

LEMMA SafeStep == SafeInv /\ [Next]_vars => SafeInv'
<1> SUFFICES ASSUME SafeInv, [Next]_vars
             PROVE  SafeInv'
  OBVIOUS
<1>1. TypeOK'
  BY TypeStep DEF SafeInv
<1>2. CASE UNCHANGED vars
  BY <1>1, <1>2, StaysSafe DEF vars, handleVars
<1> QED BY <1>1, <1>2, EnvironmentSafe, ConnectionSafe, StatementsSafe DEF Next

LEMMA Safe == Spec => []SafeInv
<1>1. Init => SafeInv
  BY SafeInit
<1>2. SafeInv /\ [Next]_vars => SafeInv'
  BY SafeStep
<1> QED BY <1>1, <1>2, PTL DEF Spec

(* In a build with asserts no destructor of a handle throws, whatever the  *)
(* driver answers and in whatever order the program lets its objects go    *)
(* (handles.hpp:72-84): an impl_type only lives with a valid handle, or    *)
(* with one that SQLDisconnect freed under a parent marked dead.           *)
THEOREM DestructorsAreSafe == Spec => []DestructorsNeverThrow
<1>1. SafeInv => DestructorsNeverThrow
  BY DEF SafeInv, DestructorsNeverThrow
<1> QED BY <1>1, Safe, PTL
-----------------------------------------------------------------------------
(* For a program that does not use connect(std::string) and a driver whose *)
(* SQLDisconnect does not fail: what the flags of a connection say, and    *)
(* that no handle is lost.                                                 *)

-----------------------------------------------------------------------------
(* The inductive invariant: what connected_, cancelled_ and children_dead_ *)
(* say of a handle table t and of the objects own that the program holds,  *)
(* and that t has no entry without an object.                              *)

Link(t, own, con, can, d) ==
    /\ ~d[Env]
    /\ \A c \in Conns :
        /\ con[c] <=> t[c] = "conn"
        /\ con[c] => "connection" \in own[c]
        /\ d[c] => can[c]
        /\ can[c] => t[c] # "conn"

LeakFree(t) == \A o \in Objects : o \notin Living(owners) => t[o] = "unused"

TrueInv ==
    /\ SafeInv
    /\ Link(hdl, owners, connected_, cancelled_, dead)
    /\ LeakFree(hdl)

LEMMA TrueInit == Init => TrueInv
<1> SUFFICES ASSUME Init PROVE TrueInv
  OBVIOUS
<1>1. SafeInv
  BY SafeInit
<1>2. Link(hdl, owners, connected_, cancelled_, dead)
  BY DEF Link, Init, HandlesInit, Objects
<1>3. LeakFree(hdl)
  BY DEF LeakFree, Init, HandlesInit
<1> QED BY <1>1, <1>2, <1>3 DEF TrueInv

(* A destructor never frees a dbc that is still connected.                 *)
LEMMA DestroyedConns ==
    ASSUME NEW t, TableOK(t), NEW d, NEW D, NEW c \in Conns
    PROVE  Destroyed(t, d, D)[c] = "conn" <=> t[c] = "conn"
BY ObjectsAreDistinct, DestroyedTable
   DEF Destroyed, ChildrenDestroyed, AfterDtor, FreeHandle, Objects

-----------------------------------------------------------------------------
(* Releasing an object loses no handle: the impl_type of a connected dbc   *)
(* is not among the destroyed, and no usable statement is skipped.         *)
LEMMA ReleaseLeak ==
    ASSUME HandlesTypeOK, NEW o \in Objects, NEW k, NEW t, TableOK(t), NEW d,
           ~d[Env], LeakFree(t),
           \A c \in Conns : t[c] = "conn" => Without(o, k)[c] # {},
           \A s \in Stmts : t[s] = "alloc" => ~d[parent_[s]],
           Release(o, k, t, d)
    PROVE  LeakFree(hdl)'
<1> DEFINE own == Without(o, k)
           D   == Living(owners) \ Living(own)
           rest == ChildrenDestroyed(t, d, D)
<1>1. owners' = own /\ hdl' = Destroyed(t, d, D) /\ parent_' = parent_
  BY DEF Release
<1>2. Living(owners)' = Living(own)
  BY <1>1 DEF Living, EnvLives, ConnLives, StmtLives
<1>3. ASSUME NEW s \in Stmts, s \in D
      PROVE  rest[s] = "unused"
  <2>1. s \in Objects /\ s # Env /\ s \notin Conns
    BY ObjectsAreDistinct DEF Objects
  <2>2. rest[s] = AfterDtor(t, d, s)
    BY <1>3, <2>1 DEF ChildrenDestroyed
  <2>3. t[s] \in StmtStates
    BY DEF TableOK
  <2>4. CASE t[s] = "alloc"
    <3>1. ~SkipsDealloc(d, s)
      BY <2>1, <2>4 DEF SkipsDealloc, ChildrenDead, ParentOf
    <3> QED BY <2>1, <2>2, <2>4, <3>1 DEF AfterDtor, FreeHandle
  <2>5. CASE t[s] # "alloc"
    BY <2>2, <2>3, <2>5 DEF AfterDtor, StmtStates
  <2> QED BY <2>4, <2>5
<1>4. ASSUME NEW c \in Conns, c \in D
      PROVE  rest[c] = "unused"
  <2>1. c \in Objects /\ c # Env /\ c \notin Stmts
    BY ObjectsAreDistinct DEF Objects
  <2>2. rest[c] = AfterDtor(t, d, c)
    BY <1>4, <2>1 DEF ChildrenDestroyed
  <2>3. own[c] = {}
    BY <1>4, <2>1 DEF Living, ConnLives
  <2>4. t[c] \in {"unused", "null", "alloc"}
    BY <2>3 DEF TableOK, ConnStates
  <2>5. ~SkipsDealloc(d, c)
    BY <2>1, ObjectsAreDistinct DEF SkipsDealloc, ChildrenDead, ParentOf
  <2> QED BY <2>1, <2>2, <2>4, <2>5 DEF AfterDtor, FreeHandle
<1>5. ASSUME NEW x \in Objects, x # Env, x \notin Living(own)
      PROVE  rest[x] = "unused"
  <2>1. CASE x \in D
    BY <1>3, <1>4, <1>5, <2>1 DEF Objects
  <2>2. CASE x \notin D
    BY <1>5, <2>2 DEF LeakFree, ChildrenDestroyed
  <2> QED BY <2>1, <2>2
<1>6. ASSUME NEW x \in Objects, x \notin Living(own)
      PROVE  hdl'[x] = "unused"
  <2>1. CASE x # Env
    BY <1>1, <1>5, <1>6, <2>1 DEF Destroyed
  <2>2. CASE x = Env /\ x \notin D
    BY <1>1, <1>6, <2>2, DestroyedTable DEF LeakFree
  <2>3. CASE x = Env /\ x \in D
    <3>1. \A c \in Conns : c \notin Living(own)
      BY <2>3, ObjectsAreDistinct DEF Living, EnvLives
    <3>2. \A c \in Conns : rest[c] = "unused"
      BY <1>5, <3>1, ObjectsAreDistinct DEF Objects
    <3>3. rest[Env] \in EnvStates
      BY DEF ChildrenDestroyed, TableOK, Objects
    <3>4. hdl'[Env] = AfterDtor(rest, d, Env)
      BY <1>1, <2>3 DEF Destroyed
    <3> QED BY <2>3, <3>2, <3>3, <3>4
            DEF AfterDtor, FreeHandle, SkipsDealloc, EnvStates
  <2> QED BY <2>1, <2>2, <2>3
<1> QED BY <1>2, <1>6 DEF LeakFree

(* The flags still agree with the table after an object is let go, unless  *)
(* it is a connected connection.                                           *)
LEMMA ReleaseLink ==
    ASSUME HandlesTypeOK, NEW o \in Objects, NEW k, NEW t, TableOK(t), NEW d,
           NEW con, NEW can, Link(t, owners, con, can, d),
           k = "connection" => ~con[o],
           Release(o, k, t, d)
    PROVE  Link(hdl', owners', con, can, dead')
<1> DEFINE D == Living(owners) \ Living(Without(o, k))
<1>1. owners' = Without(o, k) /\ hdl' = Destroyed(t, d, D) /\ dead' = d
  BY DEF Release
<1>2. \A c \in Conns : hdl'[c] = "conn" <=> t[c] = "conn"
  BY <1>1, DestroyedConns
<1>3. \A c \in Conns : con[c] => "connection" \in owners'[c]
  BY <1>1 DEF Link, Without, HandlesTypeOK, Objects
<1> QED BY <1>1, <1>2, <1>3 DEF Link

-----------------------------------------------------------------------------
(* The steps.  SafeInv' is known from SyncConnectionProofs.                *)

LEMMA StaysTrue ==
    ASSUME TrueInv, SafeInv',
           UNCHANGED <<hdl, parent_, owners, dead, connected_, cancelled_>>
    PROVE  TrueInv'
BY DEF TrueInv, Link, LeakFree, Living, EnvLives, ConnLives, StmtLives

(* Letting go of an object that is not a connected connection.             *)
LEMMA ReleaseTrue ==
    ASSUME TrueInv, SafeInv', Running, NEW o \in Objects, NEW k,
           k = "connection" => ~connected_[o],
           Release(o, k, hdl, dead), UNCHANGED connectionState
    PROVE  TrueInv'
<1>1. /\ HandlesTypeOK /\ TableOK(hdl) /\ TreeOK(hdl, parent_) /\ LeakFree(hdl)
      /\ Link(hdl, owners, connected_, cancelled_, dead)
  BY DEF TrueInv, SafeInv, TypeOK, HandlesTypeOK
<1>2. \A c \in Conns : hdl[c] = "conn" => Without(o, k)[c] # {}
  BY <1>1 DEF Link, Without, HandlesTypeOK, Objects
<1>3. \A s \in Stmts : hdl[s] = "alloc" => ~dead[parent_[s]]
  BY <1>1 DEF Link, TreeOK, HandlesTypeOK
<1>4. LeakFree(hdl)'
  BY <1>1, <1>2, <1>3, ReleaseLeak DEF Link
<1>5. Link(hdl', owners', connected_, cancelled_, dead')
  BY <1>1, ReleaseLink
<1> QED BY <1>4, <1>5 DEF TrueInv, Link, connectionState

(* The driver's side of a disconnect that does not fail.                   *)
LEMMA DisconnectedLink ==
    ASSUME WellBehaved, TrueInv, NEW c \in Conns, connected_[c], NEW r \in DriverDisconnect(c)
    PROVE  LET t == TableAfterDisconnect(r, owners, c)
           IN  /\ t[c] = "alloc"
               /\ \A x \in Conns : x # c => t[x] = hdl[x]
               /\ LeakFree(t)
               /\ Link(t, owners, [connected_ EXCEPT ![c] = FALSE],
                       [cancelled_ EXCEPT ![c] = TRUE], mark_children_dead(dead, c))
               /\ \A s \in Stmts : t[s] = "alloc" => hdl[s] = "alloc" /\ parent_[s] # c
<1> DEFINE t == TableAfterDisconnect(r, owners, c)
<1>1. hdl[c] = "conn" /\ r = "success"
  BY DEF TrueInv, Link, DriverDisconnect, OrFault, WellBehaved
<1>2. t = DisconnectTable(hdl, owners, c)
  BY <1>1 DEF TableAfterDisconnect
<1>3. c \in Objects /\ t[c] = "alloc" /\ \A x \in Conns : x # c => t[x] = hdl[x]
  BY <1>2, ObjectsAreDistinct DEF DisconnectTable, Objects
<1>4. \A s \in Stmts : t[s] = "alloc" => hdl[s] = "alloc" /\ parent_[s] # c
  BY <1>2, ObjectsAreDistinct DEF DisconnectTable, Objects
<1>5. c \in Living(owners)
  BY <1>1 DEF TrueInv, Link, Living, ConnLives
<1>6. LeakFree(t)
  <2> SUFFICES ASSUME NEW o \in Objects, o \notin Living(owners)
               PROVE  t[o] = "unused"
    BY DEF LeakFree
  <2>1. hdl[o] = "unused" /\ o # c
    BY <1>5 DEF TrueInv, LeakFree
  <2> QED BY <1>2, <2>1 DEF DisconnectTable
<1>7. Link(t, owners, [connected_ EXCEPT ![c] = FALSE],
           [cancelled_ EXCEPT ![c] = TRUE], mark_children_dead(dead, c))
  BY <1>3, ObjectsAreDistinct
     DEF Link, TrueInv, SafeInv, TypeOK, HandlesTypeOK, mark_children_dead
<1> QED BY <1>3, <1>4, <1>6, <1>7

LEMMA DestroyConnectionTrue ==
    ASSUME WellBehaved, TrueInv, SafeInv', NEW c \in Conns, DestroyConnection(c)
    PROVE  TrueInv'
<1>0. Running /\ c \in Objects
  BY DEF DestroyConnection, Objects
<1>1. CASE Aborts
  BY <1>1, StaysTrue DEF Aborts
<1>2. CASE ~connected_[c] /\ ~Aborts
  BY <1>0, <1>2, ReleaseTrue DEF DestroyConnection
<1>3. CASE connected_[c] /\ ~Aborts
  <2>1. PICK r \in DriverDisconnect(c) :
          Release(c, "connection", TableAfterDisconnect(r, owners, c),
                  mark_children_dead(dead, c))
    BY <1>3 DEF DestroyConnection
  <2> DEFINE t == TableAfterDisconnect(r, owners, c)
             d == mark_children_dead(dead, c)
             con == [connected_ EXCEPT ![c] = FALSE]
             can == [cancelled_ EXCEPT ![c] = TRUE]
  <2>2. connected_' = con /\ cancelled_' = can
    BY <1>3 DEF DestroyConnection
  <2>3. /\ HandlesTypeOK /\ TableOK(t) /\ TreeOK(t, parent_) /\ ParentsTyped(t)
        /\ connected_ \in [Conns -> BOOLEAN]
    BY <1>0, DisconnectedFits DEF TrueInv, SafeInv, TypeOK
  <2>4. /\ LeakFree(t) /\ Link(t, owners, con, can, d)
        /\ t[c] = "alloc" /\ \A x \in Conns : x # c => t[x] = hdl[x]
    BY <1>3, DisconnectedLink
  <2>5. ~con[c] /\ ~d[Env]
    BY <2>3, <2>4 DEF Link
  <2>6. Release(c, "connection", t, d)
    BY <2>1
  <2> HIDE DEF t, d, con, can
  <2>7. \A x \in Conns : t[x] = "conn" => Without(c, "connection")[x] # {}
    <3> SUFFICES ASSUME NEW x \in Conns, t[x] = "conn"
                 PROVE  Without(c, "connection")[x] # {}
      OBVIOUS
    <3>1. x # c /\ "connection" \in owners[x] /\ x \in Objects
      BY <2>4 DEF Link, Objects
    <3> QED BY <2>3, <3>1 DEF Without, HandlesTypeOK
  <2>8. \A s \in Stmts : t[s] = "alloc" => ~d[parent_[s]]
    <3> SUFFICES ASSUME NEW s \in Stmts, t[s] = "alloc"
                 PROVE  ~d[parent_[s]]
      OBVIOUS
    <3>1. t[parent_[s]] = "conn"
      BY <2>3 DEF TreeOK
    <3>2. parent_[s] \in Conns
      BY <2>3 DEF ParentsTyped
    <3> QED BY <2>4, <3>1, <3>2 DEF Link
  <2>9. LeakFree(hdl)'
    BY <1>0, <2>3, <2>4, <2>5, <2>6, <2>7, <2>8, ReleaseLeak
  <2>10. Link(hdl', owners', con, can, dead')
    BY <1>0, <2>3, <2>4, <2>5, <2>6, ReleaseLink
  <2> QED BY <2>2, <2>9, <2>10 DEF TrueInv, Link
<1> QED BY <1>1, <1>2, <1>3

LEMMA ConnectionTrue ==
    ASSUME WellBehaved, TrueInv, SafeInv', NEW c \in Conns, ConnectionStep(c)
    PROVE  TrueInv'
<1>0. /\ c \in Objects /\ c # Env /\ c \notin Stmts /\ Running
      /\ TableOK(hdl) /\ hdl[c] \in ConnStates
      /\ Link(hdl, owners, connected_, cancelled_, dead) /\ LeakFree(hdl)
      /\ connected_ \in [Conns -> BOOLEAN] /\ cancelled_ \in [Conns -> BOOLEAN]
      /\ dead \in [Parents -> BOOLEAN] /\ owners \in [Objects -> SUBSET OwnerKinds]
      /\ Conns \subseteq Objects
  BY ObjectsAreDistinct
     DEF Objects, ConnectionStep, NewConnection, Connect, ConnectVoid, Disconnect,
         DestroyConnection, TrueInv, SafeInv, TypeOK, HandlesTypeOK, TableOK
<1>a. CASE Aborts \/ \E r : Returns(r)
  BY <1>a, StaysTrue DEF Aborts, Returns, handleVars
<1>1. CASE NewConnection(c)
  <2>1. PICK h \in {"null", "alloc"} : hdl' = [hdl EXCEPT ![c] = h]
    <3>1. hdl[Env] # "null"
      BY <1>0 DEF TrueInv, SafeInv, TypeOK, HandlesTypeOK
    <3> QED BY <1>1, <3>1 DEF NewConnection, AllocHandle, OrFault
  <2>2. Link(hdl, owners, connected_, cancelled_, dead)'
    BY <1>0, <1>1, <2>1 DEF NewConnection, Link, Gains, TableOK
  <2>3. LeakFree(hdl)'
    <3>1. /\ owners'[c] # {} /\ \A o \in Objects : owners[o] \subseteq owners'[o]
          /\ \A o \in Objects : o # c => hdl'[o] = hdl[o]
          /\ parent_' = parent_
      BY <1>0, <1>1, <2>1 DEF NewConnection, Gains, TableOK
    <3>2. Living(owners) \subseteq Living(owners')
      BY <3>1, LivingMonotone
    <3>3. Living(owners)' = Living(owners') /\ c \in Living(owners')
      BY <3>1 DEF Living, EnvLives, ConnLives, StmtLives
    <3> QED BY <1>0, <3>1, <3>2, <3>3 DEF LeakFree
  <2> QED BY <2>2, <2>3 DEF TrueInv
<1>2. CASE Connect(c) /\ ~Aborts /\ ~Returns("false")
  <2>1. PICK r \in DriverConnect(c) :
          /\ hdl' = IF r = "success" THEN [hdl EXCEPT ![c] = "conn"] ELSE hdl
          /\ connected_' = [connected_ EXCEPT ![c] = @ \/ ConnectedAfter(r)]
          /\ UNCHANGED <<parent_, owners, dead, cancelled_>>
          /\ ~cancelled_[c] /\ "connection" \in owners[c]
    BY <1>2 DEF Connect, RefusesConnect, Holds
  <2>2. CASE r # "success"
    <3>1. hdl' = hdl /\ connected_' = connected_
      BY <1>0, <2>1, <2>2 DEF ConnectedAfter
    <3> QED BY <2>1, <3>1, StaysTrue
  <2>3. CASE r = "success"
    <3>1. /\ hdl' = [hdl EXCEPT ![c] = "conn"]
          /\ connected_' = [connected_ EXCEPT ![c] = TRUE]
      BY <1>0, <2>1, <2>3 DEF ConnectedAfter
    <3>2. Link(hdl, owners, connected_, cancelled_, dead)'
      BY <1>0, <2>1, <3>1 DEF Link, TableOK
    <3>3. c \in Living(owners) /\ Living(owners)' = Living(owners)
      BY <2>1 DEF Living, EnvLives, ConnLives, StmtLives
    <3>4. LeakFree(hdl)'
      BY <1>0, <3>1, <3>3 DEF LeakFree, TableOK
    <3> QED BY <3>2, <3>4 DEF TrueInv
  <2> QED BY <2>2, <2>3
<1>3. CASE Disconnect(c) /\ ~Aborts /\ ~Returns("void")
  <2>1. PICK r \in DriverDisconnect(c) : hdl' = TableAfterDisconnect(r, owners, c)
    BY <1>3 DEF Disconnect
  <2>2. /\ connected_[c] /\ UNCHANGED <<parent_, owners>>
        /\ dead' = mark_children_dead(dead, c)
        /\ connected_' = [connected_ EXCEPT ![c] = FALSE]
        /\ cancelled_' = [cancelled_ EXCEPT ![c] = TRUE]
    BY <1>3 DEF Disconnect
  <2> DEFINE t == TableAfterDisconnect(r, owners, c)
  <2>3. LeakFree(t) /\ Link(t, owners, connected_', cancelled_', dead')
    BY <2>2, DisconnectedLink
  <2>4. Living(owners)' = Living(owners)
    BY <2>2 DEF Living, EnvLives, ConnLives, StmtLives
  <2> HIDE DEF t
  <2>5. LeakFree(hdl)' /\ Link(hdl, owners, connected_, cancelled_, dead)'
    BY <2>1, <2>2, <2>3, <2>4 DEF t, Link, LeakFree
  <2> QED BY <2>5 DEF TrueInv
<1>4. CASE DestroyConnection(c)
  BY <1>4, DestroyConnectionTrue
<1>5. ~ConnectVoid(c)
  BY DEF ConnectVoid, WellBehaved
<1> QED BY <1>a, <1>1, <1>2, <1>3, <1>4, <1>5 DEF ConnectionStep

(* A new statement, or one that lived for a single call.                   *)
LEMMA QueryTrue ==
    ASSUME TrueInv, SafeInv', NEW c \in Conns, NEW s \in Stmts, QueryStep(c, s)
    PROVE  TrueInv'
<1>0. /\ s \in Objects /\ s # Env /\ s \notin Conns /\ Running
      /\ owners[c] # {} /\ hdl[s] = "unused"
      /\ TableOK(hdl) /\ Conns \subseteq Objects
      /\ Link(hdl, owners, connected_, cancelled_, dead) /\ LeakFree(hdl)
      /\ owners \in [Objects -> SUBSET OwnerKinds] /\ parent_ \in [Stmts -> Conns \cup {NoConn}]
  BY ObjectsAreDistinct
     DEF Objects, QueryStep, CreateStatement, Execute, ExecuteQuery, Unused, Holds,
         TrueInv, SafeInv, TypeOK, HandlesTypeOK
<1>a. CASE Aborts \/ \E r : Returns(r)
  BY <1>a, StaysTrue DEF Aborts, Returns, handleVars
<1>1. CASE \E h \in StatementHandles(c) : \E r : TransientEnds(s, c, h, r)
  <2>1. PICK h \in StatementHandles(c) : \E r : TransientEnds(s, c, h, r)
    BY <1>1
  <2>2. h \in {"null", "alloc"} /\ (h = "alloc" => hdl[c] = "conn")
    <3>1. h \in AllocHandle(hdl, c) /\ hdl[c] \in ConnStates
      BY <1>0 DEF StatementHandles, TableOK
    <3> QED BY <3>1, StatementHandlesRange DEF AllocHandle, OrFault, ConnStates
  <2>3. h = "alloc" => ~ChildrenDead(dead, c)
    BY <1>0, <2>2 DEF Link, ChildrenDead
  <2>4. hdl' = hdl
    <3>1. hdl' = [hdl EXCEPT ![s] = "unused"]
      BY <2>1, <2>3 DEF TransientEnds
    <3> QED BY <1>0, <3>1 DEF TableOK
  <2>5. /\ UNCHANGED <<owners, dead, connected_, cancelled_>>
        /\ parent_' = [parent_ EXCEPT ![s] = c]
    BY <2>1 DEF TransientEnds, connectionState
  <2>6. s \notin Living(owners)
    BY <1>0, TableFits DEF TrueInv, LivingTable
  <2>7. Living(owners)' = Living(owners)
    <3>1. \A x \in Stmts : x # s => parent_'[x] = parent_[x]
      BY <1>0, <2>5
    <3>2. ~StmtLives(owners, s)
      BY <2>6 DEF Living
    <3>3. \A y \in Conns : ConnLives(owners, y)' <=> ConnLives(owners, y)
      BY <2>5, <3>1, <3>2 DEF ConnLives, StmtLives
    <3> QED BY <2>5, <3>3 DEF Living, StmtLives, EnvLives
  <2>8. Link(hdl, owners, connected_, cancelled_, dead)' /\ LeakFree(hdl)'
    BY <1>0, <2>4, <2>5, <2>7 DEF Link, LeakFree
  <2> QED BY <2>8 DEF TrueInv
<1>2. CASE \E h, k : /\ hdl' = [hdl EXCEPT ![s] = h]
                     /\ parent_' = [parent_ EXCEPT ![s] = c]
                     /\ Gains(s, k)
                     /\ UNCHANGED <<dead, connectionState>>
  <2>1. PICK h, k : /\ hdl' = [hdl EXCEPT ![s] = h]
                    /\ parent_' = [parent_ EXCEPT ![s] = c]
                    /\ Gains(s, k)
                    /\ UNCHANGED <<dead, connectionState>>
    BY <1>2
  <2>2. /\ owners' = [owners EXCEPT ![s] = @ \cup {k}]
        /\ \A o \in Objects : o # s => hdl'[o] = hdl[o] /\ owners'[o] = owners[o]
        /\ \A x \in Stmts : x # s => parent_'[x] = parent_[x]
        /\ owners'[s] # {} /\ parent_'[s] = c
    BY <1>0, <2>1 DEF Gains, TableOK
  <2>3. Link(hdl, owners, connected_, cancelled_, dead)'
    BY <1>0, <2>1, <2>2 DEF Link, connectionState
  <2>4. s \notin Living(owners)
    BY <1>0, TableFits DEF TrueInv, LivingTable
  <2>5. \A o \in Living(owners) : o \in Living(owners)'
    <3>1. \A x \in Stmts : StmtLives(owners, x) => x # s /\ StmtLives(owners, x)'
      BY <2>2, <2>4 DEF StmtLives, Living, Objects
    <3>2. \A y \in Conns : ConnLives(owners, y) => ConnLives(owners, y)'
      BY <1>0, <2>2, <3>1 DEF ConnLives
    <3>3. EnvLives(owners) => EnvLives(owners)'
      BY <1>0, <2>2, <3>2, ObjectsAreDistinct DEF EnvLives, Objects
    <3> QED BY <3>1, <3>2, <3>3 DEF Living
  <2>6. s \in Living(owners)'
    BY <2>2 DEF Living, StmtLives
  <2>7. LeakFree(hdl)'
    BY <1>0, <2>2, <2>5, <2>6 DEF LeakFree
  <2> QED BY <2>3, <2>7 DEF TrueInv
<1> QED BY <1>a, <1>1, <1>2 DEF QueryStep, CreateStatement, Execute, ExecuteQuery

LEMMA TrueStep ==
    ASSUME WellBehaved, TrueInv, [Next]_vars
    PROVE  TrueInv'
<1>0. SafeInv'
  BY SafeStep DEF TrueInv
<1>a. CASE UNCHANGED vars
  BY <1>0, <1>a, StaysTrue DEF vars, handleVars
<1>1. CASE EnvironmentStep
  <2>0. Env \in Objects /\ Env \notin Stmts /\ Env \notin Conns /\ Conns \subseteq Objects
    BY ObjectsAreDistinct DEF Objects
  <2>1. CASE DestroyEnvironment
    BY <1>0, <2>0, <2>1, ReleaseTrue DEF DestroyEnvironment
  <2>2. CASE NewEnvironment \/ InitEnvironment
    <3>1. /\ \E h : hdl' = [hdl EXCEPT ![Env] = h]
          /\ owners' = [owners EXCEPT ![Env] = @ \cup {"environment"}]
          /\ UNCHANGED <<parent_, dead, connectionState>>
      BY <2>2 DEF NewEnvironment, InitEnvironment, Gains, Holds, TrueInv, SafeInv, TypeOK,
                  HandlesTypeOK
    <3>2. /\ TableOK(hdl) /\ owners \in [Objects -> SUBSET OwnerKinds]
          /\ Link(hdl, owners, connected_, cancelled_, dead) /\ LeakFree(hdl)
      BY DEF TrueInv, SafeInv, TypeOK, HandlesTypeOK
    <3>3. /\ \A o \in Objects : o # Env => hdl'[o] = hdl[o]
          /\ \A o \in Objects : owners[o] \subseteq owners'[o]
          /\ owners'[Env] # {}
      BY <2>0, <3>1, <3>2 DEF TableOK
    <3>4. Link(hdl, owners, connected_, cancelled_, dead)'
      BY <2>0, <3>1, <3>2, <3>3 DEF Link, connectionState
    <3>5. Living(owners) \subseteq Living(owners') /\ Env \in Living(owners')
      BY <3>3, LivingMonotone DEF Living, EnvLives
    <3>6. Living(owners)' = Living(owners')
      BY <3>1 DEF Living, EnvLives, ConnLives, StmtLives
    <3>7. LeakFree(hdl)'
      BY <3>2, <3>3, <3>5, <3>6 DEF LeakFree
    <3> QED BY <1>0, <3>4, <3>7 DEF TrueInv
  <2> QED BY <1>1, <2>1, <2>2 DEF EnvironmentStep
<1>2. CASE \E c \in Conns : ConnectionStep(c)
  BY <1>0, <1>2, ConnectionTrue
<1>3. CASE \E c \in Conns, s \in Stmts : QueryStep(c, s)
  BY <1>0, <1>3, QueryTrue
<1>4. ASSUME NEW s \in Stmts, StatementStep(s)
      PROVE  TrueInv'
  <2>0. Running /\ s \in Objects
    BY <1>4 DEF StatementStep, StatementExecute, StatementExecuteQuery, DestroyStatement,
                DestroyResultSet, Objects
  <2>1. CASE \E r : Returns(r)
    BY <1>0, <2>1, StaysTrue DEF Returns, handleVars
  <2>2. CASE DestroyStatement(s) \/ DestroyResultSet(s)
    <3>1. \E k \in {"statement", "result_set"} : Release(s, k, hdl, dead)
      BY <2>2 DEF DestroyStatement, DestroyResultSet
    <3>2. UNCHANGED connectionState
      BY <2>2 DEF DestroyStatement, DestroyResultSet
    <3> QED BY <1>0, <2>0, <3>1, <3>2, ReleaseTrue
  <2>3. CASE /\ owners[s] # {} /\ Gains(s, "result_set")
             /\ UNCHANGED <<hdl, parent_, dead, fault, connectionState>>
    <3>1. /\ \A o \in Objects : owners'[o] # {} <=> owners[o] # {}
          /\ \A o \in Objects : owners[o] \subseteq owners'[o]
      BY <2>0, <2>3 DEF Gains, TrueInv, SafeInv, TypeOK, HandlesTypeOK
    <3>2. Living(owners)' = Living(owners)
      BY <2>3, <3>1 DEF Living, EnvLives, ConnLives, StmtLives, Objects
    <3>3. Link(hdl, owners, connected_, cancelled_, dead)' /\ LeakFree(hdl)'
      BY <2>3, <3>1, <3>2 DEF TrueInv, Link, LeakFree, connectionState, Objects
    <3> QED BY <1>0, <3>3 DEF TrueInv
  <2> QED BY <1>4, <2>1, <2>2, <2>3
          DEF StatementStep, StatementExecute, StatementExecuteQuery, Holds
<1> QED BY <1>a, <1>1, <1>2, <1>3, <1>4 DEF Next

-----------------------------------------------------------------------------
(* TrueInv where the conditions hold, with the SafeInv that always does.   *)
TruthInv == SafeInv /\ (WellBehaved => TrueInv)

LEMMA Truth == Spec => []TruthInv
<1>1. Init => TruthInv
  BY TrueInit, SafeInit DEF TruthInv
<1>2. TruthInv /\ [Next]_vars => TruthInv'
  <2> SUFFICES ASSUME TruthInv, [Next]_vars PROVE TruthInv'
    OBVIOUS
  <2>1. SafeInv'
    BY SafeStep DEF TruthInv
  <2>2. world' = world
    BY DEF Next, vars
  <2>3. WellBehaved' => WellBehaved
    BY <2>2 DEF WellBehaved, Faults
  <2> QED BY <2>1, <2>3, TrueStep DEF TruthInv
<1> QED BY <1>1, <1>2, PTL DEF Spec

(* connected() never lies: it is true exactly while the driver holds an    *)
(* open connection (sync/connection.hpp:68), for a program that does not   *)
(* use connect(std::string) and a driver whose SQLDisconnect succeeds.     *)
THEOREM ConnectedTellsTheTruth == Spec => []ConnectedIsTruthful
<1>1. TruthInv => ConnectedIsTruthful
  BY DEF TruthInv, TrueInv, Link, ConnectedIsTruthful
<1> QED BY <1>1, Truth, PTL

(* No handle is lost: what shared_ptr and children_dead_ leave behind of   *)
(* an object is nothing (handles.hpp:74-84), in any order of destruction   *)
(* and under the same two conditions.                                      *)
THEOREM NothingLeaks == Spec => []NoLeakedHandle
<1>1. TruthInv => NoLeakedHandle
  BY DEF TruthInv, TrueInv, LeakFree, NoLeakedHandle
<1> QED BY <1>1, Truth, PTL

(* children_dead() is true exactly for the statement handles that the      *)
(* driver has freed (handles.hpp:61-68), under the same two conditions.    *)
THEOREM DeadFlagIsExact == Spec => []ChildrenDeadIsExact
<1>1. TruthInv => ChildrenDeadIsExact
  <2> SUFFICES ASSUME TrueInv, Running, NEW s \in Stmts, owners[s] # {}, hdl[s] # "null"
               PROVE  ChildrenDead(dead, parent_[s]) <=> hdl[s] = "freed"
    BY DEF TruthInv, ChildrenDeadIsExact, DeadMeansFreed
  <2>1. parent_[s] \in Conns /\ hdl[s] \in StmtStates
    BY DEF TrueInv, SafeInv, TypeOK, HandlesTypeOK, TableOK
  <2>2. ChildrenDead(dead, parent_[s]) <=> dead[parent_[s]]
    BY DEF ChildrenDead, TrueInv, Link
  <2>3. hdl[s] \in {"alloc", "freed"}
    BY <2>1, TableFits DEF TrueInv, LivingTable, Living, StmtLives, StmtStates
  <2>4. hdl[s] = "freed" => dead[parent_[s]]
    BY TableFits DEF TrueInv, FreedTable
  <2>5. hdl[s] = "alloc" => ~dead[parent_[s]]
    BY <2>1 DEF TrueInv, SafeInv, TreeOK, Link
  <2> QED BY <2>2, <2>3, <2>4, <2>5
<1> QED BY <1>1, Truth, PTL

-----------------------------------------------------------------------------
(* SyncConnection implements Connection: the initial states map to initial *)
(* states, every step to a step of one abstract connection or to a         *)
(* stutter.                                                                *)

(* What the mapping says in any state, and in one the invariant allows.    *)

LifeOfFlags ==
    \A c \in Conns :
        Life(c) = IF ~ConnLives(owners, c) THEN "gone"
                  ELSE IF cancelled_[c] THEN "over"
                  ELSE IF connected_[c] THEN "open" ELSE "new"

LEMMA LifeFollowsFlags == LifeOfFlags
<1>1. \A c \in Conns : c \in Living(owners) <=> ConnLives(owners, c)
  BY ObjectsAreDistinct DEF Living
<1> QED BY <1>1 DEF Life, LifeOfFlags

OpenIsConnected ==
    \A c \in Conns :
        /\ Life(c) = "open" <=> connected_[c]
        /\ Life(c) = "open" <=> hdl[c] = "conn"
        /\ Life(c) # "open" => Usable(c) = {}

LEMMA OpenMeansConnected == TrueInv => OpenIsConnected
<1> SUFFICES ASSUME TrueInv, NEW c \in Conns
             PROVE  /\ Life(c) = "open" <=> connected_[c]
                    /\ Life(c) = "open" <=> hdl[c] = "conn"
                    /\ Life(c) # "open" => Usable(c) = {}
  BY DEF OpenIsConnected
<1>1. (connected_[c] <=> hdl[c] = "conn") /\ (cancelled_[c] => hdl[c] # "conn")
  BY DEF TrueInv, Link
<1>2. connected_[c] => ConnLives(owners, c)
  BY DEF TrueInv, Link, ConnLives
<1>3. Life(c) = "open" <=> connected_[c]
  BY <1>1, <1>2, LifeFollowsFlags DEF LifeOfFlags
<1>4. hdl[c] # "conn" => Usable(c) = {}
  BY DEF Usable, TrueInv, SafeInv, TreeOK
<1> QED BY <1>1, <1>3, <1>4

(* The same of the next state.                                             *)
LEMMA NextMapping == LifeOfFlags' /\ (TrueInv' => OpenIsConnected')
<1>1. LifeOfFlags'
  BY LifeFollowsFlags, PTL
<1>2. TrueInv' => OpenIsConnected'
  BY OpenMeansConnected, PTL
<1> QED BY <1>1, <1>2

-----------------------------------------------------------------------------
(* A step that changes the life of connection c in one of these ways, and  *)
(* no other connection, is a step of Connection.                           *)

LifeMoves(c) ==
    \/ Life(c)' = Life(c)
    \/ Life(c) = "gone" /\ Life(c)' = "new"
    \/ Life(c) = "new" /\ Life(c)' = "open" /\ Usable(c)' = Usable(c)
    \/ Life(c) = "open" /\ Life(c)' = "over"
    \/ Life(c)' = "gone"

Stays(d) == Life(d)' = Life(d) /\ Usable(d)' = Usable(d)

LEMMA OneMoves ==
    ASSUME TrueInv, TrueInv', WellBehaved' = WellBehaved, NEW c \in Conns, LifeMoves(c),
           \A d \in Conns \ {c} : Stays(d)
    PROVE  [C!Next]_C!vars
<1> DEFINE life == [d \in Conns |-> Life(d)]
           session == [d \in Conns |-> hdl[d] = "conn"]
           usable == [d \in Conns |-> Usable(d)]
           life2 == [d \in Conns |-> Life(d)']
           session2 == [d \in Conns |-> (hdl[d] = "conn")']
           usable2 == [d \in Conns |-> Usable(d)']
<1>1. \A d \in Conns : /\ session[d] = (life[d] = "open")
                       /\ life[d] # "open" => usable[d] = {}
                       /\ life[d] \in {"gone", "new", "open", "over"}
                       /\ usable[d] \in SUBSET Stmts
  BY OpenMeansConnected, LifeFollowsFlags DEF OpenIsConnected, LifeOfFlags, Usable
<1>2. \A d \in Conns : /\ session2[d] = (life2[d] = "open")
                       /\ life2[d] # "open" => usable2[d] = {}
                       /\ usable2[d] \in SUBSET Stmts
  BY NextMapping DEF OpenIsConnected, Usable
<1>3. \A d \in Conns \ {c} : life2[d] = life[d] /\ usable2[d] = usable[d]
  BY DEF Stays
<1>4. \/ life2[c] = life[c]
      \/ life[c] = "gone" /\ life2[c] = "new"
      \/ life[c] = "new" /\ life2[c] = "open" /\ usable2[c] = usable[c]
      \/ life[c] = "open" /\ life2[c] = "over"
      \/ life2[c] = "gone"
  BY DEF LifeMoves
<1> HIDE DEF life, session, usable, life2, session2, usable2
<1>5. /\ life = [d \in Conns |-> life[d]] /\ life2 = [d \in Conns |-> life2[d]]
      /\ session = [d \in Conns |-> session[d]] /\ session2 = [d \in Conns |-> session2[d]]
      /\ usable = [d \in Conns |-> usable[d]] /\ usable2 = [d \in Conns |-> usable2[d]]
  BY DEF life, session, usable, life2, session2, usable2
<1>6. /\ life2 = [life EXCEPT ![c] = life2[c]]
      /\ usable2 = [usable EXCEPT ![c] = usable2[c]]
      /\ usable2 \in [Conns -> SUBSET Stmts]
  BY <1>2, <1>3, <1>5
<1>7. session2 = [session EXCEPT ![c] = session2[c]]
  BY <1>1, <1>2, <1>3, <1>5
<1>8. CASE life2[c] = life[c]
  <2>1. life2 = life /\ session2 = session
    BY <1>1, <1>2, <1>3, <1>5, <1>8
  <2>2. CASE life[c] = "open"
    <3>1. C!ChangeStatements(c)
      BY <1>3, <1>6, <2>1, <2>2
         DEF C!ChangeStatements, life, session, usable, life2, session2, usable2
    <3> QED BY <3>1 DEF C!Next
  <2>3. CASE life[c] # "open"
    <3>1. usable2 = usable
      BY <1>1, <1>2, <1>3, <1>5, <1>8, <2>3
    <3> QED BY <2>1, <3>1 DEF C!vars, life, session, usable, life2, session2, usable2
  <2> QED BY <2>2, <2>3
<1>9. CASE life2[c] # life[c]
  <2>1. CASE life[c] = "gone" /\ life2[c] = "new"
    <3>1. session2 = session /\ usable2 = usable
      BY <1>1, <1>2, <1>3, <1>5, <2>1
    <3>2. C!Create(c)
      BY <1>6, <2>1, <3>1 DEF C!Create, C!Moves, life, session, usable, life2, session2, usable2
    <3> QED BY <3>2 DEF C!Next
  <2>2. CASE life[c] = "new" /\ life2[c] = "open" /\ usable2[c] = usable[c]
    <3>1. usable2 = usable /\ session2[c] = TRUE
      BY <1>2, <1>3, <1>5, <2>2
    <3>2. C!Open(c)
      BY <1>6, <1>7, <2>2, <3>1 DEF C!Open, C!Moves, life, session, usable, life2, session2, usable2
    <3> QED BY <3>2 DEF C!Next
  <2>3. CASE life[c] = "open" /\ life2[c] = "over"
    <3>1. usable2[c] = {} /\ session2[c] = FALSE
      BY <1>2, <2>3
    <3>2. C!Close(c)
      BY <1>1, <1>6, <1>7, <2>3, <3>1 DEF C!Close, C!Ends, C!Moves, life, session, usable, life2, session2, usable2
    <3> QED BY <3>2 DEF C!Next
  <2>4. CASE life[c] # "gone" /\ life2[c] = "gone"
    <3>1. usable2[c] = {} /\ session2[c] = FALSE
      BY <1>2, <2>4
    <3>2. C!Drop(c)
      BY <1>1, <1>6, <1>7, <2>4, <3>1 DEF C!Drop, C!Ends, C!Moves, life, session, usable, life2, session2, usable2
    <3> QED BY <3>2 DEF C!Next
  <2> QED BY <1>4, <1>9, <2>1, <2>2, <2>3, <2>4
<1> QED BY <1>8, <1>9

-----------------------------------------------------------------------------
(* What a step must leave alone for a connection to stay as it is.         *)

LEMMA FrameStays ==
    ASSUME NEW d \in Conns,
           connected_'[d] = connected_[d], cancelled_'[d] = cancelled_[d],
           owners'[d] # {} <=> owners[d] # {},
           \A s \in Stmts : owners'[s] # {} /\ parent_'[s] = d
                              <=> owners[s] # {} /\ parent_[s] = d,
           \A s \in Stmts : owners'[s] # {} /\ parent_'[s] = d => hdl'[s] = hdl[s]
    PROVE  Stays(d)
<1>1. ConnLives(owners, d)' <=> ConnLives(owners, d)
  BY DEF ConnLives, StmtLives
<1>2. Life(d)' = Life(d)
  BY <1>1, LifeFollowsFlags, NextMapping DEF LifeOfFlags
<1>3. Usable(d)' = Usable(d)
  BY DEF Usable
<1> QED BY <1>2, <1>3 DEF Stays

LEMMA AllStay ==
    ASSUME TrueInv, TrueInv', WellBehaved' = WellBehaved, \A d \in Conns : Stays(d)
    PROVE  [C!Next]_C!vars
<1>1. \A d \in Conns : (hdl[d] = "conn")' = (hdl[d] = "conn")
  BY OpenMeansConnected, NextMapping DEF OpenIsConnected, Stays
<1> QED BY <1>1 DEF Stays, C!vars

(* A step that leaves flags, owners and parents of living statements as    *)
(* they are, and their handles.                                            *)
LEMMA NothingStirs ==
    ASSUME TrueInv, TrueInv', WellBehaved' = WellBehaved,
           UNCHANGED connectionState,
           \A c \in Conns : owners'[c] # {} <=> owners[c] # {},
           \A s \in Stmts :
                /\ owners'[s] # {} <=> owners[s] # {}
                /\ owners[s] # {} => parent_'[s] = parent_[s] /\ hdl'[s] = hdl[s]
    PROVE  [C!Next]_C!vars
<1>1. ASSUME NEW d \in Conns
      PROVE  Stays(d)
  BY <1>1, FrameStays DEF connectionState
<1> QED BY <1>1, AllStay

-----------------------------------------------------------------------------
(* Letting go of an object: other objects keep their owners, and what lives *)
(* on keeps its handle.                                                    *)
LEMMA ReleaseKeeps ==
    ASSUME HandlesTypeOK, NEW o \in Objects, NEW k, NEW t, TableOK(t), NEW d,
           Release(o, k, t, d)
    PROVE  /\ parent_' = parent_
           /\ \A x \in Objects \ {o} : owners'[x] = owners[x]
           /\ owners'[o] \subseteq owners[o]
           /\ \A s \in Stmts : owners'[s] # {} => hdl'[s] = t[s]
<1> DEFINE own == Without(o, k)
           D   == Living(owners) \ Living(own)
<1>1. owners' = own /\ hdl' = Destroyed(t, d, D) /\ parent_' = parent_
  BY DEF Release
<1>2. (\A x \in Objects \ {o} : own[x] = owners[x]) /\ own[o] \subseteq owners[o]
  BY DEF Without, HandlesTypeOK
<1>3. \A s \in Stmts : own[s] # {} => s \in Objects \ D
  BY DEF Living, StmtLives, Objects
<1> QED BY <1>1, <1>2, <1>3, DestroyedTable

(* It moves the life of one connection at most, to its end: that of the    *)
(* object itself, or of the parent of the last owner of a statement.       *)
LEMMA ReleaseRefines ==
    ASSUME TrueInv, TrueInv', WellBehaved' = WellBehaved, NEW o \in Objects, NEW k,
           Release(o, k, hdl, dead), UNCHANGED connectionState
    PROVE  [C!Next]_C!vars
<1>0. HandlesTypeOK /\ TableOK(hdl) /\ Conns \subseteq Objects /\ Stmts \subseteq Objects
  BY DEF TrueInv, SafeInv, TypeOK, HandlesTypeOK, Objects
<1>1. /\ parent_' = parent_
      /\ \A x \in Objects \ {o} : owners'[x] = owners[x]
      /\ owners'[o] \subseteq owners[o]
      /\ \A s \in Stmts : owners'[s] # {} => hdl'[s] = hdl[s]
  BY <1>0, ReleaseKeeps
<1>2. \A x \in Objects : owners'[x] # {} => owners[x] # {}
  BY <1>1
<1>3. ASSUME NEW c \in Conns
      PROVE  LifeMoves(c)
  <2>1. ConnLives(owners, c)' => ConnLives(owners, c)
    BY <1>0, <1>1, <1>2 DEF ConnLives, StmtLives
  <2>2. Life(c)' = Life(c) \/ Life(c)' = "gone"
    BY <2>1, LifeFollowsFlags, NextMapping DEF LifeOfFlags, connectionState
  <2> QED BY <2>2 DEF LifeMoves
<1>4. ASSUME NEW d \in Conns, d # o, o \in Stmts => (parent_[o] # d \/ owners[o] = {})
      PROVE  Stays(d)
  <2>1. owners'[d] = owners[d]
    BY <1>0, <1>1, <1>4
  <2>2. \A s \in Stmts : owners'[s] # {} /\ parent_'[s] = d
                            <=> owners[s] # {} /\ parent_[s] = d
    BY <1>0, <1>1, <1>2, <1>4
  <2> QED BY <1>1, <1>4, <2>1, <2>2, FrameStays DEF connectionState
<1>5. CASE o = Env
  <2>1. \A d \in Conns : Stays(d)
    BY <1>4, <1>5, ObjectsAreDistinct
  <2> QED BY <2>1, AllStay
<1>6. CASE o \in Conns
  <2>1. \A d \in Conns \ {o} : Stays(d)
    BY <1>4, <1>6, ObjectsAreDistinct
  <2> QED BY <1>3, <1>6, <2>1, OneMoves
<1>7. CASE o \in Stmts /\ owners[o] = {}
  <2>1. \A d \in Conns : Stays(d)
    BY <1>4, <1>7, ObjectsAreDistinct
  <2> QED BY <2>1, AllStay
<1>8. CASE o \in Stmts /\ owners[o] # {}
  <2>1. parent_[o] \in Conns
    BY <1>0, <1>8 DEF HandlesTypeOK
  <2>2. \A d \in Conns \ {parent_[o]} : Stays(d)
    BY <1>4, <1>8, ObjectsAreDistinct
  <2> QED BY <1>3, <2>1, <2>2, OneMoves
<1> QED BY <1>5, <1>6, <1>7, <1>8 DEF Objects

-----------------------------------------------------------------------------
(* The steps.                                                              *)

LEMMA DestroyConnectionRefines ==
    ASSUME WellBehaved, TrueInv, TrueInv', WellBehaved' = WellBehaved, NEW c \in Conns,
           DestroyConnection(c), connected_[c], ~Aborts
    PROVE  [C!Next]_C!vars
<1>0. /\ Running /\ c \in Objects /\ HandlesTypeOK
      /\ Conns \subseteq Objects /\ Stmts \subseteq Objects /\ c \notin Stmts
      /\ connected_ \in [Conns -> BOOLEAN] /\ cancelled_ \in [Conns -> BOOLEAN]
  BY ObjectsAreDistinct DEF DestroyConnection, Objects, TrueInv, SafeInv, TypeOK
<1>1. PICK r \in DriverDisconnect(c) :
        Release(c, "connection", TableAfterDisconnect(r, owners, c),
                mark_children_dead(dead, c))
  BY DEF DestroyConnection
<1> DEFINE t == TableAfterDisconnect(r, owners, c)
           d == mark_children_dead(dead, c)
<1>2. /\ connected_' = [connected_ EXCEPT ![c] = FALSE]
      /\ cancelled_' = [cancelled_ EXCEPT ![c] = TRUE]
  BY DEF DestroyConnection
<1>3. TableOK(t)
  BY <1>0, DisconnectedFits DEF TrueInv, SafeInv, TypeOK
<1>4. \A s \in Stmts : parent_[s] # c => t[s] = hdl[s]
  BY <1>0 DEF TableAfterDisconnect, DisconnectTable
<1>5. Release(c, "connection", t, d)
  BY <1>1
<1> HIDE DEF t, d
<1>6. /\ parent_' = parent_
      /\ \A x \in Objects \ {c} : owners'[x] = owners[x]
      /\ \A s \in Stmts : owners'[s] # {} => hdl'[s] = t[s]
  <2>1. HandlesTypeOK /\ c \in Objects
    BY <1>0
  <2> QED BY ONLY <1>3, <1>5, <2>1, ReleaseKeeps
<1>7. LifeMoves(c)
  <2>1. Life(c) = "open"
    BY OpenMeansConnected DEF OpenIsConnected
  <2>2. Life(c)' \in {"over", "gone"}
    BY <1>0, <1>2, NextMapping DEF LifeOfFlags
  <2> QED BY <2>1, <2>2 DEF LifeMoves
<1>8. ASSUME NEW x \in Conns \ {c}
      PROVE  Stays(x)
  <2>1. connected_'[x] = connected_[x] /\ cancelled_'[x] = cancelled_[x]
    BY <1>0, <1>2
  <2>2. owners'[x] = owners[x] /\ \A s \in Stmts : owners'[s] = owners[s]
    BY <1>0, <1>6
  <2>3. \A s \in Stmts : owners'[s] # {} /\ parent_'[s] = x => hdl'[s] = hdl[s]
    BY <1>4, <1>6
  <2> QED BY <1>6, <2>1, <2>2, <2>3, FrameStays
<1> QED BY <1>7, <1>8, OneMoves

LEMMA ConnectionRefines ==
    ASSUME WellBehaved, TrueInv, TrueInv', WellBehaved' = WellBehaved, NEW c \in Conns,
           ConnectionStep(c)
    PROVE  [C!Next]_C!vars
<1>0. /\ c \in Objects /\ c \notin Stmts /\ c # Env /\ Running
      /\ Conns \subseteq Objects /\ Stmts \subseteq Objects
      /\ HandlesTypeOK /\ TableOK(hdl) /\ owners \in [Objects -> SUBSET OwnerKinds]
      /\ connected_ \in [Conns -> BOOLEAN] /\ cancelled_ \in [Conns -> BOOLEAN]
  BY ObjectsAreDistinct
     DEF Objects, ConnectionStep, NewConnection, Connect, ConnectVoid, Disconnect,
         DestroyConnection, TrueInv, SafeInv, TypeOK, HandlesTypeOK
<1>a. CASE Aborts \/ \E r : Returns(r)
  BY <1>a, NothingStirs DEF Aborts, Returns, handleVars, connectionState
<1>1. CASE NewConnection(c)
  <2>1. Life(c) = "gone"
    <3>1. c \notin Living(owners)
      BY <1>0, <1>1, TableFits DEF NewConnection, TrueInv, LivingTable
    <3> QED BY <3>1 DEF Life
  <2>2. /\ owners' = [owners EXCEPT ![c] = @ \cup {"connection"}]
        /\ connected_' = [connected_ EXCEPT ![c] = FALSE]
        /\ cancelled_' = [cancelled_ EXCEPT ![c] = FALSE]
        /\ parent_' = parent_ /\ \E h : hdl' = [hdl EXCEPT ![c] = h]
    BY <1>1 DEF NewConnection, Gains
  <2>3. Life(c)' = "new"
    <3>1. owners'[c] # {} /\ ~connected_'[c] /\ ~cancelled_'[c]
      BY <1>0, <2>2
    <3> QED BY <3>1, NextMapping DEF LifeOfFlags, ConnLives
  <2>4. ASSUME NEW d \in Conns \ {c}
        PROVE  Stays(d)
    <3>1. \A x \in Objects \ {c} : owners'[x] = owners[x] /\ hdl'[x] = hdl[x]
      BY <1>0, <2>2 DEF TableOK
    <3>2. connected_'[d] = connected_[d] /\ cancelled_'[d] = cancelled_[d]
      BY <1>0, <2>2
    <3> QED BY <1>0, <2>2, <3>1, <3>2, FrameStays
  <2> QED BY <2>1, <2>3, <2>4, OneMoves DEF LifeMoves
<1>2. CASE Connect(c) /\ ~Aborts /\ ~Returns("false")
  <2>1. PICK r \in DriverConnect(c) :
          /\ hdl' = IF r = "success" THEN [hdl EXCEPT ![c] = "conn"] ELSE hdl
          /\ connected_' = [connected_ EXCEPT ![c] = @ \/ ConnectedAfter(r)]
          /\ UNCHANGED <<parent_, owners, cancelled_>>
          /\ ~cancelled_[c] /\ "connection" \in owners[c]
    BY <1>2 DEF Connect, RefusesConnect, Holds
  <2>2. CASE r # "success"
    <3>1. hdl' = hdl /\ connected_' = connected_
      BY <1>0, <2>1, <2>2 DEF ConnectedAfter
    <3> QED BY <2>1, <3>1, NothingStirs DEF connectionState
  <2>3. CASE r = "success"
    <3>1. /\ hdl' = [hdl EXCEPT ![c] = "conn"]
          /\ connected_' = [connected_ EXCEPT ![c] = TRUE]
      BY <1>0, <2>1, <2>3 DEF ConnectedAfter
    <3>2. \A s \in Stmts : hdl'[s] = hdl[s]
      BY <1>0, <3>1 DEF TableOK
    <3>3. Life(c) = "new"
      <4>1. hdl[c] # "conn"
        BY <2>3 DEF DriverConnect
      <4>2. ~connected_[c] /\ ConnLives(owners, c)
        BY <2>1, <4>1 DEF TrueInv, Link, ConnLives
      <4> QED BY <2>1, <4>2, LifeFollowsFlags DEF LifeOfFlags
    <3>4. Life(c)' = "open"
      <4>1. connected_'[c]
        BY <1>0, <3>1
      <4> QED BY <4>1, NextMapping DEF OpenIsConnected
    <3>5. Usable(c)' = Usable(c)
      BY <2>1, <3>2 DEF Usable
    <3>6. ASSUME NEW d \in Conns \ {c}
          PROVE  Stays(d)
      <4>1. connected_'[d] = connected_[d]
        BY <1>0, <3>1
      <4> QED BY <2>1, <3>2, <4>1, FrameStays
    <3> QED BY <3>3, <3>4, <3>5, <3>6, OneMoves DEF LifeMoves
  <2> QED BY <2>2, <2>3
<1>3. CASE Disconnect(c) /\ ~Aborts /\ ~Returns("void")
  <2>1. PICK r \in DriverDisconnect(c) : hdl' = TableAfterDisconnect(r, owners, c)
    BY <1>3 DEF Disconnect
  <2>2. /\ connected_[c] /\ UNCHANGED <<parent_, owners>>
        /\ connected_' = [connected_ EXCEPT ![c] = FALSE]
        /\ cancelled_' = [cancelled_ EXCEPT ![c] = TRUE]
    BY <1>3 DEF Disconnect
  <2>3. Life(c) = "open"
    BY <2>2, OpenMeansConnected DEF OpenIsConnected
  <2>4. Life(c)' \in {"over", "gone"}
    BY <1>0, <2>2, NextMapping DEF LifeOfFlags
  <2>5. \A s \in Stmts : parent_[s] # c => hdl'[s] = hdl[s]
    BY <1>0, <2>1 DEF TableAfterDisconnect, DisconnectTable
  <2>6. ASSUME NEW d \in Conns \ {c}
        PROVE  Stays(d)
    <3>1. connected_'[d] = connected_[d] /\ cancelled_'[d] = cancelled_[d]
      BY <1>0, <2>2
    <3> QED BY <2>2, <2>5, <3>1, FrameStays
  <2> QED BY <2>3, <2>4, <2>6, OneMoves DEF LifeMoves
<1>4. CASE DestroyConnection(c) /\ ~connected_[c] /\ ~Aborts
  <2>1. Release(c, "connection", hdl, dead) /\ UNCHANGED connectionState
    BY <1>4 DEF DestroyConnection
  <2> QED BY <1>0, <2>1, ReleaseRefines
<1>5. CASE DestroyConnection(c) /\ connected_[c] /\ ~Aborts
  BY <1>5, DestroyConnectionRefines
<1>6. ~ConnectVoid(c)
  BY DEF ConnectVoid, WellBehaved
<1> QED BY <1>a, <1>1, <1>2, <1>3, <1>4, <1>5, <1>6 DEF ConnectionStep

(* A new statement is one more that its open connection has; one that      *)
(* lived for a single call was never seen.                                 *)
LEMMA QueryRefines ==
    ASSUME TrueInv, TrueInv', WellBehaved' = WellBehaved, NEW c \in Conns, NEW s \in Stmts,
           QueryStep(c, s)
    PROVE  [C!Next]_C!vars
<1>0. /\ s \in Objects /\ s \notin Conns /\ Running
      /\ owners[c] # {} /\ hdl[s] = "unused"
      /\ TableOK(hdl) /\ Conns \subseteq Objects /\ Stmts \subseteq Objects
      /\ owners \in [Objects -> SUBSET OwnerKinds] /\ parent_ \in [Stmts -> Conns \cup {NoConn}]
  BY ObjectsAreDistinct
     DEF Objects, QueryStep, CreateStatement, Execute, ExecuteQuery, Unused, Holds,
         TrueInv, SafeInv, TypeOK, HandlesTypeOK
<1>1. owners[s] = {}
  BY <1>0, TableFits DEF TrueInv, LivingTable, Living, StmtLives
<1>a. CASE Aborts \/ \E r : Returns(r)
  BY <1>a, NothingStirs DEF Aborts, Returns, handleVars, connectionState
<1>2. CASE \E h, r : TransientEnds(s, c, h, r)
  <2>1. PICK h, r : TransientEnds(s, c, h, r)
    BY <1>2
  <2>2. /\ UNCHANGED <<owners, connectionState>>
        /\ \A x \in Stmts \ {s} : hdl'[x] = hdl[x] /\ parent_'[x] = parent_[x]
    BY <1>0, <2>1 DEF TransientEnds, TableOK, connectionState
  <2> QED BY <1>1, <2>2, NothingStirs
<1>3. CASE \E h, k : /\ hdl' = [hdl EXCEPT ![s] = h]
                     /\ parent_' = [parent_ EXCEPT ![s] = c]
                     /\ Gains(s, k)
                     /\ UNCHANGED <<dead, connectionState>>
  <2>1. /\ UNCHANGED connectionState /\ parent_'[s] = c
        /\ \A x \in Objects \ {s} : hdl'[x] = hdl[x] /\ owners'[x] = owners[x]
        /\ \A x \in Stmts \ {s} : parent_'[x] = parent_[x]
    BY <1>0, <1>3 DEF Gains, TableOK
  <2>2. LifeMoves(c)
    <3>1. ConnLives(owners, c) /\ ConnLives(owners, c)'
      BY <1>0, <2>1 DEF ConnLives
    <3>2. Life(c)' = Life(c)
      BY <2>1, <3>1, LifeFollowsFlags, NextMapping DEF LifeOfFlags, connectionState
    <3> QED BY <3>2 DEF LifeMoves
  <2>3. ASSUME NEW d \in Conns \ {c}
        PROVE  Stays(d)
    <3>1. \A x \in Stmts : owners'[x] # {} /\ parent_'[x] = d
                              <=> owners[x] # {} /\ parent_[x] = d
      BY <1>0, <1>1, <2>1
    <3>2. \A x \in Stmts : parent_'[x] = d => hdl'[x] = hdl[x]
      BY <1>0, <2>1
    <3> QED BY <1>0, <2>1, <3>1, <3>2, FrameStays DEF connectionState
  <2> QED BY <2>2, <2>3, OneMoves
<1> QED BY <1>a, <1>2, <1>3 DEF QueryStep, CreateStatement, Execute, ExecuteQuery

LEMMA StatementRefines ==
    ASSUME TrueInv, TrueInv', WellBehaved' = WellBehaved, NEW s \in Stmts, StatementStep(s)
    PROVE  [C!Next]_C!vars
<1>0. s \in Objects /\ owners \in [Objects -> SUBSET OwnerKinds]
      /\ Conns \subseteq Objects /\ Stmts \subseteq Objects
  BY DEF Objects, TrueInv, SafeInv, TypeOK, HandlesTypeOK
<1>1. CASE \E r : Returns(r)
  BY <1>1, NothingStirs DEF Returns, handleVars, connectionState
<1>2. CASE DestroyStatement(s) \/ DestroyResultSet(s)
  BY <1>0, <1>2, ReleaseRefines DEF DestroyStatement, DestroyResultSet
<1>3. CASE /\ owners[s] # {} /\ Gains(s, "result_set")
           /\ UNCHANGED <<hdl, parent_, connectionState>>
  <2>1. \A o \in Objects : owners'[o] # {} <=> owners[o] # {}
    BY <1>0, <1>3 DEF Gains
  <2> QED BY <1>0, <1>3, <2>1, NothingStirs
<1> QED BY <1>1, <1>2, <1>3
        DEF StatementStep, StatementExecute, StatementExecuteQuery, Holds

LEMMA EnvironmentRefines ==
    ASSUME TrueInv, TrueInv', WellBehaved' = WellBehaved, EnvironmentStep
    PROVE  [C!Next]_C!vars
<1>0. /\ Env \in Objects /\ Conns \subseteq Objects /\ Stmts \subseteq Objects
      /\ Env \notin Conns /\ Env \notin Stmts
      /\ TableOK(hdl) /\ owners \in [Objects -> SUBSET OwnerKinds]
  BY ObjectsAreDistinct DEF Objects, TrueInv, SafeInv, TypeOK, HandlesTypeOK
<1>1. CASE DestroyEnvironment
  BY <1>0, <1>1, ReleaseRefines DEF DestroyEnvironment
<1>2. CASE NewEnvironment \/ InitEnvironment
  <2>1. /\ \E h : hdl' = [hdl EXCEPT ![Env] = h]
        /\ owners' = owners \/ Gains(Env, "environment")
        /\ UNCHANGED <<parent_, connectionState>>
    BY <1>2 DEF NewEnvironment, InitEnvironment
  <2>2. \A o \in Objects \ {Env} : hdl'[o] = hdl[o] /\ owners'[o] = owners[o]
    BY <1>0, <2>1 DEF Gains, TableOK
  <2> QED BY <1>0, <2>1, <2>2, NothingStirs
<1> QED BY <1>1, <1>2 DEF EnvironmentStep

-----------------------------------------------------------------------------
LEMMA InitRefines == Init => C!Init
<1> SUFFICES ASSUME Init PROVE C!Init
  OBVIOUS
<1>1. \A o \in Objects : owners[o] = {} /\ hdl[o] = "unused"
  BY DEF Init, HandlesInit
<1>2. \A c \in Conns : Life(c) = "gone" /\ hdl[c] # "conn" /\ Usable(c) = {}
  BY <1>1, LifeFollowsFlags DEF LifeOfFlags, ConnLives, StmtLives, Usable, Objects
<1>3. WellBehaved \in BOOLEAN
  BY DEF WellBehaved
<1> QED BY <1>2, <1>3 DEF C!Init

LEMMA StepRefines ==
    ASSUME WellBehaved, TrueInv, TrueInv', [Next]_vars
    PROVE  [C!Next]_C!vars
<1>0. world' = world /\ WellBehaved' = WellBehaved
  BY DEF Next, vars, WellBehaved, Faults
<1>1. CASE UNCHANGED vars
  BY <1>0, <1>1, NothingStirs DEF vars, handleVars, connectionState
<1>2. CASE EnvironmentStep
  BY <1>0, <1>2, EnvironmentRefines
<1>3. CASE \E c \in Conns : ConnectionStep(c)
  BY <1>0, <1>3, ConnectionRefines
<1>4. CASE \E c \in Conns, s \in Stmts : QueryStep(c, s)
  BY <1>0, <1>4, QueryRefines
<1>5. CASE \E s \in Stmts : StatementStep(s)
  BY <1>0, <1>5, StatementRefines
<1> QED BY <1>1, <1>2, <1>3, <1>4, <1>5 DEF Next

(* sync/connection.hpp implements Connection for any number of connections *)
(* and statements: each is opened at most once, closed in the driver when  *)
(* it is over or its last object goes, and has usable statements only      *)
(* while it is open, under the conditions of WellBehaved.                  *)
THEOREM ImplementsConnection == Spec => IsConnection
<1>1. TruthInv /\ TruthInv' /\ [Next]_vars => [WellBehaved => C!Next]_C!vars
  <2> SUFFICES ASSUME TruthInv, TruthInv', [Next]_vars
               PROVE  [WellBehaved => C!Next]_C!vars
    OBVIOUS
  <2>1. CASE ~WellBehaved
    BY <2>1
  <2>2. CASE WellBehaved
    <3>1. WellBehaved'
      BY <2>2 DEF Next, vars, WellBehaved, Faults
    <3>2. [C!Next]_C!vars
      BY <2>2, <3>1, StepRefines DEF TruthInv
    <3> QED BY <3>2
  <2> QED BY <2>1, <2>2
<1> QED BY <1>1, InitRefines, Truth, PTL DEF Spec, IsConnection, C!Spec
=============================================================================
