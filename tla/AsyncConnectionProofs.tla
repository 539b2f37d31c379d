-------------------------- MODULE AsyncConnectionProofs --------------------------
(***************************************************************************)
(* What AsyncConnection promises, proved for every number of users, every  *)
(* build, program, compiler and driver; and that it implements Connection. *)
(***************************************************************************)
EXTENDS AsyncConnection, SequenceTheorems, TLAPS

(* The kinds of tasks that wait in the queue, that have not completed yet, *)
(* and that still have a frame.                                            *)
Works == running.step \in {"run", "mark"}

QueuedOps  == {t.op : t \in QueuedTasks}
PendingOps == QueuedOps \cup (IF Works THEN {running.op} ELSE {})
StrandOps  == QueuedOps \cup (IF running.step = "none" THEN {} ELSE {running.op})

(* The wrapper lives as long as something holds a reference to it, and a   *)
(* destructor's disconnect is posted only once it is gone, and only then.  *)
WrapperInv ==
    /\ wrapper <=> held \/ \E op \in StrandOps : HoldsSelf(op)
    /\ "drop" \in StrandOps => ~wrapper
    /\ connected_ => wrapper \/ "drop" \in PendingOps

(* The flags of the sync::connection and the driver's connection agree,    *)
(* but for the time between SQLDisconnect and mark_children_dead(), and    *)
(* for a connection that SQLDisconnect has failed to close.                *)
FlagsInv ==
    /\ connected_ => open \/ running.step = "mark"
    /\ running.step = "mark" => connected_
    /\ DriverDisconnects => (open => connected_ /\ ~cancelled_)
    /\ cancelled_ <=> dead \/ running.step = "mark"
    /\ ~(dead /\ connected_)
    /\ running.step = "mark" => running.op \in {"disconnect", "drop"}

(* A user waits for one task, and for none while it destroys a result set; *)
(* a destructor's disconnect may have no user.                             *)
Waits(t) ==
    /\ t.op # "drop" => t.user \in Users
    /\ t.user \in Users => pc[t.user] = "awaiting"

TasksInv ==
    /\ \A i \in 1 .. Len(queue) : Waits(queue[i])
    /\ \A i, j \in 1 .. Len(queue) : i # j => queue[i].user # queue[j].user
    /\ Works => /\ Waits(running)
                /\ \A i \in 1 .. Len(queue) : queue[i].user # running.user
    /\ \A u \in Users : rs[u] = "freeing" => pc[u] = "destroying"

(* Statements are alive while the driver's connection is open, and freed   *)
(* by its end; one that is to be made, for a program that asks, was asked  *)
(* of a connection that was open.                                          *)
StatementsInv ==
    /\ \A u \in Users : stmt[u] = "alloc" => open
    /\ \A u \in Users : stmt[u] = "freed" => cancelled_
    /\ asks /\ PendingOps \cap {"execute", "query"} # {} => connected_ \/ cancelled_

(* An orderly program has no result set when it lets go of the connection, *)
(* and none on its way out when it is closed.                              *)
OrderlyInv ==
    orderly =>
        /\ ~held => PendingOps \subseteq {"drop"} /\ \A u \in Users : rs[u] = "none"
        /\ \A u \in Users : rs[u] = "freeing" =>
            /\ stmt[u] # "freed"
            /\ PendingOps \cap {"disconnect", "drop"} = {}

FaultInv == OrderlyDestructorsNeverThrow /\ NoDanglingWrapper

ConnInv ==
    /\ TypeOK /\ WrapperInv /\ FlagsInv /\ TasksInv
    /\ StatementsInv /\ OrderlyInv /\ FaultInv
-----------------------------------------------------------------------------
(* The queue, as the invariant looks at it.                                *)

LEMMA OpsOfTasks ==
    /\ Closing <=> StrandOps \cap {"disconnect", "drop"} # {}
    /\ ConnectionExists <=> wrapper \/ "drop" \in StrandOps
    /\ (\E t \in StrandTasks : HoldsSelf(t.op)) <=> \E op \in StrandOps : HoldsSelf(op)
    /\ (\A t \in QueuedTasks : ~HoldsSelf(t.op)) <=> \A op \in QueuedOps : ~HoldsSelf(op)
<1>1. StrandOps = {t.op : t \in StrandTasks}
  BY DEF StrandOps, QueuedOps, StrandTasks
<1>2. /\ Closing <=> StrandOps \cap {"disconnect", "drop"} # {}
      /\ ConnectionExists <=> wrapper \/ "drop" \in StrandOps
  BY <1>1 DEF Closing, ConnectionExists
<1>3. (\E t \in StrandTasks : HoldsSelf(t.op)) <=> \E op \in StrandOps : HoldsSelf(op)
  BY <1>1
<1>4. (\A t \in QueuedTasks : ~HoldsSelf(t.op)) <=> \A op \in QueuedOps : ~HoldsSelf(op)
  BY DEF QueuedOps
<1> QED BY <1>2, <1>3, <1>4

LEMMA QueueStays == queue' = queue => QueuedOps' = QueuedOps
BY DEF QueuedOps, QueuedTasks

LEMMA SetOfAppended ==
    ASSUME NEW q \in Seq(Tasks), NEW t \in Tasks
    PROVE  ToSet(Append(q, t)) = ToSet(q) \cup {t}
<1>1. /\ Append(q, t) \in Seq(Tasks)
      /\ Len(q) \in Nat
      /\ DOMAIN Append(q, t) = 1 .. Len(q) + 1 /\ DOMAIN q = 1 .. Len(q)
      /\ \A i \in 1 .. Len(q) : Append(q, t)[i] = q[i]
      /\ Append(q, t)[Len(q) + 1] = t
  BY AppendProperties, LenProperties
<1>2. 1 .. Len(q) + 1 = (1 .. Len(q)) \cup {Len(q) + 1}
  BY <1>1
<1> QED BY <1>1, <1>2 DEF ToSet

LEMMA QueueGrows ==
    ASSUME queue \in Seq(Tasks), NEW op \in Ops, NEW user \in Users \cup {NoUser},
           queue' = Append(queue, [op |-> op, user |-> user])
    PROVE  /\ queue' \in Seq(Tasks)
           /\ QueuedOps' = QueuedOps \cup {op}
           /\ Len(queue) \in Nat /\ Len(queue') = Len(queue) + 1
           /\ \A i \in 1 .. Len(queue) : queue'[i] = queue[i]
           /\ queue'[Len(queue) + 1] = [op |-> op, user |-> user]
<1> DEFINE t == [op |-> op, user |-> user]
<1>1. t \in Tasks /\ t.op = op
  BY DEF Tasks
<1> HIDE DEF t
<1>2. ToSet(queue') = ToSet(queue) \cup {t}
  BY <1>1, SetOfAppended DEF t
<1>3. QueuedOps' = QueuedOps \cup {op}
  BY <1>1, <1>2 DEF QueuedOps, QueuedTasks
<1> QED BY <1>1, <1>3, AppendProperties, LenProperties DEF t

LEMMA QueueShrinks ==
    ASSUME queue \in Seq(Tasks), queue # << >>, queue' = Tail(queue)
    PROVE  /\ queue' \in Seq(Tasks)
           /\ Head(queue) = queue[1] /\ Head(queue) \in Tasks
           /\ QueuedOps = QueuedOps' \cup {Head(queue).op}
           /\ Len(queue) \in Nat \ {0} /\ Len(queue') = Len(queue) - 1
           /\ \A i \in 1 .. Len(queue') : queue'[i] = queue[i + 1]
<1>1. /\ queue' \in Seq(Tasks)
      /\ Head(queue) = queue[1] /\ Head(queue) \in Tasks
      /\ Len(queue) \in Nat \ {0} /\ Len(queue') = Len(queue) - 1
      /\ \A i \in 1 .. Len(queue') : queue'[i] = queue[i + 1]
      /\ DOMAIN queue = 1 .. Len(queue) /\ DOMAIN queue' = 1 .. Len(queue')
  BY HeadTailProperties, LenProperties, EmptySeq
<1>2. ToSet(queue) = ToSet(queue') \cup {Head(queue)}
  <2>1. ASSUME NEW i \in 1 .. Len(queue) PROVE queue[i] \in ToSet(queue') \cup {Head(queue)}
    <3>1. CASE i = 1
      BY <1>1, <3>1
    <3>2. CASE i # 1
      <4>1. i - 1 \in 1 .. Len(queue') /\ (i - 1) + 1 = i
        BY <1>1, <3>2
      <4> QED BY <1>1, <4>1 DEF ToSet
    <3> QED BY <3>1, <3>2
  <2>2. ASSUME NEW i \in 1 .. Len(queue') PROVE queue'[i] \in ToSet(queue)
    <3>1. i + 1 \in 1 .. Len(queue)
      BY <1>1
    <3> QED BY <1>1, <3>1 DEF ToSet
  <2>3. Head(queue) \in ToSet(queue)
    BY <1>1 DEF ToSet
  <2> QED BY <1>1, <2>1, <2>2, <2>3 DEF ToSet
<1> QED BY <1>1, <1>2 DEF QueuedOps, QueuedTasks
-----------------------------------------------------------------------------
LEMMA InitEstablishes == Init => ConnInv
<1> SUFFICES ASSUME Init PROVE ConnInv
  OBVIOUS
<1>1. QueuedOps = {} /\ Len(queue) = 0 /\ queue \in Seq(Tasks)
  BY EmptySeq DEF Init, QueuedOps, QueuedTasks, ToSet
<1>2. StrandOps = {} /\ PendingOps = {}
  BY <1>1 DEF Init, StrandOps, PendingOps, Works, NoTask
<1>3. TypeOK
  BY <1>1, WorldsAreWorlds DEF Init, TypeOK, NoTask, Ops, Steps
<1>4. WrapperInv /\ FlagsInv /\ TasksInv /\ StatementsInv /\ OrderlyInv /\ FaultInv
  BY <1>1, <1>2 DEF Init, NoTask, Works, WrapperInv, FlagsInv, DriverDisconnects, TasksInv, StatementsInv,
       OrderlyInv, FaultInv, OrderlyDestructorsNeverThrow, DestructorsNeverThrow, NoDanglingWrapper
<1> QED BY <1>3, <1>4 DEF ConnInv

(* A call puts a task of its user at the end of the queue.                 *)
LEMMA PostsKeeps ==
    ASSUME ConnInv, NEW u \in Users, NEW op \in Ops \ {"drop"}, Posts(u, op),
           op # "next" => held,
           op = "next" => rs[u] = "held",
           asks /\ op \in {"execute", "query"} => SeesConnected,
           orderly /\ op = "disconnect" => \A v \in Users : rs[v] # "freeing"
    PROVE  ConnInv'
<1>1. /\ UNCHANGED <<world, held, wrapper, connVars, stmt, rs, running, fault>>
      /\ pc[u] = "idle" /\ pc' = [pc EXCEPT ![u] = "awaiting"]
      /\ queue' = Append(queue, [op |-> op, user |-> u])
  BY DEF Posts
<1>2. TypeOK /\ queue \in Seq(Tasks) /\ pc \in [Users -> {"idle", "awaiting", "resumable", "destroying"}]
  BY DEF ConnInv, TypeOK
<1>3. /\ queue' \in Seq(Tasks)
      /\ QueuedOps' = QueuedOps \cup {op}
      /\ Len(queue) \in Nat /\ Len(queue') = Len(queue) + 1
      /\ \A i \in 1 .. Len(queue) : queue'[i] = queue[i]
      /\ queue'[Len(queue) + 1] = [op |-> op, user |-> u]
  BY <1>1, <1>2, QueueGrows
<1>4. Works' = Works
  BY <1>1 DEF Works
<1>5. StrandOps' = StrandOps \cup {op} /\ PendingOps' = PendingOps \cup {op}
  BY <1>1, <1>3, <1>4 DEF StrandOps, PendingOps
<1>6. TypeOK'
  BY <1>1, <1>2, <1>3 DEF TypeOK, world, connVars
<1>7. WrapperInv'
  BY <1>1, <1>5 DEF ConnInv, WrapperInv, HoldsSelf, connVars
<1>8. FlagsInv'
  BY <1>1 DEF ConnInv, FlagsInv, DriverDisconnects, connVars, world
<1>9. TasksInv'
  <2>1. \A t : Waits(t) => t.user # u
    BY <1>1 DEF Waits
  <2>2. \A t : Waits(t) => Waits(t)'
    BY <1>1, <1>2, <2>1 DEF Waits
  <2>3. \A i \in 1 .. Len(queue) : Waits(queue[i]) /\ queue[i].user # u
    BY <2>1 DEF ConnInv, TasksInv
  <2>4. \A i \in 1 .. Len(queue') :
            i \in 1 .. Len(queue) \/ (i = Len(queue) + 1 /\ i \notin 1 .. Len(queue))
    BY <1>3
  <2>5. ASSUME NEW i \in 1 .. Len(queue')
        PROVE  Waits(queue[i])'
    <3>1. CASE i \in 1 .. Len(queue)
      BY <1>3, <2>2, <2>3, <3>1 DEF Waits
    <3>2. CASE i = Len(queue) + 1
      BY <1>1, <1>2, <1>3, <3>2 DEF Waits
    <3> QED BY <2>4, <3>1, <3>2
  <2>6. \A i, j \in 1 .. Len(queue') : i # j => queue'[i].user # queue'[j].user
    BY <1>3, <2>3, <2>4 DEF ConnInv, TasksInv
  <2>7. Works' => /\ Waits(running)'
                  /\ \A i \in 1 .. Len(queue') : queue'[i].user # running'.user
    <3> SUFFICES ASSUME Works' PROVE /\ Waits(running)'
                                     /\ \A i \in 1 .. Len(queue') : queue'[i].user # running'.user
      OBVIOUS
    <3>1. Waits(running) /\ \A i \in 1 .. Len(queue) : queue[i].user # running.user
      BY <1>4 DEF ConnInv, TasksInv
    <3>2. running.user # u /\ running' = running
      BY <1>1, <2>1, <3>1
    <3>3. Waits(running)'
      BY <1>1, <1>2, <3>1, <3>2 DEF Waits
    <3> QED BY <1>3, <2>4, <3>1, <3>2, <3>3
  <2>8. \A v \in Users : rs'[v] = "freeing" => pc'[v] = "destroying"
    BY <1>1, <1>2 DEF ConnInv, TasksInv
  <2> QED BY <2>5, <2>6, <2>7, <2>8 DEF TasksInv
<1>10. StatementsInv'
  BY <1>1, <1>5 DEF ConnInv, StatementsInv, FlagsInv, DriverDisconnects, SeesConnected, connVars, world
<1>11. OrderlyInv'
  <2>1. orderly /\ ~held => FALSE
    BY DEF ConnInv, OrderlyInv
  <2> QED BY <1>1, <1>5, <2>1 DEF ConnInv, OrderlyInv, world
<1>12. FaultInv'
  BY <1>1 DEF ConnInv, FaultInv, OrderlyDestructorsNeverThrow, DestructorsNeverThrow,
       NoDanglingWrapper, world
<1> QED BY <1>6, <1>7, <1>8, <1>9, <1>10, <1>11, <1>12 DEF ConnInv

LEMMA CallKeeps ==
    ASSUME ConnInv, NEW u \in Users,
           \/ CallConnect(u) \/ CallExecute(u) \/ CallQuery(u) \/ CallNext(u)
           \/ CallDisconnect(u)
    PROVE  ConnInv'
<1>1. CASE CallConnect(u)
  BY <1>1, PostsKeeps DEF CallConnect, Ops
<1>2. CASE CallExecute(u)
  BY <1>2, PostsKeeps DEF CallExecute, Ops
<1>3. CASE CallQuery(u)
  BY <1>3, PostsKeeps DEF CallQuery, Ops
<1>4. CASE CallNext(u)
  BY <1>4, PostsKeeps DEF CallNext, Ops
<1>5. CASE CallDisconnect(u)
  BY <1>5, PostsKeeps DEF CallDisconnect, Ops
<1> QED BY <1>1, <1>2, <1>3, <1>4, <1>5

(* A step of a user who awaits nothing leaves the strand and the           *)
(* connection alone.                                                       *)
OnlyUser(u) ==
    /\ UNCHANGED <<world, held, wrapper, connVars, queue, running>>
    /\ pc[u] # "awaiting"
    /\ \E at \in {"idle", "destroying"} :
        /\ pc' = [pc EXCEPT ![u] = at]
        /\ rs'[u] = "freeing" => at = "destroying"
    /\ \A v \in Users \ {u} : rs'[v] = rs[v]

LEMMA OnlyUserKeeps ==
    ASSUME ConnInv, NEW u \in Users, OnlyUser(u)
    PROVE  /\ WrapperInv' /\ FlagsInv' /\ TasksInv'
           /\ StrandOps' = StrandOps /\ PendingOps' = PendingOps
<1>1. UNCHANGED <<world, held, wrapper, connVars, queue, running>>
  BY DEF OnlyUser
<1>2. QueuedOps' = QueuedOps /\ Works' = Works
  BY <1>1, QueueStays DEF Works
<1>3. StrandOps' = StrandOps /\ PendingOps' = PendingOps
  BY <1>1, <1>2 DEF StrandOps, PendingOps
<1>4. pc \in [Users -> {"idle", "awaiting", "resumable", "destroying"}]
  BY DEF ConnInv, TypeOK
<1>5. \A t : Waits(t) => Waits(t)'
  BY <1>4 DEF OnlyUser, Waits
<1>6. TasksInv'
  <2>1. \A v \in Users : rs'[v] = "freeing" => pc'[v] = "destroying"
    BY <1>4 DEF OnlyUser, ConnInv, TasksInv
  <2> QED BY <1>1, <1>2, <1>5, <2>1 DEF ConnInv, TasksInv, Waits
<1>7. WrapperInv' /\ FlagsInv'
  BY <1>1, <1>3 DEF ConnInv, WrapperInv, FlagsInv, DriverDisconnects, connVars, world
<1> QED BY <1>3, <1>6, <1>7

LEMMA ResumeKeeps == ASSUME ConnInv, NEW u \in Users, Resume(u) PROVE ConnInv'
<1>1. OnlyUser(u)
  BY DEF Resume, OnlyUser, ConnInv, TypeOK, TasksInv
<1>2. /\ WrapperInv' /\ FlagsInv' /\ TasksInv'
      /\ StrandOps' = StrandOps /\ PendingOps' = PendingOps
  BY <1>1, OnlyUserKeeps
<1>3. /\ UNCHANGED <<world, held, wrapper, connVars, stmt, queue, running>>
      /\ rs' = [rs EXCEPT ![u] = IF @ = "returned" THEN "held" ELSE @]
  BY DEF Resume
<1>4. rs \in [Users -> {"none", "returned", "held", "freeing"}]
  BY DEF ConnInv, TypeOK
<1>5. TypeOK'
  BY <1>3, <1>4 DEF ConnInv, TypeOK, Resume, world, connVars
<1>6. StatementsInv' /\ OrderlyInv'
  BY <1>2, <1>3, <1>4 DEF ConnInv, StatementsInv, OrderlyInv, world, connVars
<1>7. fault' # fault => fault' = "dangling" /\ await_first /\ ~orderly
  <2>1. orderly /\ rs[u] = "returned" => wrapper
    BY DEF ConnInv, OrderlyInv, TypeOK
  <2> QED BY <2>1 DEF Resume, UsesWrapperLate
<1>8. FaultInv'
  BY <1>3, <1>7 DEF ConnInv, FaultInv, OrderlyDestructorsNeverThrow, DestructorsNeverThrow,
       NoDanglingWrapper, world
<1> QED BY <1>2, <1>5, <1>6, <1>8 DEF ConnInv

LEMMA BeginDestroyKeeps ==
    ASSUME ConnInv, NEW u \in Users, BeginDestroyResultSet(u) PROVE ConnInv'
<1>1. OnlyUser(u)
  BY DEF BeginDestroyResultSet, OnlyUser, ConnInv, TypeOK
<1>2. /\ WrapperInv' /\ FlagsInv' /\ TasksInv'
      /\ StrandOps' = StrandOps /\ PendingOps' = PendingOps
  BY <1>1, OnlyUserKeeps
<1>3. /\ UNCHANGED <<world, held, wrapper, connVars, queue, running, fault>>
      /\ rs[u] = "held"
      /\ rs' = [rs EXCEPT ![u] = IF dead THEN "none" ELSE "freeing"]
      /\ stmt' = [stmt EXCEPT ![u] = IF dead THEN "none" ELSE stmt[u]]
      /\ orderly => ~Closing
  BY DEF BeginDestroyResultSet, SkipsFree
<1>4. /\ rs \in [Users -> {"none", "returned", "held", "freeing"}]
      /\ stmt \in [Users -> {"none", "alloc", "freed"}]
  BY DEF ConnInv, TypeOK
<1>5. TypeOK'
  BY <1>3, <1>4 DEF ConnInv, TypeOK, BeginDestroyResultSet, world, connVars
<1>6. StatementsInv'
  BY <1>2, <1>3, <1>4 DEF ConnInv, StatementsInv, connVars, world
<1>7. OrderlyInv'
  <2> SUFFICES ASSUME orderly PROVE OrderlyInv'
    BY <1>3 DEF OrderlyInv, world
  <2>1. StrandOps \cap {"disconnect", "drop"} = {}
    BY <1>3, OpsOfTasks
  <2>2. PendingOps \subseteq StrandOps
    BY DEF PendingOps, StrandOps, Works
  <2>3. held
    BY <1>3 DEF ConnInv, OrderlyInv
  <2>4. ~dead => stmt[u] # "freed"
    <3>1. running.step = "mark" => running.op \in StrandOps
      BY DEF StrandOps
    <3> QED BY <2>1, <3>1 DEF ConnInv, StatementsInv, FlagsInv, DriverDisconnects, world
  <2> QED BY <1>2, <1>3, <1>4, <2>1, <2>2, <2>3, <2>4 DEF ConnInv, OrderlyInv, world
<1>8. FaultInv'
  BY <1>3 DEF ConnInv, FaultInv, OrderlyDestructorsNeverThrow, DestructorsNeverThrow,
       NoDanglingWrapper, world
<1> QED BY <1>2, <1>5, <1>6, <1>7, <1>8 DEF ConnInv

LEMMA FreeStatementKeeps == ASSUME ConnInv, NEW u \in Users, FreeStatement(u) PROVE ConnInv'
<1>0. pc[u] # "awaiting"
  BY DEF ConnInv, TasksInv, FreeStatement
<1>1. OnlyUser(u)
  BY <1>0 DEF FreeStatement, OnlyUser, ConnInv, TypeOK
<1>2. /\ WrapperInv' /\ FlagsInv' /\ TasksInv'
      /\ StrandOps' = StrandOps /\ PendingOps' = PendingOps
  BY <1>1, OnlyUserKeeps
<1>3. /\ UNCHANGED <<world, held, wrapper, connVars, queue, running>>
      /\ rs[u] = "freeing"
      /\ fault' = IF stmt[u] = "freed" THEN "dtor_freed" ELSE fault
      /\ rs' = [rs EXCEPT ![u] = "none"]
      /\ stmt' = [stmt EXCEPT ![u] = "none"]
  BY DEF FreeStatement
<1>4. /\ rs \in [Users -> {"none", "returned", "held", "freeing"}]
      /\ stmt \in [Users -> {"none", "alloc", "freed"}]
  BY DEF ConnInv, TypeOK
<1>5. TypeOK'
  BY <1>3, <1>4 DEF ConnInv, TypeOK, FreeStatement, world, connVars
<1>6. StatementsInv' /\ OrderlyInv'
  BY <1>2, <1>3, <1>4 DEF ConnInv, StatementsInv, OrderlyInv, world, connVars
<1>7. FaultInv'
  BY <1>3 DEF ConnInv, OrderlyInv, FaultInv, OrderlyDestructorsNeverThrow, DestructorsNeverThrow,
       NoDanglingWrapper, world
<1> QED BY <1>2, <1>5, <1>6, <1>7 DEF ConnInv
-----------------------------------------------------------------------------
(* The connection is let go of: nothing, or the destructor's disconnect,   *)
(* in the dropping thread or behind the tasks of the strand.               *)
LEMMA DropKeeps == ASSUME ConnInv, NEW u \in Users, DropConnection(u) PROVE ConnInv'
<1> DEFINE last == ~wrapper' /\ connected_
<1>1. /\ UNCHANGED <<world, connVars, stmt, rs, fault>>
      /\ held /\ ~held' /\ pc[u] = "idle"
      /\ wrapper' = \E op \in StrandOps : HoldsSelf(op)
      /\ orderly => \A v \in Users : rs[v] = "none" /\ pc[v] = "idle"
  BY OpsOfTasks DEF DropConnection
<1>2. /\ wrapper /\ wrapper' \in BOOLEAN /\ "drop" \notin StrandOps
      /\ queue \in Seq(Tasks) /\ running \in [op : Ops, user : Users \cup {NoUser}, step : Steps]
      /\ pc \in [Users -> {"idle", "awaiting", "resumable", "destroying"}]
  BY <1>1 DEF ConnInv, TypeOK, WrapperInv
<1>3. PendingOps \subseteq StrandOps
  BY DEF PendingOps, StrandOps, Works
<1>4. FaultInv'
  BY <1>1 DEF ConnInv, FaultInv, OrderlyDestructorsNeverThrow, DestructorsNeverThrow,
       NoDanglingWrapper, world
<1>5. orderly => PendingOps = {}
  <2> SUFFICES ASSUME orderly, NEW op \in PendingOps PROVE FALSE
    OBVIOUS
  <2>1. op # "drop"
    BY <1>2, <1>3
  <2>2. CASE op \in QueuedOps
    <3>1. PICK i \in 1 .. Len(queue) : queue[i].op = op
      BY <1>2, <2>2, LenProperties DEF QueuedOps, QueuedTasks, ToSet
    <3> QED BY <1>1, <2>1, <3>1 DEF ConnInv, TasksInv, Waits
  <2>3. CASE Works /\ op = running.op
    BY <1>1, <2>1, <2>3 DEF ConnInv, TasksInv, Waits
  <2> QED BY <2>2, <2>3 DEF PendingOps
<1>a. /\ TypeOK /\ UNCHANGED <<world, connVars, stmt, rs, fault>>
      /\ held' = FALSE /\ wrapper' \in BOOLEAN
  BY <1>1, <1>2 DEF ConnInv, DropConnection
<1>6. CASE last /\ StrandIdle
  <2>1. /\ running' = DropTask(u) /\ pc' = [pc EXCEPT ![u] = "awaiting"]
        /\ queue' = queue /\ queue = << >> /\ running.step = "none"
    BY <1>6 DEF DropConnection, StrandIdle, DispatchesDisconnect
  <2>2. /\ running'.op = "drop" /\ running'.user = u /\ running'.step = "run"
        /\ running' \in [op : Ops, user : Users \cup {NoUser}, step : Steps]
    BY <2>1 DEF DropTask, Ops, Steps
  <2>3. QueuedOps' = {} /\ Len(queue) = 0
    BY <2>1, EmptySeq DEF QueuedOps, QueuedTasks, ToSet
  <2>4. StrandOps' = {"drop"} /\ PendingOps' = {"drop"}
    BY <2>2, <2>3 DEF StrandOps, PendingOps, Works
  <2>5. TypeOK'
    BY <1>2, <1>a, <2>1, <2>2 DEF TypeOK, world, connVars
  <2>6. WrapperInv' /\ FlagsInv'
    BY <1>1, <1>6, <2>1, <2>2, <2>4 DEF ConnInv, WrapperInv, FlagsInv, DriverDisconnects, HoldsSelf, connVars, world
  <2>7. TasksInv'
    <3>1. Waits(running)'
      BY <1>2, <2>1, <2>2 DEF Waits
    <3>2. \A v \in Users : rs'[v] = "freeing" => pc'[v] = "destroying"
      BY <1>1, <1>2, <2>1 DEF ConnInv, TasksInv
    <3> QED BY <2>1, <2>3, <3>1, <3>2 DEF TasksInv
  <2>8. StatementsInv' /\ OrderlyInv'
    BY <1>1, <2>4 DEF ConnInv, StatementsInv, OrderlyInv, world, connVars
  <2> QED BY <1>4, <2>5, <2>6, <2>7, <2>8 DEF ConnInv
<1>7. CASE last /\ ~StrandIdle
  <2>1. /\ running' = running /\ pc' = pc
        /\ queue' = Append(queue, [op |-> "drop", user |-> NoUser])
    BY <1>7 DEF DropConnection, DispatchesDisconnect
  <2>2. /\ queue' \in Seq(Tasks)
        /\ QueuedOps' = QueuedOps \cup {"drop"}
        /\ Len(queue) \in Nat /\ Len(queue') = Len(queue) + 1
        /\ \A i \in 1 .. Len(queue) : queue'[i] = queue[i]
        /\ queue'[Len(queue) + 1] = [op |-> "drop", user |-> NoUser]
    BY <1>2, <2>1, QueueGrows DEF Ops
  <2>3. StrandOps' = StrandOps \cup {"drop"} /\ PendingOps' = PendingOps \cup {"drop"}
        /\ Works' = Works
    BY <2>1, <2>2 DEF StrandOps, PendingOps, Works
  <2>4. TypeOK'
    BY <1>2, <1>a, <2>1, <2>2 DEF TypeOK, world, connVars
  <2>5. WrapperInv' /\ FlagsInv'
    BY <1>1, <1>7, <2>1, <2>3 DEF ConnInv, WrapperInv, FlagsInv, DriverDisconnects, HoldsSelf, connVars, world
  <2>6. TasksInv'
    <3>1. \A i \in 1 .. Len(queue') :
            i \in 1 .. Len(queue) \/ (i = Len(queue) + 1 /\ i \notin 1 .. Len(queue))
      BY <2>2
    <3>2. ASSUME NEW i \in 1 .. Len(queue)
          PROVE  queue[i].user \in Users /\ Waits(queue[i])
      <4>1. queue[i].op \in QueuedOps /\ Waits(queue[i])
        BY <1>2, LenProperties DEF QueuedOps, QueuedTasks, ToSet, ConnInv, TasksInv
      <4>2. queue[i].op # "drop"
        BY <1>2, <4>1 DEF StrandOps
      <4> QED BY <4>1, <4>2 DEF Waits
    <3>3. ASSUME NEW i \in 1 .. Len(queue')
          PROVE  Waits(queue[i])'
      <4>1. CASE i \in 1 .. Len(queue)
        BY <2>1, <2>2, <3>2, <4>1 DEF Waits
      <4>2. CASE i = Len(queue) + 1
        BY <2>2, <4>2, NoUserIsNotAUser DEF Waits
      <4> QED BY <3>1, <4>1, <4>2
    <3>4. \A i, j \in 1 .. Len(queue') : i # j => queue'[i].user # queue'[j].user
      BY <2>2, <3>1, <3>2, NoUserIsNotAUser DEF ConnInv, TasksInv
    <3>5. Works' => /\ Waits(running)'
                    /\ \A i \in 1 .. Len(queue') : queue'[i].user # running'.user
      <4> SUFFICES ASSUME Works
                   PROVE  /\ Waits(running)'
                          /\ \A i \in 1 .. Len(queue') : queue'[i].user # running'.user
        BY <2>3
      <4>1. Waits(running) /\ \A i \in 1 .. Len(queue) : queue[i].user # running.user
        BY DEF ConnInv, TasksInv
      <4>2. running.user \in Users
        <5>1. running.op # "drop"
          BY <1>2 DEF StrandOps, Works
        <5> QED BY <4>1, <5>1 DEF Waits
      <4>3. Waits(running)'
        BY <2>1, <4>1 DEF Waits
      <4> QED BY <2>1, <2>2, <3>1, <4>1, <4>2, <4>3, NoUserIsNotAUser
    <3>6. \A v \in Users : rs'[v] = "freeing" => pc'[v] = "destroying"
      BY <1>1, <2>1 DEF ConnInv, TasksInv
    <3> QED BY <3>3, <3>4, <3>5, <3>6 DEF TasksInv
  <2>7. StatementsInv' /\ OrderlyInv'
    BY <1>1, <1>5, <2>3 DEF ConnInv, StatementsInv, OrderlyInv, world, connVars
  <2> QED BY <1>4, <2>4, <2>5, <2>6, <2>7 DEF ConnInv
<1>8. CASE ~last
  <2>1. running' = running /\ pc' = pc /\ queue' = queue
    BY <1>8 DEF DropConnection, DispatchesDisconnect
  <2>2. QueuedOps' = QueuedOps /\ Works' = Works
    BY <2>1, QueueStays DEF Works
  <2>3. StrandOps' = StrandOps /\ PendingOps' = PendingOps
    BY <2>1, <2>2 DEF StrandOps, PendingOps
  <2>4. TypeOK'
    BY <1>2, <1>a, <2>1 DEF TypeOK, world, connVars
  <2>5. WrapperInv' /\ FlagsInv'
    BY <1>1, <1>2, <1>8, <2>1, <2>3 DEF ConnInv, WrapperInv, FlagsInv, DriverDisconnects, connVars, world
  <2>6. TasksInv'
    BY <1>1, <2>1, <2>2 DEF ConnInv, TasksInv, Waits
  <2>7. StatementsInv' /\ OrderlyInv'
    BY <1>1, <1>5, <2>3 DEF ConnInv, StatementsInv, OrderlyInv, world, connVars
  <2> QED BY <1>4, <2>4, <2>5, <2>6, <2>7 DEF ConnInv
<1> QED BY <1>6, <1>7, <1>8

-----------------------------------------------------------------------------
(* The strand takes a task.                                                *)
LEMMA TakesKeeps == ASSUME ConnInv, StrandTakes PROVE ConnInv'
<1>1. /\ UNCHANGED <<world, held, wrapper, connVars, userVars, fault>>
      /\ running.step = "none" /\ queue # << >> /\ queue' = Tail(queue)
      /\ running' = [op |-> Head(queue).op, user |-> Head(queue).user, step |-> "run"]
  BY DEF StrandTakes
<1>2. TypeOK /\ queue \in Seq(Tasks)
  BY DEF ConnInv, TypeOK
<1>3. /\ queue' \in Seq(Tasks)
      /\ Head(queue) = queue[1] /\ Head(queue) \in Tasks
      /\ QueuedOps = QueuedOps' \cup {Head(queue).op}
      /\ Len(queue) \in Nat \ {0} /\ Len(queue') = Len(queue) - 1
      /\ \A i \in 1 .. Len(queue') : queue'[i] = queue[i + 1]
  BY <1>1, <1>2, QueueShrinks
<1>4. /\ running'.op = queue[1].op /\ running'.user = queue[1].user /\ running'.step = "run"
      /\ running' \in [op : Ops, user : Users \cup {NoUser}, step : Steps]
  BY <1>1, <1>3 DEF Tasks, Steps
<1>5. StrandOps' = StrandOps /\ PendingOps' = PendingOps
  BY <1>1, <1>3, <1>4 DEF StrandOps, PendingOps, Works
<1>6. TypeOK'
  BY <1>1, <1>2, <1>3, <1>4 DEF TypeOK, world, connVars, userVars
<1>7. WrapperInv' /\ FlagsInv'
  BY <1>1, <1>4, <1>5 DEF ConnInv, WrapperInv, FlagsInv, DriverDisconnects, connVars, world
<1>8. TasksInv'
  <2>1. /\ \A i \in 1 .. Len(queue) : Waits(queue[i])
        /\ \A i, j \in 1 .. Len(queue) : i # j => queue[i].user # queue[j].user
        /\ \A u \in Users : rs[u] = "freeing" => pc[u] = "destroying"
    BY DEF ConnInv, TasksInv
  <2>2. 1 \in 1 .. Len(queue)
        /\ \A i \in 1 .. Len(queue') : i + 1 \in 1 .. Len(queue) /\ i + 1 # 1
    BY <1>3
  <2>3. pc' = pc /\ rs' = rs
    BY <1>1 DEF userVars
  <2>4. \A i \in 1 .. Len(queue') : Waits(queue[i])'
    BY <1>3, <2>1, <2>2, <2>3 DEF Waits
  <2>5. Waits(running)'
    BY <1>4, <2>1, <2>2, <2>3 DEF Waits
  <2>6. \A i, j \in 1 .. Len(queue') : i # j => queue'[i].user # queue'[j].user
    <3> SUFFICES ASSUME NEW i \in 1 .. Len(queue'), NEW j \in 1 .. Len(queue'), i # j
                 PROVE  queue'[i].user # queue'[j].user
      OBVIOUS
    <3>1. i + 1 # j + 1
      OBVIOUS
    <3> QED BY <1>3, <2>1, <2>2, <3>1
  <2>7. \A i \in 1 .. Len(queue') : queue'[i].user # running'.user
    BY <1>3, <1>4, <2>1, <2>2
  <2> QED BY <2>1, <2>3, <2>4, <2>5, <2>6, <2>7 DEF TasksInv
<1>9. StatementsInv' /\ OrderlyInv' /\ FaultInv'
  BY <1>1, <1>5 DEF ConnInv, StatementsInv, OrderlyInv, FaultInv, OrderlyDestructorsNeverThrow,
       DestructorsNeverThrow, NoDanglingWrapper, world, connVars, userVars
<1> QED BY <1>6, <1>7, <1>8, <1>9 DEF ConnInv
-----------------------------------------------------------------------------
(* The running task makes a step.                                          *)

LEMMA AbortKeeps == ASSUME ConnInv, StrandAborts PROVE ConnInv'
<1>1. UNCHANGED <<world, held, wrapper, connVars, userVars, queue, running>> /\ fault' = "assert"
  BY DEF StrandAborts
<1>2. QueuedOps' = QueuedOps /\ Works' = Works
  BY <1>1, QueueStays DEF Works
<1>3. StrandOps' = StrandOps /\ PendingOps' = PendingOps
  BY <1>1, <1>2 DEF StrandOps, PendingOps
<1>4. TypeOK'
  BY <1>1 DEF ConnInv, TypeOK, world, connVars, userVars
<1>5. WrapperInv' /\ FlagsInv' /\ StatementsInv' /\ OrderlyInv'
  BY <1>1, <1>3 DEF ConnInv, WrapperInv, FlagsInv, DriverDisconnects, StatementsInv, OrderlyInv, world, connVars, userVars
<1>6. TasksInv'
  BY <1>1, <1>2 DEF ConnInv, TasksInv, Waits, userVars
<1>7. FaultInv'
  BY <1>1 DEF FaultInv, OrderlyDestructorsNeverThrow, DestructorsNeverThrow, NoDanglingWrapper, world
<1> QED BY <1>4, <1>5, <1>6, <1>7 DEF ConnInv

(* It completes: its user, if it has one, may go on.                       *)
Finishes ==
    /\ Works /\ Completes
    /\ UNCHANGED <<world, held, wrapper, queue>>
    /\ \A u \in Users : rs'[u] = "freeing" => rs[u] = "freeing"

Finished ==
    /\ TasksInv'
    /\ QueuedOps' = QueuedOps /\ StrandOps' = StrandOps
    /\ PendingOps' \subseteq PendingOps /\ PendingOps \subseteq PendingOps' \cup {running.op}
    /\ running'.op = running.op /\ running'.step = "end"
    /\ running' \in [op : Ops, user : Users \cup {NoUser}, step : Steps]
    /\ pc' \in [Users -> {"idle", "awaiting", "resumable", "destroying"}]

LEMMA FinishingFinishes == ASSUME ConnInv, Finishes PROVE Finished
<1>1. /\ UNCHANGED <<world, held, wrapper, queue>>
      /\ running' = [running EXCEPT !.step = "end"]
      /\ pc' = IF running.user \in Users THEN [pc EXCEPT ![running.user] = "resumable"] ELSE pc
      /\ Works
  BY DEF Finishes, Completes, Reaches
<1>2. /\ running \in [op : Ops, user : Users \cup {NoUser}, step : Steps]
      /\ pc \in [Users -> {"idle", "awaiting", "resumable", "destroying"}]
  BY DEF ConnInv, TypeOK
<1>3. /\ running'.op = running.op /\ running'.step = "end" /\ running'.user = running.user
      /\ running' \in [op : Ops, user : Users \cup {NoUser}, step : Steps]
  BY <1>1, <1>2 DEF Steps
<1>4. pc' \in [Users -> {"idle", "awaiting", "resumable", "destroying"}]
  BY <1>1, <1>2
<1>5. QueuedOps' = QueuedOps
  BY <1>1, QueueStays
<1>6. /\ StrandOps' = StrandOps
      /\ PendingOps' \subseteq PendingOps /\ PendingOps \subseteq PendingOps' \cup {running.op}
  BY <1>1, <1>3, <1>5 DEF StrandOps, PendingOps, Works
<1>7. Waits(running) /\ \A j \in 1 .. Len(queue) : queue[j].user # running.user
  BY <1>1 DEF ConnInv, TasksInv
<1>8. ASSUME NEW j \in 1 .. Len(queue)
      PROVE  Waits(queue[j])'
  <2>1. Waits(queue[j]) /\ queue[j].user # running.user
    BY <1>7 DEF ConnInv, TasksInv
  <2> QED BY <1>1, <1>2, <2>1 DEF Waits
<1>9. ASSUME NEW u \in Users, rs'[u] = "freeing"
      PROVE  pc'[u] = "destroying"
  <2>1. pc[u] = "destroying"
    BY <1>9 DEF Finishes, ConnInv, TasksInv
  <2>2. u # running.user
    BY <1>7, <2>1 DEF Waits
  <2> QED BY <1>1, <1>2, <2>1, <2>2
<1>10. ~Works'
  BY <1>3 DEF Works
<1>11. TasksInv'
  BY <1>1, <1>8, <1>9, <1>10 DEF ConnInv, TasksInv
<1> QED BY <1>3, <1>4, <1>5, <1>6, <1>11 DEF Finished

LEMMA RunConnectKeeps == ASSUME ConnInv, RunConnect PROVE ConnInv'
<1>1. CASE StrandAborts
  BY <1>1, AbortKeeps
<1>2. CASE ~StrandAborts
  <2>1. PICK accepted \in BOOLEAN :
            /\ open' = (open \/ (accepted /\ ~cancelled_))
            /\ connected_' = (connected_ \/ (accepted /\ ~cancelled_))
    BY <1>2 DEF RunConnect, RefusesConnect
  <2>2. /\ UNCHANGED <<world, held, wrapper, cancelled_, dead, stmt, rs, queue, fault>>
        /\ Completes /\ running.step = "run" /\ running.op = "connect"
    BY <1>2 DEF RunConnect, Runs
  <2>3. Finished
    BY <2>2, FinishingFinishes DEF Finishes, Works
  <2>4. wrapper
    BY <2>2 DEF ConnInv, WrapperInv, StrandOps, HoldsSelf
  <2>5. TypeOK'
    <3>1. open' \in BOOLEAN /\ connected_' \in BOOLEAN
      BY <2>1 DEF ConnInv, TypeOK
    <3> QED BY <2>2, <2>3, <3>1 DEF ConnInv, TypeOK, Finished, world
  <2>6. WrapperInv'
    BY <2>2, <2>3, <2>4 DEF ConnInv, WrapperInv, Finished
  <2>7. FlagsInv'
    BY <2>1, <2>2, <2>3 DEF ConnInv, FlagsInv, DriverDisconnects, Finished, world
  <2>8. StatementsInv'
    BY <2>1, <2>2, <2>3 DEF ConnInv, StatementsInv, Finished, world
  <2>9. OrderlyInv' /\ FaultInv'
    BY <2>2, <2>3 DEF ConnInv, OrderlyInv, Finished, FaultInv, OrderlyDestructorsNeverThrow,
         DestructorsNeverThrow, NoDanglingWrapper, world
  <2> QED BY <2>3, <2>5, <2>6, <2>7, <2>8, <2>9 DEF ConnInv, Finished
<1> QED BY <1>1, <1>2

(* A task that leaves the connection as it is, and perhaps the result sets *)
(* and the statements, which are the invariant's only worry then.          *)
LEMMA FinishesOnly ==
    ASSUME ConnInv, Finishes, UNCHANGED connVars, running.step = "run",
           connected_ => running.op # "drop"
    PROVE  Finished /\ WrapperInv' /\ FlagsInv'
<1>1. Finished
  BY FinishingFinishes
<1>2. UNCHANGED <<world, held, wrapper, queue>>
  BY DEF Finishes
<1>3. FlagsInv'
  BY <1>1, <1>2 DEF ConnInv, FlagsInv, DriverDisconnects, Finished, connVars, world
<1>4. WrapperInv'
  BY <1>1, <1>2 DEF ConnInv, WrapperInv, Finished, connVars
<1> QED BY <1>1, <1>3, <1>4

(* What SQLDisconnect does to the statements, if it succeeds or not.       *)
StatementsFollow ==
    /\ open' \in BOOLEAN /\ (DriverDisconnects => ~open')
    /\ stmt' \in [Users -> {"none", "alloc", "freed"}]
    /\ \A u \in Users : (stmt'[u] # "none" => stmt[u] # "none") /\ (stmt'[u] = "alloc" => open')

LEMMA RunDisconnectKeeps == ASSUME ConnInv, RunDisconnect PROVE ConnInv'
<1>0. running.step = "run" /\ running.op \in {"disconnect", "drop"} /\ Works
  BY DEF RunDisconnect, Runs, Works
<1>1. CASE StrandAborts
  BY <1>1, AbortKeeps
<1>2. CASE ~connected_ /\ Completes
           /\ UNCHANGED <<world, held, wrapper, connVars, stmt, rs, queue, fault>>
  <2>1. Finished /\ WrapperInv' /\ FlagsInv'
    BY <1>0, <1>2, FinishesOnly DEF Finishes
  <2>2. TypeOK'
    BY <1>2, <2>1 DEF ConnInv, TypeOK, Finished, world, connVars
  <2>3. StatementsInv' /\ OrderlyInv' /\ FaultInv'
    BY <1>2, <2>1 DEF ConnInv, StatementsInv, OrderlyInv, Finished, FaultInv,
         OrderlyDestructorsNeverThrow, DestructorsNeverThrow, NoDanglingWrapper, world, connVars
  <2> QED BY <2>1, <2>2, <2>3 DEF ConnInv, Finished
<1>3. CASE /\ connected_
           /\ cancelled_' = TRUE
           /\ FreesStatements \/ ("disconnect" \in faults /\ UNCHANGED <<open, stmt>>)
           /\ Reaches("mark")
           /\ UNCHANGED <<world, held, wrapper, connected_, dead, rs, pc, queue, fault>>
  <2>1. /\ running' = [running EXCEPT !.step = "mark"]
        /\ running \in [op : Ops, user : Users \cup {NoUser}, step : Steps]
    BY <1>3 DEF Reaches, ConnInv, TypeOK
  <2>2. /\ running'.op = running.op /\ running'.user = running.user /\ running'.step = "mark"
        /\ running' \in [op : Ops, user : Users \cup {NoUser}, step : Steps]
    BY <2>1 DEF Steps
  <2>3. QueuedOps' = QueuedOps /\ Works'
    BY <1>3, <2>2, QueueStays DEF Works
  <2>4. StrandOps' = StrandOps /\ PendingOps' = PendingOps /\ running.op \in PendingOps
    BY <1>0, <2>2, <2>3 DEF StrandOps, PendingOps, Works
  <2>5. stmt \in [Users -> {"none", "alloc", "freed"}]
    BY DEF ConnInv, TypeOK
  <2>a. StatementsFollow
    <3>1. CASE FreesStatements
      BY <2>5, <3>1 DEF FreesStatements, StatementsFollow
    <3>2. CASE "disconnect" \in faults /\ UNCHANGED <<open, stmt>>
      <4>1. open \in BOOLEAN /\ \A u \in Users : stmt[u] = "alloc" => open
        BY DEF ConnInv, TypeOK, StatementsInv
      <4> QED BY <2>5, <3>2, <4>1 DEF DriverDisconnects, StatementsFollow
    <3> QED BY <1>3, <3>1, <3>2
  <2>6. TypeOK'
    BY <1>3, <2>2, <2>a DEF ConnInv, TypeOK, StatementsFollow, world
  <2>7. WrapperInv'
    BY <1>3, <2>4 DEF ConnInv, WrapperInv
  <2>8. FlagsInv'
    <3>1. DriverDisconnects' = DriverDisconnects /\ ~dead
      BY <1>3 DEF DriverDisconnects, world, ConnInv, FlagsInv
    <3> QED BY <1>0, <1>3, <2>2, <2>a, <3>1 DEF ConnInv, FlagsInv, StatementsFollow
  <2>9. TasksInv'
    <3>1. Waits(running) /\ \A i \in 1 .. Len(queue) : queue[i].user # running.user
      BY <1>0 DEF ConnInv, TasksInv
    <3>2. Waits(running)'
      BY <1>3, <2>2, <3>1 DEF Waits
    <3>3. \A i \in 1 .. Len(queue) : Waits(queue[i])'
      BY <1>3 DEF Waits, ConnInv, TasksInv
    <3> QED BY <1>3, <2>2, <3>1, <3>2, <3>3 DEF ConnInv, TasksInv
  <2>10. StatementsInv'
    <3>1. cancelled_' = TRUE
      BY <1>3 DEF FreesStatements
    <3>2. \A u \in Users : stmt'[u] = "alloc" => open'
      BY <2>a DEF StatementsFollow
    <3> QED BY <3>1, <3>2 DEF StatementsInv
  <2>11. OrderlyInv'
    <3>1. orderly => \A u \in Users : rs[u] # "freeing"
      BY <1>0, <2>4 DEF ConnInv, OrderlyInv
    <3> QED BY <1>3, <2>4, <3>1 DEF ConnInv, OrderlyInv, world
  <2>12. FaultInv'
    BY <1>3 DEF ConnInv, FaultInv, OrderlyDestructorsNeverThrow, DestructorsNeverThrow,
         NoDanglingWrapper, world
  <2> QED BY <2>6, <2>7, <2>8, <2>9, <2>10, <2>11, <2>12 DEF ConnInv
<1> QED BY <1>1, <1>2, <1>3 DEF RunDisconnect

LEMMA MarkKeeps == ASSUME ConnInv, MarkChildrenDead PROVE ConnInv'
<1>1. /\ UNCHANGED <<world, held, wrapper, cancelled_, open, stmt, rs, queue, fault>>
      /\ Completes /\ running.step = "mark" /\ dead' = TRUE /\ connected_' = FALSE
  BY DEF MarkChildrenDead
<1>2. Finished
  BY <1>1, FinishingFinishes DEF Finishes, Works
<1>3. TypeOK'
  BY <1>1, <1>2 DEF ConnInv, TypeOK, Finished, world
<1>4. WrapperInv' /\ FlagsInv'
  BY <1>1, <1>2 DEF ConnInv, WrapperInv, FlagsInv, DriverDisconnects, Finished, world
<1>5. StatementsInv'
  BY <1>1, <1>2 DEF ConnInv, StatementsInv, FlagsInv, DriverDisconnects, Finished, world
<1>6. OrderlyInv' /\ FaultInv'
  BY <1>1, <1>2 DEF ConnInv, OrderlyInv, Finished, FaultInv, OrderlyDestructorsNeverThrow,
       DestructorsNeverThrow, NoDanglingWrapper, world
<1> QED BY <1>2, <1>3, <1>4, <1>5, <1>6 DEF ConnInv, Finished

(* Executions and fetches.                                                 *)
LEMMA StatementFailsKeeps ==
    ASSUME ConnInv, StatementFails, running.step = "run", running.op \in {"execute", "query"},
           MayGetNoHandle
    PROVE  ConnInv'
<1>1. CASE StrandAborts
  BY <1>1, AbortKeeps
<1>2. CASE ~StrandAborts
  <2>1. /\ UNCHANGED <<world, held, wrapper, connVars, stmt, rs, queue>>
        /\ fault' = IF dead THEN fault ELSE "dtor_null"
        /\ Completes
    BY <1>2 DEF StatementFails, SkipsFree
  <2>2. Finished /\ WrapperInv' /\ FlagsInv'
    BY <2>1, FinishesOnly DEF Finishes, Works
  <2>3. asks /\ "alloc" \notin faults => dead
    <3>1. running.op \in PendingOps
      BY DEF PendingOps, Works
    <3> QED BY <3>1 DEF ConnInv, StatementsInv, FlagsInv, MayGetNoHandle
  <2>4. TypeOK'
    BY <2>1, <2>2, <2>3 DEF ConnInv, TypeOK, Finished, world, connVars
  <2>5. StatementsInv' /\ OrderlyInv' /\ FaultInv'
    <3>1. ~asserts
      BY <1>2 DEF StatementFails
    <3>2. FaultInv'
      BY <2>1, <2>3, <3>1 DEF ConnInv, FaultInv, OrderlyDestructorsNeverThrow,
           DestructorsNeverThrow, NoDanglingWrapper, world
    <3> QED BY <2>1, <2>2, <3>2
            DEF ConnInv, StatementsInv, OrderlyInv, Finished, world, connVars
  <2> QED BY <2>2, <2>4, <2>5 DEF ConnInv, Finished
<1> QED BY <1>1, <1>2

LEMMA FinishesQuietly ==
    ASSUME ConnInv, running.step = "run", running.op \in {"execute", "query", "next"}, Completes,
           UNCHANGED <<world, held, wrapper, connVars, stmt, rs, queue, fault>>
    PROVE  ConnInv'
<1>1. Finished /\ WrapperInv' /\ FlagsInv'
  BY FinishesOnly DEF Finishes, Works
<1>2. TypeOK'
  BY <1>1 DEF ConnInv, TypeOK, Finished, world, connVars
<1>3. StatementsInv' /\ OrderlyInv' /\ FaultInv'
  BY <1>1 DEF ConnInv, StatementsInv, OrderlyInv, Finished, FaultInv,
       OrderlyDestructorsNeverThrow, DestructorsNeverThrow, NoDanglingWrapper, world, connVars
<1> QED BY <1>1, <1>2, <1>3 DEF ConnInv, Finished

LEMMA RunExecuteKeeps == ASSUME ConnInv, RunExecute PROVE ConnInv'
BY StatementFailsKeeps, FinishesQuietly DEF RunExecute, StatementComesAndGoes, Runs

LEMMA RunNextKeeps == ASSUME ConnInv, RunNext PROVE ConnInv'
BY FinishesQuietly DEF RunNext, Runs

LEMMA RunQueryKeeps == ASSUME ConnInv, RunQuery PROVE ConnInv'
<1>1. running.step = "run" /\ running.op = "query"
  BY DEF RunQuery, Runs
<1>2. CASE MayGetNoHandle /\ StatementFails
  BY <1>1, <1>2, StatementFailsKeeps
<1>4. CASE StatementComesAndGoes
  BY <1>1, <1>4, FinishesQuietly DEF StatementComesAndGoes
<1>3. CASE /\ open
           /\ stmt' = [stmt EXCEPT ![running.user] = "alloc"]
           /\ rs' = [rs EXCEPT ![running.user] = "returned"]
           /\ Completes
           /\ UNCHANGED <<world, held, wrapper, connVars, queue, fault>>
  <2>1. /\ rs \in [Users -> {"none", "returned", "held", "freeing"}]
        /\ stmt \in [Users -> {"none", "alloc", "freed"}]
    BY DEF ConnInv, TypeOK
  <2>2. Finished /\ WrapperInv' /\ FlagsInv'
    BY <1>1, <1>3, <2>1, FinishesOnly DEF Finishes, Works
  <2>3. TypeOK'
    BY <1>3, <2>1, <2>2 DEF ConnInv, TypeOK, Finished, world, connVars
  <2>4. StatementsInv'
    BY <1>3, <2>1, <2>2 DEF ConnInv, StatementsInv, Finished, connVars, world
  <2>5. OrderlyInv'
    <3>1. running.op \in PendingOps
      BY <1>1 DEF PendingOps, Works
    <3>2. orderly => held
      BY <1>1, <3>1 DEF ConnInv, OrderlyInv
    <3> QED BY <1>3, <2>1, <2>2, <3>2 DEF ConnInv, OrderlyInv, Finished, world
  <2>6. FaultInv'
    BY <1>3 DEF ConnInv, FaultInv, OrderlyDestructorsNeverThrow, DestructorsNeverThrow,
         NoDanglingWrapper, world
  <2> QED BY <2>2, <2>3, <2>4, <2>5, <2>6 DEF ConnInv, Finished
<1> QED BY <1>2, <1>3, <1>4 DEF RunQuery

(* The frame of the task goes.                                             *)
LEMMA FrameEndsKeeps == ASSUME ConnInv, FrameEnds PROVE ConnInv'
<1>1. /\ UNCHANGED <<world, held, connVars, userVars, queue, fault>>
      /\ running.step = "end"
      /\ wrapper' = (wrapper /\ ~LastSelf)
      /\ running' = IF LastSelf /\ connected_ THEN DropTask(NoUser) ELSE NoTask
      /\ LastSelf <=> /\ wrapper /\ ~held /\ HoldsSelf(running.op)
                      /\ \A op \in QueuedOps : ~HoldsSelf(op)
  BY OpsOfTasks DEF FrameEnds, DispatchesDisconnect, LastSelf
<1>2. TypeOK /\ wrapper \in BOOLEAN
  BY DEF ConnInv, TypeOK
<1>3. QueuedOps' = QueuedOps /\ StrandOps = QueuedOps \cup {running.op} /\ PendingOps = QueuedOps
  BY <1>1, QueueStays DEF StrandOps, PendingOps, Works
<1>4. running' \in [op : Ops, user : Users \cup {NoUser}, step : Steps]
  BY <1>1 DEF DropTask, NoTask, Ops, Steps
<1>5. FaultInv'
  BY <1>1 DEF ConnInv, FaultInv, OrderlyDestructorsNeverThrow, DestructorsNeverThrow,
       NoDanglingWrapper, world
<1>6. TypeOK'
  <2>1. wrapper' \in BOOLEAN /\ (held' => wrapper')
    BY <1>1, <1>2 DEF TypeOK
  <2> QED BY <1>1, <1>2, <1>4, <2>1 DEF TypeOK, world, connVars, userVars
<1>7. CASE LastSelf /\ connected_
  <2>1. running'.op = "drop" /\ running'.user = NoUser /\ running'.step = "run" /\ Works'
    BY <1>1, <1>7 DEF DropTask, Works
  <2>2. StrandOps' = QueuedOps \cup {"drop"} /\ PendingOps' = QueuedOps \cup {"drop"}
    BY <1>3, <2>1 DEF StrandOps, PendingOps
  <2>3. "drop" \notin QueuedOps /\ ~wrapper' /\ wrapper /\ ~held
    BY <1>1, <1>3, <1>7 DEF ConnInv, WrapperInv
  <2>4. WrapperInv' /\ FlagsInv'
    BY <1>1, <1>7, <2>1, <2>2, <2>3 DEF ConnInv, WrapperInv, FlagsInv, DriverDisconnects, HoldsSelf, connVars, world
  <2>5. TasksInv'
    <3>1. Waits(running)'
      BY <2>1, NoUserIsNotAUser DEF Waits
    <3>2. ASSUME NEW i \in 1 .. Len(queue)
          PROVE  Waits(queue[i])' /\ queue[i].user # running'.user
      <4>1. queue[i].op \in QueuedOps /\ Waits(queue[i])
        BY <1>2, LenProperties DEF QueuedOps, QueuedTasks, ToSet, ConnInv, TasksInv, TypeOK
      <4>2. queue[i].user \in Users
        BY <2>3, <4>1 DEF Waits
      <4> QED BY <1>1, <2>1, <4>1, <4>2, NoUserIsNotAUser DEF Waits, userVars
    <3> QED BY <1>1, <3>1, <3>2 DEF ConnInv, TasksInv, userVars
  <2>6. StatementsInv' /\ OrderlyInv'
    <3>1. orderly => \A u \in Users : rs[u] = "none"
      BY <2>3 DEF ConnInv, OrderlyInv
    <3> QED BY <1>1, <1>3, <2>2, <3>1 DEF ConnInv, StatementsInv, OrderlyInv, world, connVars, userVars
  <2> QED BY <1>5, <1>6, <2>4, <2>5, <2>6 DEF ConnInv
<1>8. CASE ~(LastSelf /\ connected_)
  <2>1. running'.op = "drop" /\ running'.step = "none" /\ ~Works'
    BY <1>1, <1>8 DEF NoTask, Works
  <2>2. StrandOps' = QueuedOps /\ PendingOps' = QueuedOps
    BY <1>3, <2>1 DEF StrandOps, PendingOps
  <2>3. wrapper' <=> held \/ \E op \in QueuedOps : HoldsSelf(op)
    BY <1>1, <1>3 DEF ConnInv, WrapperInv
  <2>4. WrapperInv' /\ FlagsInv'
    BY <1>1, <1>3, <1>8, <2>1, <2>2, <2>3 DEF ConnInv, WrapperInv, FlagsInv, DriverDisconnects, connVars, world
  <2>5. TasksInv'
    BY <1>1, <2>1 DEF ConnInv, TasksInv, Waits, userVars
  <2>6. StatementsInv' /\ OrderlyInv'
    BY <1>1, <1>3, <2>2 DEF ConnInv, StatementsInv, OrderlyInv, world, connVars, userVars
  <2> QED BY <1>5, <1>6, <2>4, <2>5, <2>6 DEF ConnInv
<1> QED BY <1>7, <1>8
-----------------------------------------------------------------------------
LEMMA UserStepKeeps == ASSUME ConnInv, NEW u \in Users, UserStep(u) PROVE ConnInv'
BY CallKeeps, DropKeeps, ResumeKeeps, BeginDestroyKeeps, FreeStatementKeeps DEF UserStep

LEMMA StrandStepKeeps == ASSUME ConnInv, StrandStep PROVE ConnInv'
BY TakesKeeps, RunConnectKeeps, RunDisconnectKeeps, MarkKeeps, RunExecuteKeeps, RunQueryKeeps,
   RunNextKeeps, FrameEndsKeeps DEF StrandStep

LEMMA StutterKeeps == ASSUME ConnInv, UNCHANGED vars PROVE ConnInv'
<1>1. QueuedOps' = QueuedOps /\ Works' = Works
  BY QueueStays DEF vars, Works
<1>2. StrandOps' = StrandOps /\ PendingOps' = PendingOps
  BY <1>1 DEF StrandOps, PendingOps, vars
<1>3. TypeOK'
  BY DEF ConnInv, TypeOK, vars, world, connVars, userVars
<1>4. WrapperInv' /\ FlagsInv' /\ StatementsInv' /\ OrderlyInv'
  BY <1>2 DEF ConnInv, WrapperInv, FlagsInv, DriverDisconnects, StatementsInv, OrderlyInv, vars, world, connVars, userVars
<1>5. TasksInv'
  BY <1>1 DEF ConnInv, TasksInv, Waits, vars, userVars
<1>6. FaultInv'
  BY DEF ConnInv, FaultInv, OrderlyDestructorsNeverThrow, DestructorsNeverThrow,
       NoDanglingWrapper, vars, world
<1> QED BY <1>3, <1>4, <1>5, <1>6 DEF ConnInv

LEMMA ConnInvHolds == Spec => []ConnInv
<1>1. ConnInv /\ [Next]_vars => ConnInv'
  BY UserStepKeeps, StrandStepKeeps, StutterKeeps DEF Next
<1> QED BY <1>1, InitEstablishes, PTL DEF Spec

(* Every part keeps its type, and the wrapper lives while an               *)
(* async::connection refers to it (async/connection.hpp:28).               *)
THEOREM ConnectionIsTyped == Spec => []TypeOK
<1>1. ConnInv => TypeOK
  BY DEF ConnInv
<1> QED BY <1>1, ConnInvHolds, PTL

(* In a program that destroys its result sets before it drops or           *)
(* disconnects, a free on the user's thread never meets the SQLDisconnect  *)
(* of the strand.  A statement that got no handle stops a debug build; in  *)
(* an NDEBUG build it finds its connection marked dead, if the program     *)
(* asked connected() and the driver refuses no statement.                  *)
THEOREM OrderlyProgramsNeverThrow == Spec => []OrderlyDestructorsNeverThrow
<1>1. ConnInv => OrderlyDestructorsNeverThrow
  BY DEF ConnInv, FaultInv
<1> QED BY <1>1, ConnInvHolds, PTL

(* execute_query never evaluates get_executor() on a wrapper that is gone, *)
(* in an orderly program or with a compiler that evaluates it first.       *)
THEOREM WrapperNeverDangles == Spec => []NoDanglingWrapper
<1>1. ConnInv => NoDanglingWrapper
  BY DEF ConnInv, FaultInv
<1> QED BY <1>1, ConnInvHolds, PTL

(* connected() tells the truth whenever the strand has nothing to do; only *)
(* its FALSE can be wrong, where SQLDisconnect may fail.                   *)
THEOREM IdleFlagIsTruthful == Spec => []IdleConnectedIsTruthful
<1>1. ConnInv => IdleConnectedIsTruthful
  BY DEF ConnInv, FlagsInv, DriverDisconnects, IdleConnectedIsTruthful, StrandIdle, world
<1> QED BY <1>1, ConnInvHolds, PTL

-----------------------------------------------------------------------------
(* The refinement of Connection.  The mapping depends on a few facts only. *)

Usable == {u \in Users : stmt[u] = "alloc"}

Exists == wrapper \/ "drop" \in StrandOps

LifeIsFlags ==
    Life = IF ~Exists THEN "gone"
           ELSE IF cancelled_ THEN "over"
           ELSE IF connected_ THEN "open" ELSE "new"

LEMMA LifeFollowsFlags == LifeIsFlags
BY OpsOfTasks DEF Life, Exists, LifeIsFlags

LEMMA NextLife == LifeIsFlags'
BY LifeFollowsFlags, PTL

MappingInv ==
    /\ Life \in {"gone", "new", "open", "over"}
    /\ DriverDisconnects => (open <=> Life = "open")
    /\ ~open => Usable = {}
    /\ Usable \in SUBSET Users
    /\ open \in BOOLEAN

LEMMA MappingHolds == ConnInv => MappingInv
<1> SUFFICES ASSUME ConnInv PROVE MappingInv
  OBVIOUS
<1>1. connected_ => wrapper \/ "drop" \in StrandOps
  BY DEF ConnInv, WrapperInv, PendingOps, StrandOps, Works
<1>2. open \in BOOLEAN /\ (DriverDisconnects => (open <=> connected_ /\ ~cancelled_))
  BY DEF ConnInv, TypeOK, FlagsInv
<1>3. ~open => Usable = {}
  BY DEF ConnInv, StatementsInv, Usable
<1> QED BY <1>1, <1>2, <1>3, LifeFollowsFlags DEF LifeIsFlags, Exists, MappingInv, Usable

(* A step that moves the life of the connection forward, and makes         *)
(* statements only while it is open, is a step of Connection.              *)
LifeMoves ==
    \/ Life' = Life
    \/ Life = "new" /\ Life' = "open" /\ Usable' = Usable
    \/ Life = "open" /\ Life' = "over"
    \/ Life' = "gone"

LEMMA MovesRefine ==
    ASSUME MappingInv, MappingInv', LifeMoves, DriverDisconnects, DriverDisconnects'
    PROVE  [C!Next]_C!vars
<1>0. DriverDisconnects' = DriverDisconnects
  BY DEF DriverDisconnects
<1> DEFINE c == "connection"
           life == [d \in {c} |-> Life]
           session == [d \in {c} |-> open]
           usable == [d \in {c} |-> Usable]
           life2 == [d \in {c} |-> Life']
           session2 == [d \in {c} |-> open']
           usable2 == [d \in {c} |-> Usable']
<1>1. /\ life2 = [life EXCEPT ![c] = Life']
      /\ session2 = [session EXCEPT ![c] = open']
      /\ usable2 = [usable EXCEPT ![c] = Usable']
      /\ usable2 \in [{c} -> SUBSET Users]
      /\ life[c] = Life
  BY DEF MappingInv
<1>2. /\ open = (Life = "open") /\ open' = (Life' = "open")
      /\ (~open => Usable = {}) /\ (~open' => Usable' = {})
  BY DEF MappingInv
<1>3. CASE Life' = Life /\ Life = "open"
  <2>1. life2 = life /\ session2 = session
    BY <1>2, <1>3
  <2>2. C!ChangeStatements(c)
    BY <1>1, <1>3, <2>1 DEF C!ChangeStatements, Usable
  <2> QED BY <1>0, <2>2 DEF C!Next
<1>4. CASE Life' = Life /\ Life # "open"
  <2>1. life2 = life /\ session2 = session /\ usable2 = usable
    BY <1>2, <1>4
  <2> QED BY <1>0, <2>1 DEF C!vars, Usable
<1>5. CASE Life = "new" /\ Life' = "open" /\ Usable' = Usable
  <2>1. C!Open(c)
    BY <1>1, <1>2, <1>5 DEF C!Open, C!Moves, Usable
  <2> QED BY <1>0, <2>1 DEF C!Next
<1>6. CASE Life = "open" /\ Life' = "over"
  <2>1. C!Close(c)
    BY <1>1, <1>2, <1>6 DEF C!Close, C!Moves, C!Ends, Usable
  <2> QED BY <1>0, <2>1 DEF C!Next
<1>7. CASE Life' = "gone" /\ Life # "gone"
  <2>1. C!Drop(c)
    BY <1>1, <1>2, <1>7 DEF C!Drop, C!Moves, C!Ends, Usable, MappingInv
  <2> QED BY <1>0, <2>1 DEF C!Next
<1> QED BY <1>3, <1>4, <1>5, <1>6, <1>7 DEF LifeMoves
(* The connection that is gone does not come back.                         *)
LEMMA PostsStays ==
    ASSUME ConnInv, NEW u \in Users, NEW op \in Ops \ {"drop"}, Posts(u, op)
    PROVE  UNCHANGED <<connected_, cancelled_>> /\ (Exists' => Exists)
<1>1. /\ UNCHANGED <<world, held, wrapper, connVars, stmt, rs, running, fault>>
      /\ queue' = Append(queue, [op |-> op, user |-> u])
  BY DEF Posts
<1>2. QueuedOps' = QueuedOps \cup {op}
  BY <1>1, QueueGrows DEF ConnInv, TypeOK
<1> QED BY <1>1, <1>2 DEF Exists, StrandOps, connVars

LEMMA DropStays ==
    ASSUME ConnInv, NEW u \in Users, DropConnection(u)
    PROVE  UNCHANGED <<connected_, cancelled_>> /\ (Exists' => Exists)
BY DEF DropConnection, Exists, ConnInv, TypeOK, connVars

LEMMA TakesStays ==
    ASSUME ConnInv, StrandTakes
    PROVE  UNCHANGED <<connected_, cancelled_>> /\ (Exists' => Exists)
<1>1. QueuedOps = QueuedOps' \cup {Head(queue).op}
  BY QueueShrinks DEF StrandTakes, ConnInv, TypeOK
<1> QED BY <1>1 DEF StrandTakes, Exists, StrandOps, connVars

LEMMA FrameEndsStays ==
    ASSUME ConnInv, FrameEnds
    PROVE  UNCHANGED <<connected_, cancelled_>> /\ (Exists' => Exists)
<1>1. QueuedOps' = QueuedOps
  BY QueueStays DEF FrameEnds
<1>2. LastSelf => wrapper
  BY DEF LastSelf
<1>3. UNCHANGED <<connected_, cancelled_>>
  BY DEF FrameEnds, connVars
<1>4. (wrapper' => wrapper) /\ running.step = "end"
      /\ running' \in {DropTask(NoUser), NoTask} /\ (running' = DropTask(NoUser) => LastSelf \/ running' = NoTask)
  BY DEF FrameEnds
<1>5. DropTask(NoUser).step = "run" /\ NoTask.step = "none"
  BY DEF DropTask, NoTask
<1>6. "drop" \in StrandOps' => "drop" \in StrandOps \/ wrapper
  BY <1>1, <1>2, <1>4, <1>5 DEF StrandOps
<1> QED BY <1>3, <1>4, <1>6 DEF Exists

(* The task that runs stays on the strand.                                 *)
LEMMA RunningStays ==
    ASSUME ConnInv, running.step # "none", UNCHANGED <<wrapper, queue>>,
           NEW step \in Steps \ {"none"}, Reaches(step)
    PROVE  Exists' = Exists /\ Exists \in BOOLEAN
<1>1. /\ running' = [running EXCEPT !.step = step]
      /\ running \in [op : Ops, user : Users \cup {NoUser}, step : Steps]
  BY DEF Reaches, ConnInv, TypeOK
<1>2. running'.op = running.op /\ running'.step # "none"
  BY <1>1
<1>3. QueuedOps' = QueuedOps
  BY QueueStays
<1> QED BY <1>2, <1>3 DEF Exists, StrandOps

LEMMA FlagsStayMoves ==
    ASSUME UNCHANGED <<connected_, cancelled_>>, Exists' => Exists
    PROVE  LifeMoves
BY LifeFollowsFlags, NextLife DEF LifeMoves, LifeIsFlags

LEMMA RunsMove ==
    ASSUME ConnInv,
           \/ RunConnect \/ RunDisconnect \/ MarkChildrenDead
           \/ RunExecute \/ RunQuery \/ RunNext
    PROVE  LifeMoves
<1>1. CASE StrandAborts
  <2>1. QueuedOps' = QueuedOps /\ UNCHANGED <<running, wrapper, connected_, cancelled_>>
    BY <1>1, QueueStays DEF StrandAborts, connVars
  <2>2. Exists' = Exists
    BY <2>1 DEF Exists, StrandOps
  <2> QED BY <2>1, <2>2, FlagsStayMoves
<1>2. CASE ~StrandAborts /\ (RunExecute \/ RunQuery \/ RunNext)
  <2>1. /\ running.step # "none" /\ Reaches("end")
        /\ UNCHANGED <<wrapper, queue, connected_, cancelled_>>
    BY <1>2 DEF RunExecute, RunQuery, RunNext, StatementFails, StatementComesAndGoes, Runs, Completes, connVars
  <2>2. Exists' = Exists
    BY <2>1, RunningStays DEF Steps
  <2> QED BY <2>1, <2>2, FlagsStayMoves
<1>3. CASE ~StrandAborts /\ RunConnect
  <2>1. /\ running.step # "none" /\ Reaches("end")
        /\ UNCHANGED <<wrapper, queue, cancelled_, stmt>>
    BY <1>3 DEF RunConnect, Runs, Completes
  <2>2. Exists' = Exists
    BY <2>1, RunningStays DEF Steps
  <2>3. connected_' # connected_ => ~connected_ /\ connected_' /\ ~cancelled_
    BY <1>3 DEF RunConnect, RefusesConnect, ConnInv, TypeOK
  <2>4. Usable' = Usable
    BY <2>1 DEF Usable
  <2> QED BY <2>1, <2>2, <2>3, <2>4, LifeFollowsFlags, NextLife DEF LifeMoves, LifeIsFlags
<1>4. CASE ~StrandAborts /\ RunDisconnect
  <2>1. CASE ~connected_
    <3>1. /\ running.step # "none" /\ Reaches("end")
          /\ UNCHANGED <<wrapper, queue, connected_, cancelled_>>
      BY <1>4, <2>1 DEF RunDisconnect, Runs, Completes, connVars
    <3>2. Exists' = Exists
      BY <3>1, RunningStays DEF Steps
    <3> QED BY <3>1, <3>2, FlagsStayMoves
  <2>2. CASE connected_
    <3>1. /\ running.step = "run" /\ Reaches("mark") /\ UNCHANGED <<wrapper, queue>>
          /\ cancelled_'
      BY <1>4, <2>2 DEF RunDisconnect, Runs
    <3>2. Exists' = Exists
      BY <3>1, RunningStays DEF Steps
    <3>3. ~cancelled_
      BY <2>2, <3>1 DEF ConnInv, FlagsInv, DriverDisconnects, world
    <3> QED BY <2>2, <3>1, <3>2, <3>3, LifeFollowsFlags, NextLife DEF LifeMoves, LifeIsFlags
  <2> QED BY <2>1, <2>2
<1>5. CASE MarkChildrenDead
  <2>1. /\ running.step = "mark" /\ Reaches("end") /\ UNCHANGED <<wrapper, queue, cancelled_>>
    BY <1>5 DEF MarkChildrenDead, Completes
  <2>2. Exists' = Exists
    BY <2>1, RunningStays DEF Steps
  <2>3. cancelled_
    BY <2>1 DEF ConnInv, FlagsInv, DriverDisconnects, world
  <2> QED BY <2>1, <2>2, <2>3, LifeFollowsFlags, NextLife DEF LifeMoves, LifeIsFlags
<1> QED BY <1>1, <1>2, <1>3, <1>4, <1>5

LEMMA StepMoves == ASSUME ConnInv, [Next]_vars PROVE LifeMoves
<1>1. CASE StrandStep
  BY <1>1, RunsMove, TakesStays, FrameEndsStays, FlagsStayMoves DEF StrandStep
<1>2. ASSUME NEW u \in Users, UserStep(u) PROVE LifeMoves
  <2>1. CASE \E op \in Ops \ {"drop"} : Posts(u, op)
    BY <2>1, PostsStays, FlagsStayMoves
  <2>2. CASE DropConnection(u)
    BY <2>2, DropStays, FlagsStayMoves
  <2>3. CASE Resume(u) \/ BeginDestroyResultSet(u) \/ FreeStatement(u)
    <3>1. UNCHANGED <<wrapper, running, queue, connected_, cancelled_>>
      BY <2>3 DEF Resume, BeginDestroyResultSet, FreeStatement, connVars
    <3>2. Exists' = Exists
      BY <3>1, QueueStays DEF Exists, StrandOps
    <3> QED BY <3>1, <3>2, FlagsStayMoves
  <2> QED BY <1>2, <2>1, <2>2, <2>3
         DEF UserStep, CallConnect, CallExecute, CallQuery, CallNext, CallDisconnect, Ops
<1>3. CASE UNCHANGED vars
  <2>1. UNCHANGED <<wrapper, running, queue, connected_, cancelled_>>
    BY <1>3 DEF vars, connVars
  <2>2. Exists' = Exists
    BY <2>1, QueueStays DEF Exists, StrandOps
  <2> QED BY <2>1, <2>2, FlagsStayMoves
<1> QED BY <1>1, <1>2, <1>3 DEF Next

LEMMA WorldStays == ASSUME [Next]_vars PROVE UNCHANGED world
<1>1. CASE StrandStep
  BY <1>1 DEF StrandStep, StrandTakes, RunConnect, RunDisconnect, MarkChildrenDead, RunExecute,
       RunQuery, RunNext, FrameEnds, StatementFails, StatementComesAndGoes, StrandAborts
<1>2. ASSUME NEW u \in Users, UserStep(u) PROVE UNCHANGED world
  BY <1>2 DEF UserStep, CallConnect, CallExecute, CallQuery, CallNext, CallDisconnect, Posts,
       DropConnection, Resume, BeginDestroyResultSet, FreeStatement
<1> QED BY <1>1, <1>2 DEF Next, vars

(* Whatever thread lets go of the last reference, and whatever tasks were  *)
(* queued: the connection is opened at most once, closed in the driver     *)
(* before its handle goes, and has usable statements only in between;      *)
(* unless SQLDisconnect fails.                                             *)
THEOREM AsyncIsConnection == Spec => IsConnection
<1>1. Init => C!Init
  <2> SUFFICES ASSUME Init PROVE C!Init
    OBVIOUS
  <2>1. ConnInv /\ ~open /\ ~cancelled_ /\ ~connected_
    BY InitEstablishes DEF Init
  <2>2. Life \in {"gone", "new"} /\ Usable = {}
    BY <2>1, MappingHolds, LifeFollowsFlags DEF LifeIsFlags, MappingInv
  <2> QED BY <2>1, <2>2 DEF C!Init, Usable, ConnInv, TypeOK, DriverDisconnects
<1>2. ConnInv /\ ConnInv' /\ [Next]_vars => [DriverDisconnects => C!Next]_C!vars
  <2> SUFFICES ASSUME ConnInv, ConnInv', [Next]_vars, DriverDisconnects PROVE [C!Next]_C!vars
    OBVIOUS
  <2>1. MappingInv /\ MappingInv'
    <3>1. ConnInv' => MappingInv'
      BY MappingHolds, PTL
    <3> QED BY <3>1, MappingHolds
  <2>2. DriverDisconnects'
    <3>1. UNCHANGED world
      BY WorldStays
    <3> QED BY <3>1 DEF DriverDisconnects, world
  <2> QED BY <2>1, <2>2, StepMoves, MovesRefine
<1> QED BY <1>1, <1>2, ConnInvHolds, PTL DEF Spec, IsConnection, C!Spec
=============================================================================
