------------------------ MODULE ConnectionPoolProofs ------------------------
(***************************************************************************)
(* Proofs about ConnectionPool for every number of threads, handles and    *)
(* permits.  The inductive invariant joins the type invariant, the owner   *)
(* discipline and the two counting invariants, which need each other: the  *)
(* limit on open handles follows from the permits only while a thread that *)
(* opens a connection still has its permit.                                *)
(***************************************************************************)
EXTENDS ConnectionPool, FiniteSetTheorems, TLAPS

\* The variable c of acquire() is set exactly between open and append.
LocalWhileOpened == \A t \in Threads : local[t] # NULL <=> pc[t] = "opened"

IInv ==
    /\ TypeOK
    /\ LocalWhileOpened
    /\ OneOwner
    /\ IdleValid
    /\ PermitsAccounted
    /\ OpenLimit

-----------------------------------------------------------------------------
(* Counting. *)

\* Cardinalities of the finite sets of the model after one insertion or removal.
LEMMA CardMoves ==
    ASSUME NEW S, NEW x, IsFiniteSet(S)
    PROVE  /\ Cardinality(S) \in Nat
           /\ x \in S => /\ Cardinality(S \union {x}) = Cardinality(S)
                         /\ Cardinality(S \ {x}) = Cardinality(S) - 1
                         /\ Cardinality(S) >= 1
           /\ x \notin S => /\ Cardinality(S \union {x}) = Cardinality(S) + 1
                            /\ Cardinality(S \ {x}) = Cardinality(S)
<1>1. Cardinality(S) \in Nat
  BY FS_CardinalityType
<1>2. ASSUME x \in S
      PROVE  /\ Cardinality(S \union {x}) = Cardinality(S)
             /\ Cardinality(S \ {x}) = Cardinality(S) - 1
             /\ Cardinality(S) >= 1
  <2>1. S \union {x} = S
    BY <1>2
  <2>2. Cardinality(S \ {x}) = Cardinality(S) - 1 /\ IsFiniteSet(S \ {x})
    BY <1>2, FS_RemoveElement
  <2>3. Cardinality(S \ {x}) \in Nat
    BY <2>2, FS_CardinalityType
  <2> QED BY <1>1, <2>1, <2>2, <2>3
<1>3. ASSUME x \notin S
      PROVE  /\ Cardinality(S \union {x}) = Cardinality(S) + 1
             /\ Cardinality(S \ {x}) = Cardinality(S)
  <2>1. S \ {x} = S
    BY <1>3
  <2>2. Cardinality(S \union {x}) = Cardinality(S) + 1
    BY <1>3, FS_AddElement
  <2> QED BY <2>1, <2>2
<1> QED BY <1>1, <1>2, <1>3

\* The sets the counting invariants speak of are finite.
LEMMA FiniteParts ==
    ASSUME TypeOK
    PROVE  /\ IsFiniteSet(idle) /\ IsFiniteSet(acquired)
           /\ IsFiniteSet(InFlight) /\ IsFiniteSet(Opening)
           /\ Opening \subseteq InFlight
<1>1. idle \subseteq Conns /\ acquired \subseteq Conns
  BY DEF TypeOK
<1>2. InFlight \subseteq Threads /\ Opening \subseteq InFlight
  BY DEF InFlight, Opening, InFlightSteps
<1> QED BY <1>1, <1>2, FS_Subset, ThreadsAssumption, ConnsAssumption

\* How one step of thread t moves it in or out of the two sets of threads.
LEMMA ThreadMoves ==
    ASSUME pc \in [Threads -> Steps], NEW t \in Threads, NEW s \in Steps, Goto(t, s)
    PROVE  /\ InFlight' = IF s \in InFlightSteps THEN InFlight \union {t} ELSE InFlight \ {t}
           /\ Opening' = IF s \in {"opening", "opened"} THEN Opening \union {t} ELSE Opening \ {t}
<1>1. pc' = [pc EXCEPT ![t] = s]
  BY DEF Goto
<1>2. \A u \in Threads : pc'[u] = IF u = t THEN s ELSE pc[u]
  BY <1>1
<1> QED BY <1>2 DEF InFlight, Opening

-----------------------------------------------------------------------------
(* Initial states. *)

LEMMA InitIInv == Init => IInv
<1> SUFFICES ASSUME Init PROVE IInv
  OBVIOUS
<1> USE DEF Init
<1>1. TypeOK
  <2>1. 0 \in 0..Day-1 /\ 0 \in 0..Expiry /\ Max \in 0..Max
    BY MaxAssumption, TimeAssumption
  <2>2. calls \in Seq({"start", "stop"})
    OBVIOUS
  <2> QED BY <2>1, <2>2 DEF TypeOK, Steps
<1>2. LocalWhileOpened
  BY DEF LocalWhileOpened
<1>3. OneOwner
  <2>1. UNION {held[t] : t \in Threads} = {}
    OBVIOUS
  <2>2. InLocal = {}
    BY DEF InLocal
  <2> QED BY <2>1, <2>2 DEF OneOwner
<1>4. IdleValid
  BY DEF IdleValid
<1>5. InFlight = {} /\ Opening = {}
  BY DEF InFlight, InFlightSteps, Opening
<1>6. PermitsAccounted /\ OpenLimit
  BY <1>5, FS_EmptySet, MaxAssumption DEF PermitsAccounted, OpenLimit
<1> QED BY <1>1, <1>2, <1>3, <1>4, <1>6 DEF IInv

-----------------------------------------------------------------------------
(* Steps. *)

\* acquire() finds the idle connection valid, so it hands out that one.
LEMMA PopIdleValid ==
    ASSUME IInv, NEW t \in Threads, PopIdle(t)
    PROVE  \E c \in idle :
              /\ Unlist({c})
              /\ acquired' = acquired \union {c}
              /\ held' = [held EXCEPT ![t] = @ \union {c}]
              /\ UNCHANGED <<sem, valid, stale, missed, clock, local>>
<1>1. PICK c \in idle : \E h \in Recheck(c) :
          /\ Unlist({c})
          /\ acquired' = acquired \union {h}
          /\ held' = [held EXCEPT ![t] = @ \union {h}]
          /\ IF c \in valid
             THEN UNCHANGED <<valid, stale, missed>>
             ELSE /\ valid' = (valid \union {h}) \ {NULL}
                  /\ Forget({c, h})
  BY DEF PopIdle
<1>2. c \in valid
  BY DEF IInv, IdleValid
<1>3. Recheck(c) = {c}
  BY <1>2 DEF Recheck
<1> QED BY <1>1, <1>2, <1>3 DEF PopIdle

\* Both ways of running a start or stop call keep the timer's types.
LEMMA InvokeType ==
    ASSUME TypeOK, NEW t, NEW call \in {"start", "stop"}, Invoke(t, call)
    PROVE  timer' \in BOOLEAN /\ calls' \in Seq({"start", "stop"})
<1>1. CASE t = Main
  <2>1. timer' = (call = "start") /\ calls' = calls
    BY <1>1 DEF Invoke
  <2> QED BY <2>1 DEF TypeOK
<1>2. CASE t # Main
  <2>1. calls' = Append(calls, call) /\ timer' = timer
    BY <1>2 DEF Invoke
  <2>2. calls' \in Seq({"start", "stop"})
    BY <2>1 DEF TypeOK
  <2> QED BY <2>1, <2>2 DEF TypeOK
<1> QED BY <1>1, <1>2

\* Items leave the idle list and its two functions keep their types.
LEMMA UnlistType ==
    ASSUME TypeOK, NEW C, Unlist(C)
    PROVE  /\ idle' \in SUBSET Conns
           /\ lastUsed' \in [Conns -> 0..Day-1]
           /\ age' \in [Conns -> 0..Expiry]
<1>1. 0 \in 0..Day-1 /\ 0 \in 0..Expiry
  BY TimeAssumption
<1> QED BY <1>1 DEF Unlist, TypeOK

LEMMA TypeNext ==
    ASSUME IInv, PermitsAccounted', [Next]_vars
    PROVE  TypeOK'
<1> USE DEF IInv
<1> DEFINE Rest == /\ idle' \in SUBSET Conns
                   /\ lastUsed' \in [Conns -> 0..Day-1]
                   /\ acquired' \in SUBSET Conns
                   /\ valid' \in SUBSET Conns
                   /\ timer' \in BOOLEAN
                   /\ calls' \in Seq({"start", "stop"})
                   /\ clock' \in 0..Day-1
                   /\ pc' \in [Threads -> Steps]
                   /\ local' \in [Threads -> Conns \union {NULL}]
                   /\ held' \in [Threads -> SUBSET Conns]
                   /\ stale' \in SUBSET Conns
                   /\ missed' \in SUBSET Conns
                   /\ age' \in [Conns -> 0..Expiry]
<1>1. ASSUME NEW t \in Threads, Acquire(t) PROVE Rest /\ sem' \in Nat
  BY <1>1, MaxAssumption DEF TypeOK, Acquire, Goto, Steps, poolVars, timerVars, history
<1>2. ASSUME NEW t \in Threads, TakePermit(t) PROVE Rest /\ sem' \in Nat
  BY <1>2, MaxAssumption DEF TypeOK, TakePermit, Goto, Steps, timerVars, history
<1>3. ASSUME NEW t \in Threads, PopIdle(t) PROVE Rest /\ sem' \in Nat
  <2>1. PICK c \in idle :
              /\ Unlist({c})
              /\ acquired' = acquired \union {c}
              /\ held' = [held EXCEPT ![t] = @ \union {c}]
              /\ UNCHANGED <<sem, valid, stale, missed, clock, local>>
    BY <1>3, PopIdleValid
  <2>2. timer' \in BOOLEAN /\ calls' \in Seq({"start", "stop"})
    <3>1. CASE idle' = {}
      <4>1. Invoke(t, "stop")
        BY <1>3, <3>1 DEF PopIdle
      <4> QED BY <4>1, InvokeType
    <3>2. CASE idle' # {}
      BY <1>3, <3>2 DEF PopIdle, timerVars, TypeOK
    <3> QED BY <3>1, <3>2
  <2>3. pc' \in [Threads -> Steps]
    BY <1>3 DEF PopIdle, Goto, Steps, TypeOK
  <2>4. idle' \in SUBSET Conns /\ lastUsed' \in [Conns -> 0..Day-1] /\ age' \in [Conns -> 0..Expiry]
    BY <2>1, UnlistType
  <2>5. acquired' \in SUBSET Conns /\ held' \in [Threads -> SUBSET Conns]
    BY <2>1 DEF TypeOK
  <2>6. /\ valid' = valid /\ stale' = stale /\ missed' = missed
        /\ clock' = clock /\ local' = local /\ sem' = sem
    BY <2>1
  <2> QED BY <2>2, <2>3, <2>4, <2>5, <2>6, MaxAssumption DEF TypeOK
<1>4. ASSUME NEW t \in Threads, FindNoIdle(t) PROVE Rest /\ sem' \in Nat
  BY <1>4, MaxAssumption DEF TypeOK, FindNoIdle, Goto, Steps, poolVars, timerVars, history
<1>5. ASSUME NEW t \in Threads, OpenConn(t) PROVE Rest /\ sem' \in Nat
  BY <1>5, MaxAssumption DEF TypeOK, OpenConn, Unused, Forget, Goto, Steps, timerVars
<1>6. ASSUME NEW t \in Threads, OpenFails(t) PROVE Rest /\ sem' \in Nat
  BY <1>6, MaxAssumption DEF TypeOK, OpenFails, Goto, Steps, poolVars, timerVars, history
<1>7. ASSUME NEW t \in Threads, AppendAcquired(t) PROVE Rest /\ sem' \in Nat
  <2>1. local[t] \in Conns
    BY <1>7 DEF AppendAcquired, LocalWhileOpened, TypeOK
  <2> QED BY <1>7, <2>1, MaxAssumption DEF TypeOK, AppendAcquired, Goto, Steps, timerVars, history
<1>8. ASSUME NEW t \in Threads, Release(t) PROVE Rest /\ sem' \in Nat
  <2>1. PICK c \in held[t] :
          /\ acquired' = acquired \ {c}
          /\ held' = [held EXCEPT ![t] = @ \ {c}]
          /\ PushIdle(t, c) \/ DestroyReleased(c)
    BY <1>8 DEF Release
  <2>2. c \in Conns
    BY DEF TypeOK
  <2>3. pc' \in [Threads -> Steps]
    BY <1>8 DEF Release, Goto, Steps, TypeOK
  <2>6. acquired' \in SUBSET Conns /\ held' \in [Threads -> SUBSET Conns]
    BY <2>1 DEF TypeOK
  <2>7. valid' = valid /\ clock' = clock /\ local' = local /\ sem' \in Nat
    BY <1>8, MaxAssumption DEF Release, TypeOK
  <2>4. CASE PushIdle(t, c)
    <3>1. timer' \in BOOLEAN /\ calls' \in Seq({"start", "stop"})
      <4>1. CASE timer
        BY <2>4, <4>1 DEF PushIdle, timerVars, TypeOK
      <4>2. CASE ~timer
        <5>1. Invoke(t, "start")
          BY <2>4, <4>2 DEF PushIdle
        <5> QED BY <5>1, InvokeType
      <4> QED BY <4>1, <4>2
    <3>2. 0 \in 0..Expiry
      BY TimeAssumption
    <3>3. /\ idle' \in SUBSET Conns
          /\ lastUsed' \in [Conns -> 0..Day-1]
          /\ age' \in [Conns -> 0..Expiry]
          /\ stale' = stale /\ missed' = missed
      BY <2>2, <2>4, <3>2 DEF TypeOK, PushIdle
    <3> QED BY <2>3, <2>6, <2>7, <3>1, <3>3 DEF TypeOK
  <2>5. CASE DestroyReleased(c)
    <3>1. /\ idle' = idle /\ lastUsed' = lastUsed /\ age' = age
          /\ timer' = timer /\ calls' = calls
          /\ stale' \in SUBSET Conns /\ missed' \in SUBSET Conns
      BY <2>5 DEF DestroyReleased, Forget, timerVars, TypeOK
    <3> QED BY <2>3, <2>6, <2>7, <3>1 DEF TypeOK
  <2> QED BY <2>1, <2>4, <2>5
<1>9. ASSUME NEW t \in Threads, ReturnPermit(t) PROVE Rest /\ sem' \in Nat
  BY <1>9, MaxAssumption DEF TypeOK, ReturnPermit, Goto, Steps, timerVars, history
<1>10. ASSUME InvalidateConnections PROVE Rest /\ sem' \in Nat
  <2>1. InLocal \subseteq Conns
    BY DEF InLocal, TypeOK
  <2> QED BY <1>10, <2>1, UnlistType, MaxAssumption DEF TypeOK, InvalidateConnections, timerVars, threadVars
<1>11. ASSUME RunQueuedCall PROVE Rest /\ sem' \in Nat
  <2>1. calls' \in Seq({"start", "stop"})
    BY <1>11 DEF RunQueuedCall, TypeOK
  <2> QED BY <1>11, <2>1, MaxAssumption DEF TypeOK, RunQueuedCall, poolVars, threadVars, history
<1>12. ASSUME ConnectionExpired PROVE Rest /\ sem' \in Nat
  BY <1>12, UnlistType, MaxAssumption DEF TypeOK, ConnectionExpired, Forget, threadVars
<1>13. ASSUME Tick PROVE Rest /\ sem' \in Nat
  <2>1. (clock + 1) % Day \in 0..Day-1
    BY TimeAssumption DEF TypeOK
  <2>2. age' \in [Conns -> 0..Expiry]
    BY <1>13, TimeAssumption DEF Tick, TypeOK
  <2> QED BY <1>13, <2>1, <2>2, MaxAssumption DEF TypeOK, Tick, poolVars, timerVars, threadVars
<1>14. ASSUME UNCHANGED vars PROVE Rest /\ sem' \in Nat
  BY <1>14, MaxAssumption DEF TypeOK, vars, poolVars, timerVars, threadVars, history
<1>15. Rest /\ sem' \in Nat
  BY <1>1, <1>2, <1>3, <1>4, <1>5, <1>6, <1>7, <1>8, <1>9, <1>10, <1>11, <1>12, <1>13, <1>14 DEF Next
<1>16. IsFiniteSet(acquired') /\ IsFiniteSet(InFlight')
  <2>1. InFlight' \subseteq Threads
    BY DEF InFlight
  <2> QED BY <1>15, <2>1, FS_Subset, ThreadsAssumption, ConnsAssumption
<1>17. Cardinality(acquired') \in Nat /\ Cardinality(InFlight') \in Nat
  BY <1>16, FS_CardinalityType
<1>18. sem' \in 0..Max
  BY <1>15, <1>17, MaxAssumption DEF PermitsAccounted
<1> QED BY <1>15, <1>18 DEF TypeOK

LEMMA LocalNext ==
    ASSUME IInv, [Next]_vars
    PROVE  LocalWhileOpened'
<1> USE DEF IInv, LocalWhileOpened
<1>1. ASSUME NEW t \in Threads, NEW s \in Steps \ {"opened"}, pc[t] # "opened",
             Goto(t, s), UNCHANGED local
      PROVE  LocalWhileOpened'
  BY <1>1 DEF Goto, TypeOK
<1>2. ASSUME NEW t \in Threads, OpenConn(t) PROVE LocalWhileOpened'
  BY <1>2, ConnsAssumption DEF OpenConn, Unused, Goto, TypeOK
<1>3. ASSUME NEW t \in Threads, AppendAcquired(t) PROVE LocalWhileOpened'
  BY <1>3 DEF AppendAcquired, Goto, TypeOK
<1>4. ASSUME NEW t \in Threads, Acquire(t) PROVE LocalWhileOpened'
  BY <1>1, <1>4 DEF Acquire, Steps
<1>5. ASSUME NEW t \in Threads, TakePermit(t) PROVE LocalWhileOpened'
  BY <1>1, <1>5 DEF TakePermit, Steps
<1>6. ASSUME NEW t \in Threads, PopIdle(t) PROVE LocalWhileOpened'
  BY <1>1, <1>6 DEF PopIdle, Steps
<1>7. ASSUME NEW t \in Threads, FindNoIdle(t) PROVE LocalWhileOpened'
  BY <1>1, <1>7 DEF FindNoIdle, Steps
<1>8. ASSUME NEW t \in Threads, OpenFails(t) PROVE LocalWhileOpened'
  BY <1>1, <1>8 DEF OpenFails, Steps
<1>9. ASSUME NEW t \in Threads, Release(t) PROVE LocalWhileOpened'
  BY <1>1, <1>9 DEF Release, Steps
<1>10. ASSUME NEW t \in Threads, ReturnPermit(t) PROVE LocalWhileOpened'
  BY <1>1, <1>10 DEF ReturnPermit, Steps
<1>11. CASE UNCHANGED <<pc, local>>
  BY <1>11
<1> QED
  BY <1>2, <1>3, <1>4, <1>5, <1>6, <1>7, <1>8, <1>9, <1>10, <1>11
  DEF Next, InvalidateConnections, RunQueuedCall, ConnectionExpired, Tick, threadVars, vars

LEMMA IdleValidNext ==
    ASSUME IInv, [Next]_vars
    PROVE  IdleValid'
<1> USE DEF IInv, IdleValid
<1>1. ASSUME NEW t \in Threads, PopIdle(t) PROVE IdleValid'
  <2>1. PICK c \in idle : Unlist({c}) /\ valid' = valid
    BY <1>1, PopIdleValid
  <2> QED BY <2>1 DEF Unlist
<1>2. ASSUME NEW t \in Threads, Release(t) PROVE IdleValid'
  <2>1. PICK c \in held[t] : PushIdle(t, c) \/ DestroyReleased(c)
    BY <1>2 DEF Release
  <2> QED BY <1>2, <2>1 DEF Release, PushIdle, DestroyReleased
<1>3. CASE InvalidateConnections
  BY <1>3 DEF InvalidateConnections, Unlist
<1>4. CASE ConnectionExpired
  BY <1>4 DEF ConnectionExpired, Unlist
<1>5. ASSUME NEW t \in Threads, OpenConn(t) PROVE IdleValid'
  BY <1>5 DEF OpenConn
<1>6. CASE UNCHANGED <<idle, valid>>
  BY <1>6
<1> QED
  BY <1>1, <1>2, <1>3, <1>4, <1>5, <1>6
  DEF Next, Acquire, TakePermit, FindNoIdle, OpenFails, AppendAcquired, ReturnPermit,
      RunQueuedCall, Tick, poolVars, vars

LEMMA OwnerNext ==
    ASSUME IInv, [Next]_vars
    PROVE  OneOwner'
<1> USE DEF IInv, OneOwner
<1>1. ASSUME NEW t \in Threads, PopIdle(t) PROVE OneOwner'
  <2>1. PICK c \in idle :
          /\ Unlist({c})
          /\ acquired' = acquired \union {c}
          /\ held' = [held EXCEPT ![t] = @ \union {c}]
          /\ local' = local
    BY <1>1, PopIdleValid
  <2>2. InLocal' = InLocal /\ idle' = idle \ {c}
    BY <2>1 DEF InLocal, Unlist
  <2>3. acquired' = UNION {held'[u] : u \in Threads}
    BY <2>1 DEF TypeOK
  <2>4. c \notin InLocal /\ \A u \in Threads : c \notin held[u]
    OBVIOUS
  <2>5. \A u, v \in Threads : u # v => held'[u] \intersect held'[v] = {}
    BY <2>1, <2>4 DEF TypeOK
  <2> QED BY <2>1, <2>2, <2>3, <2>4, <2>5
<1>2. ASSUME NEW t \in Threads, OpenConn(t) PROVE OneOwner'
  <2>1. PICK c \in Unused : local' = [local EXCEPT ![t] = c]
    BY <1>2 DEF OpenConn
  <2>2. InLocal' \subseteq InLocal \union {c}
    BY <2>1 DEF InLocal, TypeOK
  <2>3. UNCHANGED <<idle, acquired, held>>
    BY <1>2 DEF OpenConn
  <2>4. \A u, v \in Threads : u # v /\ local'[u] # NULL => local'[u] # local'[v]
    <3>1. \A u \in Threads : local[u] # c
      BY ConnsAssumption DEF Unused, Open, InLocal
    <3> QED BY <2>1, <3>1 DEF TypeOK
  <2>5. c \notin idle /\ c \notin acquired
    BY DEF Unused, Open
  <2> QED BY <2>2, <2>3, <2>4, <2>5
<1>3. ASSUME NEW t \in Threads, AppendAcquired(t) PROVE OneOwner'
  <2> DEFINE c == local[t]
  <2>1. c \in Conns /\ c \in InLocal
    BY <1>3 DEF AppendAcquired, LocalWhileOpened, TypeOK, InLocal
  <2>2. /\ acquired' = acquired \union {c}
        /\ held' = [held EXCEPT ![t] = @ \union {c}]
        /\ local' = [local EXCEPT ![t] = NULL]
        /\ idle' = idle
    BY <1>3 DEF AppendAcquired
  <2>3. InLocal' \subseteq InLocal \ {c}
    BY <2>1, <2>2, ConnsAssumption DEF InLocal, TypeOK
  <2>4. acquired' = UNION {held'[u] : u \in Threads}
    BY <2>2 DEF TypeOK
  <2>5. \A u \in Threads : c \notin held[u]
    BY <2>1
  <2>6. \A u, v \in Threads : u # v => held'[u] \intersect held'[v] = {}
    BY <2>2, <2>5 DEF TypeOK
  <2>7. \A u, v \in Threads : u # v /\ local'[u] # NULL => local'[u] # local'[v]
    BY <2>2 DEF TypeOK
  <2>8. c \notin idle
    BY <2>1
  <2> HIDE DEF c
  <2> QED BY <2>2, <2>3, <2>4, <2>6, <2>7, <2>8
<1>4. ASSUME NEW t \in Threads, Release(t) PROVE OneOwner'
  <2>1. PICK c \in held[t] :
          /\ acquired' = acquired \ {c}
          /\ held' = [held EXCEPT ![t] = @ \ {c}]
          /\ PushIdle(t, c) \/ DestroyReleased(c)
    BY <1>4 DEF Release
  <2>2. local' = local /\ InLocal' = InLocal
    BY <1>4 DEF Release, InLocal
  <2>3. idle' \subseteq idle \union {c}
    BY <2>1 DEF PushIdle, DestroyReleased
  <2>4. acquired' = UNION {held'[u] : u \in Threads}
    BY <2>1 DEF TypeOK
  <2>5. \A u, v \in Threads : u # v => held'[u] \intersect held'[v] = {}
    BY <2>1 DEF TypeOK
  <2>6. c \notin InLocal
    OBVIOUS
  <2> QED BY <2>1, <2>2, <2>3, <2>4, <2>5, <2>6
<1>5. CASE /\ idle' \subseteq idle
           /\ UNCHANGED <<acquired, held, local>>
  <2>1. InLocal' = InLocal
    BY <1>5 DEF InLocal
  <2> QED BY <1>5, <2>1
<1>6. CASE InvalidateConnections \/ ConnectionExpired
  BY <1>5, <1>6 DEF InvalidateConnections, ConnectionExpired, Unlist, threadVars
<1>7. CASE Tick \/ RunQueuedCall \/ UNCHANGED vars
  BY <1>5, <1>7 DEF Tick, RunQueuedCall, vars, poolVars, threadVars
<1>8. ASSUME NEW t \in Threads,
             Acquire(t) \/ TakePermit(t) \/ FindNoIdle(t) \/ OpenFails(t) \/ ReturnPermit(t)
      PROVE  OneOwner'
  BY <1>5, <1>8 DEF Acquire, TakePermit, FindNoIdle, OpenFails, ReturnPermit, poolVars
<1> QED BY <1>1, <1>2, <1>3, <1>4, <1>6, <1>7, <1>8 DEF Next

\* The counters of the two invariants before a step, as numbers.
LEMMA Counters ==
    ASSUME IInv
    PROVE  /\ sem \in Nat /\ Max \in Nat
           /\ Cardinality(idle) \in Nat /\ Cardinality(acquired) \in Nat
           /\ Cardinality(InFlight) \in Nat /\ Cardinality(Opening) \in Nat
           /\ sem + Cardinality(acquired) + Cardinality(InFlight) = Max
           /\ Cardinality(idle) + Cardinality(acquired) + Cardinality(Opening) <= Max
BY FiniteParts, FS_CardinalityType, MaxAssumption DEF IInv, TypeOK, PermitsAccounted, OpenLimit

LEMMA CountNext ==
    ASSUME IInv, [Next]_vars
    PROVE  PermitsAccounted' /\ OpenLimit'
<1> DEFINE I == Cardinality(idle)
           A == Cardinality(acquired)
           F == Cardinality(InFlight)
           O == Cardinality(Opening)
<1> USE DEF IInv
<1>0. /\ IsFiniteSet(idle) /\ IsFiniteSet(acquired)
      /\ IsFiniteSet(InFlight) /\ IsFiniteSet(Opening)
      /\ Opening \subseteq InFlight
  BY FiniteParts
<1>a. /\ sem \in Nat /\ Max \in Nat
      /\ I \in Nat /\ A \in Nat /\ F \in Nat /\ O \in Nat
      /\ sem + A + F = Max /\ I + A + O <= Max
  BY Counters
<1>b. pc \in [Threads -> Steps]
  BY DEF TypeOK
<1> HIDE DEF I, A, F, O
<1> DEFINE Balance == /\ I' \in Int /\ A' \in Int /\ O' \in Int
                      /\ sem' + A' + F' = sem + A + F
                      /\ \/ I' + A' + O' <= I + A + O
                         \/ I' + A' + O' <= Max
<1>c. SUFFICES Balance
  BY <1>a DEF PermitsAccounted, OpenLimit, I, A, F, O
<1>1. ASSUME NEW t \in Threads, Acquire(t) PROVE Balance
  <2>1. InFlight' = InFlight \ {t} /\ Opening' = Opening \ {t}
    BY <1>b, <1>1, ThreadMoves DEF Acquire, Steps, InFlightSteps
  <2>2. t \notin InFlight /\ t \notin Opening
    BY <1>1 DEF Acquire, InFlight, InFlightSteps, Opening
  <2>3. InFlight' = InFlight /\ Opening' = Opening
    BY <2>1, <2>2
  <2> QED BY <1>1, <1>a, <2>3 DEF Acquire, poolVars, I, A, F, O
<1>2. ASSUME NEW t \in Threads, TakePermit(t) PROVE Balance
  <2>1. InFlight' = InFlight \union {t} /\ Opening' = Opening \ {t}
    BY <1>b, <1>2, ThreadMoves DEF TakePermit, Steps, InFlightSteps
  <2>2. t \notin InFlight /\ t \notin Opening
    BY <1>2 DEF TakePermit, InFlight, InFlightSteps, Opening
  <2>3. F' = F + 1 /\ O' = O
    BY <1>0, <2>1, <2>2, CardMoves DEF F, O
  <2>4. sem' = sem - 1 /\ I' = I /\ A' = A
    BY <1>2 DEF TakePermit, I, A
  <2> QED BY <1>a, <2>3, <2>4
<1>3. ASSUME NEW t \in Threads, PopIdle(t) PROVE Balance
  <2>1. PICK c \in idle :
          Unlist({c}) /\ acquired' = acquired \union {c} /\ sem' = sem
    BY <1>3, PopIdleValid
  <2>2. c \notin acquired
    BY DEF OneOwner
  <2>3. I' = I - 1 /\ A' = A + 1
    BY <1>0, <2>1, <2>2, CardMoves DEF Unlist, I, A
  <2>4. InFlight' = InFlight \ {t} /\ Opening' = Opening \ {t}
    BY <1>b, <1>3, ThreadMoves DEF PopIdle, Steps, InFlightSteps
  <2>5. t \in InFlight /\ t \notin Opening
    BY <1>3 DEF PopIdle, InFlight, InFlightSteps, Opening
  <2>6. F' = F - 1 /\ O' = O
    BY <1>0, <2>4, <2>5, CardMoves DEF F, O
  <2> QED BY <1>a, <2>1, <2>3, <2>6
<1>4. ASSUME NEW t \in Threads, FindNoIdle(t) PROVE Balance
  <2>1. InFlight' = InFlight \union {t} /\ Opening' = Opening \union {t}
    BY <1>b, <1>4, ThreadMoves DEF FindNoIdle, Steps, InFlightSteps
  <2>2. t \in InFlight /\ t \notin Opening
    BY <1>4 DEF FindNoIdle, InFlight, InFlightSteps, Opening
  <2>3. F' = F /\ O' = O + 1
    BY <1>0, <2>1, <2>2, CardMoves DEF F, O
  <2>4. O + 1 <= F
    <3>1. Opening' \subseteq InFlight
      BY <1>0, <2>1, <2>2
    <3> QED BY <1>0, <3>1, <2>3, FS_Subset DEF F, O
  <2>5. I = 0 /\ I' = I /\ A' = A /\ sem' = sem
    BY <1>4, FS_EmptySet DEF FindNoIdle, poolVars, I, A
  <2> QED BY <1>a, <2>3, <2>4, <2>5
<1>5. ASSUME NEW t \in Threads, OpenConn(t) PROVE Balance
  <2>1. InFlight' = InFlight \union {t} /\ Opening' = Opening \union {t}
    BY <1>b, <1>5, ThreadMoves DEF OpenConn, Steps, InFlightSteps
  <2>2. t \in InFlight /\ t \in Opening
    BY <1>5 DEF OpenConn, InFlight, InFlightSteps, Opening
  <2>3. InFlight' = InFlight /\ Opening' = Opening
    BY <2>1, <2>2
  <2> QED BY <1>5, <1>a, <2>3 DEF OpenConn, I, A, F, O
<1>6. ASSUME NEW t \in Threads, OpenFails(t) PROVE Balance
  <2>1. InFlight' = InFlight \union {t} /\ Opening' = Opening \ {t}
    BY <1>b, <1>6, ThreadMoves DEF OpenFails, Steps, InFlightSteps
  <2>2. t \in InFlight /\ t \in Opening
    BY <1>6 DEF OpenFails, InFlight, InFlightSteps, Opening
  <2>3. F' = F /\ O' = O - 1
    BY <1>0, <2>1, <2>2, CardMoves DEF F, O
  <2> QED BY <1>6, <1>a, <2>3 DEF OpenFails, poolVars, I, A
<1>7. ASSUME NEW t \in Threads, AppendAcquired(t) PROVE Balance
  <2>1. InFlight' = InFlight \ {t} /\ Opening' = Opening \ {t}
    BY <1>b, <1>7, ThreadMoves DEF AppendAcquired, Steps, InFlightSteps
  <2>2. t \in InFlight /\ t \in Opening
    BY <1>7 DEF AppendAcquired, InFlight, InFlightSteps, Opening
  <2>3. F' = F - 1 /\ O' = O - 1
    BY <1>0, <2>1, <2>2, CardMoves DEF F, O
  <2>4. local[t] \notin acquired
    BY <1>7 DEF AppendAcquired, LocalWhileOpened, OneOwner, InLocal, TypeOK
  <2>5. A' = A + 1
    BY <1>0, <1>7, <2>4, CardMoves DEF AppendAcquired, A
  <2> QED BY <1>7, <1>a, <2>3, <2>5 DEF AppendAcquired, I
<1>8. ASSUME NEW t \in Threads, Release(t) PROVE Balance
  <2>1. InFlight' = InFlight \union {t} /\ Opening' = Opening \ {t}
    BY <1>b, <1>8, ThreadMoves DEF Release, Steps, InFlightSteps
  <2>2. t \notin InFlight /\ t \notin Opening
    BY <1>8 DEF Release, InFlight, InFlightSteps, Opening
  <2>3. F' = F + 1 /\ O' = O
    BY <1>0, <2>1, <2>2, CardMoves DEF F, O
  <2>4. PICK c \in held[t] :
          acquired' = acquired \ {c} /\ (PushIdle(t, c) \/ DestroyReleased(c))
    BY <1>8 DEF Release
  <2>5. c \in acquired /\ c \notin idle
    BY DEF OneOwner
  <2>6. A' = A - 1
    BY <1>0, <2>4, <2>5, CardMoves DEF A
  <2>7. I' = I \/ I' = I + 1
    BY <1>0, <2>4, <2>5, CardMoves DEF PushIdle, DestroyReleased, I
  <2>8. sem' = sem
    BY <1>8 DEF Release
  <2> QED BY <1>a, <2>3, <2>6, <2>7, <2>8
<1>9. ASSUME NEW t \in Threads, ReturnPermit(t) PROVE Balance
  <2>1. InFlight' = InFlight \ {t} /\ Opening' = Opening \ {t}
    BY <1>b, <1>9, ThreadMoves DEF ReturnPermit, Steps, InFlightSteps
  <2>2. t \in InFlight /\ t \notin Opening
    BY <1>9 DEF ReturnPermit, InFlight, InFlightSteps, Opening
  <2>3. F' = F - 1 /\ O' = O
    BY <1>0, <2>1, <2>2, CardMoves DEF F, O
  <2>4. sem' = sem + 1 /\ I' = I /\ A' = A
    BY <1>9 DEF ReturnPermit, I, A
  <2> QED BY <1>a, <2>3, <2>4
<1>10. CASE /\ idle' \subseteq idle
            /\ UNCHANGED <<acquired, sem, pc>>
  <2>1. InFlight' = InFlight /\ Opening' = Opening
    BY <1>10 DEF InFlight, Opening
  <2>2. I' \in Nat /\ I' <= I
    BY <1>0, <1>10, FS_Subset, FS_CardinalityType DEF I
  <2> QED BY <1>10, <1>a, <2>1, <2>2 DEF A, F, O
<1>11. CASE InvalidateConnections \/ ConnectionExpired \/ Tick \/ RunQueuedCall \/ UNCHANGED vars
  BY <1>10, <1>11
  DEF InvalidateConnections, ConnectionExpired, Unlist, Tick, RunQueuedCall, vars, poolVars, threadVars
<1> QED
  BY <1>1, <1>2, <1>3, <1>4, <1>5, <1>6, <1>7, <1>8, <1>9, <1>11 DEF Next

-----------------------------------------------------------------------------
(* The invariants, for every value of the constants. *)

LEMMA Invariance == Spec => []IInv
<1>1. IInv /\ [Next]_vars => IInv'
  BY TypeNext, LocalNext, OwnerNext, IdleValidNext, CountNext DEF IInv
<1> QED BY InitIInv, <1>1, PTL DEF Spec

\* Every variable keeps its type; the semaphore never holds more permits than
\* it was made with (qgsconnectionpool.h:82-153).
THEOREM TypeCorrect == Spec => []TypeOK
<1>1. IInv => TypeOK
  BY DEF IInv
<1> QED BY <1>1, Invariance, PTL

\* No permit is lost or duplicated by any path of acquire() and release(),
\* the failing one included (qgsconnectionpool.h:115-120).
THEOREM PermitsAlwaysAccounted == Spec => []PermitsAccounted
<1>1. IInv => PermitsAccounted
  BY DEF IInv
<1> QED BY <1>1, Invariance, PTL

\* No handle is ever shared by two callers or idle while somebody uses it.
THEOREM HandlesHaveOneOwner == Spec => []OneOwner
<1>1. IInv => OneOwner
  BY DEF IInv
<1> QED BY <1>1, Invariance, PTL

\* Never more than Max handles are open or being opened, although they are
\* opened outside of the mutex (qgsconnectionpool.h:112-113).
THEOREM OpenHandlesLimited == Spec => []OpenLimit
<1>1. IInv => OpenLimit
  BY DEF IInv
<1> QED BY <1>1, Invariance, PTL

\* The idle list holds valid connections only, so that the second validity
\* check (qgsconnectionpool.h:94-98) is dead code.
THEOREM IdleAlwaysValid == Spec => []IdleValid
<1>1. IInv => IdleValid
  BY DEF IInv
<1> QED BY <1>1, Invariance, PTL

-----------------------------------------------------------------------------
(* Invalidated connections. *)

StaleInv == stale \subseteq acquired /\ stale \intersect valid = {}

LEMMA StaleNext ==
    ASSUME IInv, StaleInv, [Next]_vars
    PROVE  StaleInv'
<1> USE DEF StaleInv
<1>1. ASSUME NEW t \in Threads, PopIdle(t) PROVE StaleInv'
  BY <1>1, PopIdleValid
<1>2. ASSUME NEW t \in Threads, OpenConn(t) PROVE StaleInv'
  BY <1>2 DEF OpenConn, Forget
<1>3. ASSUME NEW t \in Threads, AppendAcquired(t) PROVE StaleInv'
  BY <1>3 DEF AppendAcquired, history
<1>4. ASSUME NEW t \in Threads, Release(t) PROVE StaleInv'
  BY <1>4 DEF Release, PushIdle, DestroyReleased, Forget
<1>5. CASE InvalidateConnections
  BY <1>5 DEF InvalidateConnections
<1>6. CASE ConnectionExpired
  BY <1>6 DEF ConnectionExpired, Forget
<1>7. CASE UNCHANGED <<acquired, valid, stale>>
  BY <1>7
<1> QED
  BY <1>1, <1>2, <1>3, <1>4, <1>5, <1>6, <1>7
  DEF Next, Acquire, TakePermit, FindNoIdle, OpenFails, ReturnPermit, RunQueuedCall, Tick,
      poolVars, history, vars

\* What a caller held during an invalidation is destroyed when it is released
\* and reaches no other caller (qgsconnectionpool.h:132-135 and 163-164).
THEOREM InvalidatedAreNotReused == Spec => []InvalidatedNotReused
<1>1. Init => StaleInv
  BY DEF Init, StaleInv
<1>2. IInv /\ StaleInv /\ [Next]_vars => StaleInv'
  BY StaleNext
<1>3. IInv /\ StaleInv => InvalidatedNotReused
  BY DEF IInv, OneOwner, StaleInv, InvalidatedNotReused
<1> QED BY <1>1, <1>2, <1>3, Invariance, PTL DEF Spec

-----------------------------------------------------------------------------
(* The pool implements its contract. *)

asking == {t \in Threads : pc[t] \notin {"rest", "unlocked"}}

\* How one step of thread t moves it in or out of the asking callers.
LEMMA AskingMoves ==
    ASSUME pc \in [Threads -> Steps], NEW t \in Threads, NEW s \in Steps, Goto(t, s)
    PROVE  asking' = IF s \in {"rest", "unlocked"} THEN asking \ {t} ELSE asking \union {t}
<1>1. \A u \in Threads : pc'[u] = IF u = t THEN s ELSE pc[u]
  BY DEF Goto
<1> QED BY <1>1 DEF asking

\* A thread with a permit may get a connection: the limit is not reached.
LEMMA RoomForOne ==
    ASSUME IInv, NEW t \in InFlight
    PROVE  Contract!AllOut = acquired /\ Contract!Cardinality(acquired) < Max
<1>1. Cardinality(InFlight) >= 1
  BY FiniteParts, CardMoves DEF IInv
<1>2. Contract!AllOut = acquired
  BY DEF IInv, OneOwner, Contract!AllOut
<1>3. Cardinality(acquired) < Max
  BY <1>1, Counters
<1>4. Contract!Cardinality(acquired) = Cardinality(acquired)
  BY DEF Contract!Cardinality, Cardinality
<1> QED BY <1>2, <1>3, <1>4

LEMMA ContractStep ==
    ASSUME IInv, [Next]_vars
    PROVE  [Contract!Next]_<<held, asking>>
<1> USE DEF IInv
<1>a. pc \in [Threads -> Steps]
  BY DEF TypeOK
<1>1. ASSUME NEW t \in Threads, Acquire(t) PROVE Contract!Ask(t)
  <2>1. asking' = asking \union {t}
    BY <1>a, <1>1, AskingMoves DEF Acquire, Steps
  <2> QED BY <1>1, <2>1 DEF Acquire, Contract!Ask, asking
<1>2. ASSUME NEW t \in Threads, PopIdle(t) PROVE \E r \in Conns : Contract!Grant(t, r)
  <2>1. PICK c \in idle : held' = [held EXCEPT ![t] = @ \union {c}]
    BY <1>2, PopIdleValid
  <2>2. asking' = asking \ {t} /\ t \in asking
    BY <1>a, <1>2, AskingMoves DEF PopIdle, Steps, asking
  <2>3. c \in Conns /\ c \notin acquired
    BY DEF OneOwner, TypeOK
  <2>4. Contract!AllOut = acquired /\ Contract!Cardinality(acquired) < Max
    BY <1>2, RoomForOne DEF PopIdle, InFlight, InFlightSteps
  <2> QED BY <2>1, <2>2, <2>3, <2>4 DEF Contract!Grant, asking
<1>3. ASSUME NEW t \in Threads, AppendAcquired(t) PROVE \E r \in Conns : Contract!Grant(t, r)
  <2>1. held' = [held EXCEPT ![t] = @ \union {local[t]}]
    BY <1>3 DEF AppendAcquired
  <2>2. asking' = asking \ {t} /\ t \in asking
    BY <1>a, <1>3, AskingMoves DEF AppendAcquired, Steps, asking
  <2>3. local[t] \in Conns /\ local[t] \notin acquired
    BY <1>3 DEF AppendAcquired, LocalWhileOpened, OneOwner, InLocal, TypeOK
  <2>4. Contract!AllOut = acquired /\ Contract!Cardinality(acquired) < Max
    BY <1>3, RoomForOne DEF AppendAcquired, InFlight, InFlightSteps
  <2> QED BY <2>1, <2>2, <2>3, <2>4 DEF Contract!Grant, asking
<1>4. ASSUME NEW t \in Threads, Release(t) PROVE \E r \in Conns : Contract!GiveBack(t, r)
  <2>1. PICK c \in held[t] : held' = [held EXCEPT ![t] = @ \ {c}]
    BY <1>4 DEF Release
  <2>2. asking' = asking \ {t} /\ t \notin asking
    BY <1>a, <1>4, AskingMoves DEF Release, Steps, asking
  <2>3. c \in Conns /\ asking' = asking
    BY <2>2 DEF TypeOK
  <2> QED BY <2>1, <2>2, <2>3 DEF Contract!GiveBack, asking
<1>5. ASSUME NEW t \in Threads, ReturnPermit(t)
      PROVE  Contract!Refuse(t) \/ UNCHANGED <<held, asking>>
  <2>1. asking' = asking \ {t} /\ held' = held
    BY <1>a, <1>5, AskingMoves DEF ReturnPermit, Steps
  <2>2. CASE t \in asking
    BY <2>1, <2>2 DEF Contract!Refuse, asking
  <2>3. CASE t \notin asking
    BY <2>1, <2>3
  <2> QED BY <2>2, <2>3
<1>6. ASSUME NEW t \in Threads,
             TakePermit(t) \/ FindNoIdle(t) \/ OpenConn(t) \/ OpenFails(t)
      PROVE  UNCHANGED <<held, asking>>
  <2>1. t \in asking /\ held' = held
    BY <1>6 DEF TakePermit, FindNoIdle, OpenConn, OpenFails, asking
  <2>2. \E s \in Steps \ {"rest", "unlocked"} : Goto(t, s)
    BY <1>6 DEF TakePermit, FindNoIdle, OpenConn, OpenFails, Steps
  <2> QED BY <1>a, <2>1, <2>2, AskingMoves
<1>7. CASE InvalidateConnections \/ ConnectionExpired \/ Tick \/ RunQueuedCall \/ UNCHANGED vars
  BY <1>7 DEF InvalidateConnections, ConnectionExpired, Tick, RunQueuedCall, vars, threadVars, asking
<1> QED
  BY <1>1, <1>2, <1>3, <1>4, <1>5, <1>6, <1>7 DEF Next, Contract!Next

\* Callers of the pool see an exclusive, bounded grant of connections
\* (qgsconnectionpool.h:220-233): every step of the pool is a step of
\* ResourcePool or changes nothing of it.
THEOREM ImplementsContract == Spec => Contract_Spec
<1>1. Init => Contract!Init
  BY DEF Init, Contract!Init
<1>2. IInv /\ [Next]_vars => [Contract!Next]_<<held, asking>>
  BY ContractStep
<1> QED BY <1>1, <1>2, Invariance, PTL DEF Spec, Contract_Spec, Contract!Spec, asking
=============================================================================
