--------------------------- MODULE ConnectionPool ---------------------------
(***************************************************************************)
(* One group of the provider connection pool (qgsconnectionpool.h): the    *)
(* connections to one server or file, shared by the threads that read      *)
(* features.  A counting semaphore limits the acquired connections, a      *)
(* mutex guards the idle and the acquired lists, and a timer of the main   *)
(* thread closes connections that stay idle.  Every step below that takes  *)
(* connMutex is one action; a connection is opened outside of the mutex,   *)
(* which is why acquire() takes several steps.                             *)
(*                                                                         *)
(* The idle list is a stack in the code; here it is a set, and an acquire  *)
(* may pop any member (the top of the stack is one of them).               *)
(***************************************************************************)
EXTENDS Integers, Sequences, FiniteSets

CONSTANTS
    Threads,      \* callers of acquireConnection() and releaseConnection()
    Main,         \* the thread the expiration timer lives in
    Conns,        \* handle addresses; a destroyed one may be used again
    NULL,         \* the null connection
    Max,          \* CONN_POOL_MAX_CONCURRENT_CONNS
    Expiry,       \* CONN_POOL_EXPIRATION_TIME
    Day,          \* QTime::currentTime() runs over 0..Day-1 and wraps
    MaxHeld,      \* bound: connections one thread holds at the same time
    MaxCalls      \* bound: start/stop calls queued for the main thread

ASSUME ThreadsAssumption == IsFiniteSet(Threads)
ASSUME ConnsAssumption == IsFiniteSet(Conns) /\ NULL \notin Conns
ASSUME MaxAssumption == Max \in Nat \ {0}
ASSUME TimeAssumption == Expiry \in Nat \ {0} /\ Day \in Nat /\ Day > Expiry
ASSUME BoundsAssumption == MaxHeld \in Nat /\ MaxCalls \in Nat

VARIABLES
    sem,        \* permits left in the semaphore
    idle,       \* conns
    lastUsed,   \* Item::lastUsedTime of the idle connections
    acquired,   \* acquiredConns
    valid,      \* connections whose valid flag is set
    timer,      \* expirationTimer->isActive()
    calls,      \* startExpirationTimer/stopExpirationTimer calls queued for Main
    clock,      \* QTime::currentTime()
    pc,         \* where each thread is in acquire() or release()
    local,      \* the variable c of acquire() between lines 113 and 123
    held,       \* connections returned to each caller and not yet released
    stale,      \* history: acquired connections older than the last invalidation
    missed,     \* history: the same for the ones opened but not yet acquired then
    age         \* history: how long a connection has been idle, up to Expiry

poolVars == <<sem, idle, lastUsed, acquired, valid>>
timerVars == <<timer, calls>>
threadVars == <<pc, local, held>>
history == <<stale, missed, age>>
vars == <<poolVars, timerVars, clock, threadVars, history>>

Steps == {"rest", "wait", "granted", "opening", "opened", "failed", "unlocked"}

\* The steps at which a thread owns a permit without owning a connection
\* that is in the acquired list.
InFlightSteps == {"granted", "opening", "opened", "failed", "unlocked"}
InFlight == {t \in Threads : pc[t] \in InFlightSteps}

\* Opened but not appended to the acquired list yet.
InLocal == {local[t] : t \in Threads} \ {NULL}

Open == idle \union acquired \union InLocal
Unused == Conns \ Open

TypeOK ==
    /\ sem \in 0..Max
    /\ idle \in SUBSET Conns
    /\ lastUsed \in [Conns -> 0..Day-1]
    /\ acquired \in SUBSET Conns
    /\ valid \in SUBSET Conns
    /\ timer \in BOOLEAN
    /\ calls \in Seq({"start", "stop"})
    /\ clock \in 0..Day-1
    /\ pc \in [Threads -> Steps]
    /\ local \in [Threads -> Conns \union {NULL}]
    /\ held \in [Threads -> SUBSET Conns]
    /\ stale \in SUBSET Conns
    /\ missed \in SUBSET Conns
    /\ age \in [Conns -> 0..Expiry]

Init ==
    /\ sem = Max
    /\ idle = {}
    /\ lastUsed = [c \in Conns |-> 0]
    /\ acquired = {}
    /\ valid = {}
    /\ timer = FALSE
    /\ calls = <<>>
    /\ clock = 0
    /\ pc = [t \in Threads |-> "rest"]
    /\ local = [t \in Threads |-> NULL]
    /\ held = [t \in Threads |-> {}]
    /\ stale = {}
    /\ missed = {}
    /\ age = [c \in Conns |-> 0]

-----------------------------------------------------------------------------

\* QMetaObject::invokeMethod on an object of the main thread: a direct call
\* from the main thread, a queued one from any other.
Invoke(t, call) ==
    IF t = Main
    THEN timer' = (call = "start") /\ UNCHANGED calls
    ELSE /\ Len(calls) < MaxCalls
         /\ calls' = Append(calls, call)
         /\ UNCHANGED timer

\* The items of these connections leave the idle list.
Unlist(C) ==
    /\ idle' = idle \ C
    /\ lastUsed' = [c \in Conns |-> IF c \in C THEN 0 ELSE lastUsed[c]]
    /\ age' = [c \in Conns |-> IF c \in C THEN 0 ELSE age[c]]

\* These connections are destroyed, or are opened anew.
Forget(C) == stale' = stale \ C /\ missed' = missed \ C

Goto(t, step) == pc' = [pc EXCEPT ![t] = step]

Acquire(t) ==
    /\ pc[t] = "rest"
    /\ Cardinality(held[t]) < MaxHeld
    /\ Goto(t, "wait")
    /\ UNCHANGED <<poolVars, timerVars, clock, local, held, history>>

TakePermit(t) ==
    /\ pc[t] = "wait"
    /\ sem > 0
    /\ sem' = sem - 1
    /\ Goto(t, "granted")
    /\ UNCHANGED <<idle, lastUsed, acquired, valid, timerVars, clock, local, held, history>>

\* What acquire() hands out for the idle connection c: c itself, or what
\* opening anew returns when c was flagged invalid.
Recheck(c) == IF c \in valid THEN {c} ELSE Unused \union {c, NULL}

\* Mutant: top() instead of pop().
PopIdle_Keeps(t) ==
    /\ pc[t] = "granted"
    /\ \E c \in idle :
          /\ acquired' = acquired \union {c}
          /\ held' = [held EXCEPT ![t] = @ \union {c}]
    /\ Goto(t, "rest")
    /\ UNCHANGED <<sem, idle, lastUsed, valid, timerVars, clock, local, history>>

PopIdle(t) ==
    /\ pc[t] = "granted"
    /\ \E c \in idle : \E h \in Recheck(c) :
          /\ Unlist({c})
          /\ acquired' = acquired \union {h}
          /\ held' = [held EXCEPT ![t] = @ \union {h}]
          /\ IF c \in valid
             THEN UNCHANGED <<valid, stale, missed>>
             ELSE /\ valid' = (valid \union {h}) \ {NULL}
                  /\ Forget({c, h})
    /\ IF idle' = {}
       THEN Invoke(t, "stop")
       ELSE UNCHANGED timerVars
    /\ Goto(t, "rest")
    /\ UNCHANGED <<sem, clock, local>>

\* Mutant: the semaphore guards the idle list only.
FindNoIdle_FreesPermit(t) ==
    /\ pc[t] = "granted"
    /\ idle = {}
    /\ Goto(t, "opening")
    /\ sem' = sem + 1
    /\ UNCHANGED <<idle, lastUsed, acquired, valid, timerVars, clock, local, held, history>>

FindNoIdle(t) ==
    /\ pc[t] = "granted"
    /\ idle = {}
    /\ Goto(t, "opening")
    /\ UNCHANGED <<poolVars, timerVars, clock, local, held, history>>

\* qgsConnectionPool_ConnectionCreate, outside of connMutex.
OpenConn(t) ==
    /\ pc[t] = "opening"
    /\ \E c \in Unused :
          /\ local' = [local EXCEPT ![t] = c]
          /\ valid' = valid \union {c}
          /\ Forget({c})
    /\ Goto(t, "opened")
    /\ UNCHANGED <<sem, idle, lastUsed, acquired, timerVars, clock, held, age>>

\* Mutant: the error path releases a second time.
OpenFails_ReleasesTwice(t) ==
    /\ pc[t] = "opening"
    /\ Goto(t, "failed")
    /\ sem' = sem + 1
    /\ UNCHANGED <<idle, lastUsed, acquired, valid, timerVars, clock, local, held, history>>

OpenFails(t) ==
    /\ pc[t] = "opening"
    /\ Goto(t, "failed")
    /\ UNCHANGED <<poolVars, timerVars, clock, local, held, history>>

AppendAcquired(t) ==
    /\ pc[t] = "opened"
    /\ acquired' = acquired \union {local[t]}
    /\ held' = [held EXCEPT ![t] = @ \union {local[t]}]
    /\ local' = [local EXCEPT ![t] = NULL]
    /\ Goto(t, "rest")
    /\ UNCHANGED <<sem, idle, lastUsed, valid, timerVars, clock, history>>

\* Mutant: release() forgets sem.release().
ReturnPermit_OnlyOnFailure(t) ==
    /\ pc[t] = "failed"
    /\ sem' = sem + 1
    /\ Goto(t, "rest")
    /\ UNCHANGED <<idle, lastUsed, acquired, valid, timerVars, clock, local, held, history>>

\* sem.release(), the last step of release() and of an acquire() that failed.
ReturnPermit(t) ==
    /\ pc[t] \in {"failed", "unlocked"}
    /\ sem' = sem + 1
    /\ Goto(t, "rest")
    /\ UNCHANGED <<idle, lastUsed, acquired, valid, timerVars, clock, local, held, history>>

\* release() up to connMutex.unlock(): an invalid connection is destroyed, a
\* valid one becomes idle and the timer is started unless it runs already.
PushIdle(t, c) ==
    /\ c \in valid
    /\ idle' = idle \union {c}
    /\ lastUsed' = [lastUsed EXCEPT ![c] = clock]
    /\ age' = [age EXCEPT ![c] = 0]
    /\ IF timer THEN UNCHANGED timerVars ELSE Invoke(t, "start")
    /\ UNCHANGED <<stale, missed>>

DestroyReleased(c) ==
    /\ c \notin valid
    /\ Forget({c})
    /\ UNCHANGED <<idle, lastUsed, age, timerVars>>

\* Mutant: the connection stays in acquiredConns.
Release_KeepsAcquired(t) ==
    /\ pc[t] = "rest"
    /\ \E c \in held[t] :
          /\ held' = [held EXCEPT ![t] = @ \ {c}]
          /\ PushIdle(t, c) \/ DestroyReleased(c)
    /\ Goto(t, "unlocked")
    /\ UNCHANGED <<sem, acquired, valid, clock, local>>

Release(t) ==
    /\ pc[t] = "rest"
    /\ \E c \in held[t] :
          /\ acquired' = acquired \ {c}
          /\ held' = [held EXCEPT ![t] = @ \ {c}]
          /\ PushIdle(t, c) \/ DestroyReleased(c)
    /\ Goto(t, "unlocked")
    /\ UNCHANGED <<sem, valid, clock, local>>

\* Mutant: only the idle connections are dealt with.
InvalidateConnections_IdleOnly ==
    /\ Unlist(idle)
    /\ valid' = valid \ idle
    /\ stale' = acquired
    /\ missed' = InLocal
    /\ UNCHANGED <<sem, acquired, timerVars, clock, threadVars>>

\* The provider has changed the dataset: idle connections are destroyed and
\* the acquired ones flagged.  Every open connection is out of date by now.
InvalidateConnections ==
    /\ Unlist(idle)
    /\ valid' = valid \ (idle \union acquired)
    /\ stale' = acquired
    /\ missed' = InLocal
    /\ UNCHANGED <<sem, acquired, timerVars, clock, threadVars>>

\* The main thread's event loop runs only while it is outside of the pool.
EventLoop == Main \in Threads => pc[Main] = "rest"

RunQueuedCall ==
    /\ EventLoop
    /\ calls # <<>>
    /\ timer' = (Head(calls) = "start")
    /\ calls' = Tail(calls)
    /\ UNCHANGED <<poolVars, clock, threadVars, history>>

Expired(c) == clock - lastUsed[c] >= Expiry

ConnectionExpired ==
    /\ EventLoop
    /\ timer
    /\ Unlist({c \in idle : Expired(c)})
    /\ valid' = valid \ (idle \ idle')
    /\ Forget(idle \ idle')
    /\ timer' = (idle' # {})
    /\ UNCHANGED <<sem, acquired, calls, clock, threadVars>>

Tick ==
    /\ clock' = (clock + 1) % Day
    /\ age' = [c \in Conns |-> IF c \in idle /\ age[c] < Expiry THEN age[c] + 1 ELSE age[c]]
    /\ UNCHANGED <<poolVars, timerVars, threadVars, stale, missed>>

Next ==
    \/ \E t \in Threads :
          \/ Acquire(t) \/ TakePermit(t) \/ PopIdle(t) \/ FindNoIdle(t)
          \/ OpenConn(t) \/ OpenFails(t) \/ AppendAcquired(t)
          \/ Release(t) \/ ReturnPermit(t)
    \/ InvalidateConnections
    \/ RunQueuedCall
    \/ ConnectionExpired
    \/ Tick

Spec == Init /\ [][Next]_vars

\* A thread inside acquire() or release() keeps running, the main thread
\* serves its queue, and whoever holds a connection releases it in the end
\* (qgsconnectionpool.h:228 asks that of every caller).
Fairness ==
    /\ \A t \in Threads :
          /\ WF_vars(TakePermit(t)) /\ WF_vars(PopIdle(t)) /\ WF_vars(FindNoIdle(t))
          /\ WF_vars(OpenConn(t) \/ OpenFails(t)) /\ WF_vars(AppendAcquired(t))
          /\ WF_vars(Release(t)) /\ WF_vars(ReturnPermit(t))
    /\ WF_vars(RunQueuedCall)
    /\ WF_vars(ConnectionExpired)
    /\ WF_vars(Tick)

FairSpec == Spec /\ Fairness

-----------------------------------------------------------------------------

\* Every permit of the semaphore is free, held together with one connection
\* of the acquired list, or in the hands of a thread inside a pool call: no
\* path of acquire() or release() loses or duplicates a permit.
PermitsAccounted ==
    sem + Cardinality(acquired) + Cardinality(InFlight) = Max

\* No connection has two owners: idle, opened and not handed out yet, held by
\* one caller and held by another exclude each other, and acquiredConns is
\* what the callers hold.
OneOwner ==
    /\ acquired = UNION {held[t] : t \in Threads}
    /\ idle \intersect (acquired \union InLocal) = {}
    /\ acquired \intersect InLocal = {}
    /\ \A t, u \in Threads : t # u =>
          /\ held[t] \intersect held[u] = {}
          /\ local[t] # NULL => local[t] # local[u]

\* Connections are opened outside of the mutex, after the idle list was seen
\* empty; still no more than Max of them are ever open, counting the ones
\* that are being opened (the limit documented at qgsconnectionpool.h:226).
Opening == {t \in Threads : pc[t] \in {"opening", "opened"}}
OpenLimit ==
    Cardinality(idle) + Cardinality(acquired) + Cardinality(Opening) <= Max

\* The idle list never holds a flagged connection: release() destroys it
\* instead, so the second validity check, in acquire(), never fails.
IdleValid == idle \subseteq valid

\* A connection that a caller held while the dataset was changed is not
\* reused: neither idle nor handed to a caller that asks afterwards.
InvalidatedNotReused == stale \intersect (idle \union InLocal) = {}

\* The semaphore is never drained for good: provided that every caller
\* releases what it holds and that callers nest less than the pool is deep,
\* a permit becomes available again.
PermitsComeBack == sem = 0 ~> sem > 0

\* Idle connections have a timer that will look at them, now or after the
\* calls in the main thread's queue ("When the connections are not used for
\* some time, they will get closed automatically", qgsconnectionpool.h:231).
LastCall == calls[Len(calls)]
IdleWatched ==
    idle # {} => IF calls = <<>> THEN timer ELSE LastCall = "start"

\* The sweep leaves no connection that has been idle for Expiry or longer.
SweepsAllOld ==
    [][ConnectionExpired => \A c \in idle' : age[c] < Expiry]_vars

\* No idle connection was opened before the last invalidation ("all open
\* handles need to be invalidated when such datasets are changed",
\* qgsconnectionpool.h:281), also not one that was being opened meanwhile.
IdleUpToDate == idle \intersect (stale \union missed) = {}

-----------------------------------------------------------------------------

\* What callers may rely on, as a specification without semaphore and lists.
Contract == INSTANCE ResourcePool WITH
    Clients <- Threads, Resources <- Conns, Limit <- Max, out <- held,
    asking <- {t \in Threads : pc[t] \notin {"rest", "unlocked"}}
Contract_Spec == Contract!Spec
=============================================================================
