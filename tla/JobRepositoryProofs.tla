------------------------ MODULE JobRepositoryProofs -------------------------
(***************************************************************************)
(* JobRepository implements JobStore, for any jobs, threads, columns and   *)
(* values: a repository call is one atomic step to its caller.             *)
(***************************************************************************)
EXTENDS JobRepository, TLAPS

\* What is known of one call: its row is there when it says so, and where it is
\* about to fill the cache it has a row to fill it with.
CallKnows(c) ==
    /\ c.pc # "idle" => c.op \in Ops
    /\ c.pc \in {"lock", "commit", "release"} => c.op.kind # "get"
    /\ c.seen # None => table[c.op.job] # None
    /\ c.pc # "idle" /\ c.op.kind = "update" => table[c.op.job] # None
    /\ c.pc \in {"release", "select", "fill", "refill"} /\ c.op.kind # "get" =>
          table[c.op.job] # None
    /\ c.pc = "refill" /\ c.op.kind # "get" => c.seen # None
    /\ c.pc = "fill" => c.seen # None
    /\ c.pc = "idle" => c.seen = None

Known ==
    /\ TypeOK
    /\ \A j \in Jobs : cache[j] # None => table[j] # None
    /\ \A t \in Threads : CallKnows(call[t])

\* An update leaves a row.
LEMMA UpdatedIsRow ==
    ASSUME NEW row \in Patches, NEW patch \in Patches
    PROVE  Updated(row, patch) \in Patches /\ Updated(row, patch) # None
  BY NoneAssumption DEF Updated, Given, Patches

\* None is no row.
LEMMA PatchIsRow ==
    ASSUME NEW patch \in Patches
    PROVE  patch # None
  BY NoneAssumption DEF Patches

\* Nothing is known at first, and nothing needs to be.
LEMMA InitKnown ==
    ASSUME Init PROVE Known
  BY CrashesAssumption DEF Init, Known, TypeOK, CallKnows, CallState, Idle, PCs

\* Beginning a call.
LEMMA StartKnown ==
    ASSUME Known, NEW t \in Threads, NEW pc \in {"select", "lock"}, NEW op \in Ops,
           Start(t, pc, op),
           pc = "lock" => op.kind # "get",
           pc = "select" => op.kind = "get",
           op.kind = "update" => table[op.job] # None
    PROVE  Known'
  <1> DEFINE c == [pc |-> pc, op |-> op, seen |-> None]
  <1>1. c \in CallState
    BY DEF CallState, PCs
  <1>2. CallKnows(c)
    BY DEF CallKnows
  <1>3. call' = [call EXCEPT ![t] = c] /\ UNCHANGED <<table, cache, lock, crashes>>
    BY DEF Start
  <1>4. TypeOK'
    BY <1>1, <1>3 DEF Known, TypeOK
  <1>5. \A u \in Threads : call'[u] = IF u = t THEN c ELSE call[u]
    BY <1>3 DEF Known, TypeOK
  <1> HIDE DEF c
  <1>6. \A u \in Threads : CallKnows(call[u])'
    BY <1>2, <1>3, <1>5 DEF Known, CallKnows
  <1> QED
    BY <1>3, <1>4, <1>6 DEF Known

\* A step of thread t in a call.  Rows never disappear, so a step that adds or
\* changes rows takes nothing from what the other calls know.
LEMMA MoveKnown ==
    ASSUME Known, NEW t \in Threads, NEW c \in CallState,
           call' = [call EXCEPT ![t] = c],
           table' \in [Jobs -> Patches \cup {None}],
           cache' \in [Jobs -> Patches \cup {None}],
           lock' \in Threads \cup {None},
           crashes' = crashes,
           \A j \in Jobs : table[j] # None => table'[j] # None,
           \A j \in Jobs : cache'[j] # None => table'[j] # None,
           c.op \in Ops \cup {None},
           CallKnows(c)'
    PROVE  Known'
  <1>1. TypeOK'
    BY DEF Known, TypeOK
  <1>2. \A u \in Threads : call'[u] = IF u = t THEN c ELSE call[u]
    BY DEF Known, TypeOK
  <1>3. ASSUME NEW u \in Threads, u # t PROVE CallKnows(call[u])'
    <2>1. CallKnows(call[u]) /\ call'[u] = call[u] /\ call[u] \in CallState
      BY <1>2, <1>3 DEF Known, TypeOK
    <2>2. call[u].pc # "idle" => call[u].op.job \in Jobs
      BY <2>1 DEF CallKnows, Ops
    <2> QED
      BY <2>1, <2>2 DEF CallKnows
  <1>4. CallKnows(call[t])'
    BY <1>2
  <1> QED
    BY <1>1, <1>3, <1>4 DEF Known

\* A call only says what it does to the state of its own thread.
LEMMA GotoMoves ==
    ASSUME Known, NEW t \in Threads, call[t].pc # "idle", NEW pc \in PCs,
           NEW seen \in Patches \cup {None}, Goto(t, pc, seen)
    PROVE  \E c \in CallState :
              /\ call' = [call EXCEPT ![t] = c]
              /\ c.pc = pc /\ c.op = call[t].op /\ c.seen = seen
              /\ c.op \in Ops
  <1> DEFINE c == [pc |-> pc, op |-> call[t].op, seen |-> seen]
  <1>1. call[t].op \in Ops
    BY DEF Known, CallKnows
  <1>2. c \in CallState
    BY <1>1 DEF CallState
  <1>3. call' = [call EXCEPT ![t] = c]
    BY DEF Goto
  <1>4. c.pc = pc /\ c.op = call[t].op /\ c.seen = seen
    OBVIOUS
  <1> HIDE DEF c
  <1> QED
    BY <1>1, <1>2, <1>3, <1>4

\* Every step keeps what is known, one action after the other.
LEMMA ThreadKnown ==
    ASSUME Known, NEW t \in Threads,
           Acquire(t) \/ Commit(t) \/ Release(t) \/ Select(t) \/ Fill(t)
    PROVE  Known'
  <1>1. /\ call[t].pc # "idle" /\ CallKnows(call[t])
        /\ table \in [Jobs -> Patches \cup {None}]
        /\ cache \in [Jobs -> Patches \cup {None}]
        /\ lock \in Threads \cup {None}
        /\ call[t].seen \in Patches \cup {None}
        /\ \A j \in Jobs : cache[j] # None => table[j] # None
    BY DEF Known, TypeOK, CallState, Acquire, Commit, Release, Select, Fill
  <1>2. call[t].op \in Ops /\ call[t].op.job \in Jobs /\ call[t].op.patch \in Patches
    BY <1>1 DEF CallKnows, Ops
  <1>3. CASE Acquire(t)
    <2>1. PICK c \in CallState :
             /\ call' = [call EXCEPT ![t] = c]
             /\ c.pc = "commit" /\ c.op = call[t].op /\ c.seen = None /\ c.op \in Ops
      BY <1>1, <1>3, GotoMoves DEF Acquire, PCs
    <2>2. CallKnows(c)'
      BY <1>1, <1>3, <2>1 DEF CallKnows, Acquire
    <2> QED
      BY <1>1, <1>3, <2>1, <2>2, MoveKnown DEF Acquire
  <1>4. CASE Commit(t)
    <2>1. PICK c \in CallState :
             /\ call' = [call EXCEPT ![t] = c]
             /\ c.pc = "release" /\ c.op = call[t].op /\ c.seen = None /\ c.op \in Ops
      BY <1>1, <1>4, GotoMoves DEF Commit, PCs
    <2>2. PICK row \in Patches : row # None /\ table' = [table EXCEPT ![call[t].op.job] = row]
      <3>1. CASE call[t].op.kind = "create"
        BY <1>2, <1>4, <3>1, PatchIsRow DEF Commit
      <3>2. CASE call[t].op.kind # "create"
        <4>1. call[t].op.kind = "update"
          BY <1>1, <1>2, <1>4, <3>2 DEF CallKnows, Ops, Commit
        <4>2. table[call[t].op.job] \in Patches
          BY <1>1, <1>2, <4>1 DEF CallKnows
        <4> QED
          BY <1>1, <1>2, <1>4, <3>2, <4>2, UpdatedIsRow DEF Commit
      <3> QED
        BY <3>1, <3>2
    <2>3. CallKnows(c)'
      BY <1>1, <1>2, <1>4, <2>1, <2>2 DEF CallKnows, Commit
    <2>4. /\ table' \in [Jobs -> Patches \cup {None}]
          /\ \A j \in Jobs : table[j] # None => table'[j] # None
      BY <1>1, <1>2, <2>2
    <2> QED
      BY <1>1, <1>4, <2>1, <2>3, <2>4, MoveKnown DEF Commit
  <1>5. CASE Release(t)
    <2>1. PICK c \in CallState :
             /\ call' = [call EXCEPT ![t] = c]
             /\ c.pc = "select" /\ c.op = call[t].op /\ c.seen = None /\ c.op \in Ops
      BY <1>1, <1>5, GotoMoves DEF Release, PCs
    <2>2. CallKnows(c)'
      BY <1>1, <1>5, <2>1 DEF CallKnows, Release
    <2> QED
      BY <1>1, <1>5, <2>1, <2>2, MoveKnown DEF Release
  <1>6. CASE Select(t)
    <2>1. PICK pc \in {"fill", "refill"}, seen \in Patches \cup {None} :
             /\ Goto(t, pc, seen)
             /\ seen # None => table[call[t].op.job] # None
             /\ pc = "fill" => seen # None
             /\ table[call[t].op.job] # None => pc = "fill"
      BY <1>1, <1>2, <1>6 DEF Select
    <2>2. PICK c \in CallState :
             /\ call' = [call EXCEPT ![t] = c]
             /\ c.pc = pc /\ c.op = call[t].op /\ c.seen = seen /\ c.op \in Ops
      BY <1>1, <2>1, GotoMoves DEF PCs
    <2>3. CallKnows(c)'
      BY <1>1, <1>6, <2>1, <2>2 DEF CallKnows, Select
    <2> QED
      BY <1>1, <1>6, <2>2, <2>3, MoveKnown DEF Select
  <1>7. CASE Fill(t)
    <2>1. PICK c \in CallState :
             /\ call' = [call EXCEPT ![t] = c]
             /\ c.pc = "refill" /\ c.op = call[t].op /\ c.seen = call[t].seen
             /\ c.op \in Ops
      BY <1>1, <1>7, GotoMoves DEF Fill, PCs
    <2>2. CallKnows(c)'
      BY <1>1, <1>7, <2>1 DEF CallKnows, Fill
    <2>3. cache' = [cache EXCEPT ![call[t].op.job] = call[t].seen] /\ table' = table
      BY <1>7 DEF Fill
    <2>4. /\ cache' \in [Jobs -> Patches \cup {None}]
          /\ \A j \in Jobs : cache'[j] # None => table'[j] # None
      BY <1>1, <1>2, <2>3 DEF CallKnows
    <2> QED
      BY <1>1, <1>7, <2>1, <2>2, <2>4, MoveKnown DEF Fill
  <1> QED
    BY <1>3, <1>4, <1>5, <1>6, <1>7

\* What the cache gets at the end of a call is a row the table has.
LEMMA RefillKnown ==
    ASSUME Known, NEW t \in Threads, Refill(t)
    PROVE  Known'
  <1>1. /\ call[t].pc = "refill" /\ CallKnows(call[t])
        /\ cache \in [Jobs -> Patches \cup {None}]
        /\ call[t].seen \in Patches \cup {None}
        /\ UNCHANGED <<table, lock, crashes>>
        /\ call' = [call EXCEPT ![t] = Idle]
    BY DEF Known, TypeOK, CallState, Refill
  <1>2. call[t].op \in Ops /\ call[t].op.job \in Jobs
    BY <1>1 DEF CallKnows, Ops
  <1>3. \/ cache' = [cache EXCEPT ![call[t].op.job] = cache[call[t].op.job]]
        \/ cache' = [cache EXCEPT ![call[t].op.job] = call[t].seen]
    BY <1>1, <1>2 DEF Refill, CallKnows
  <1>4. /\ cache' \in [Jobs -> Patches \cup {None}]
        /\ \A j \in Jobs : cache'[j] # None => table'[j] # None
    BY <1>1, <1>2, <1>3 DEF Known, CallKnows
  <1>5. Idle \in CallState /\ Idle.op = None /\ Idle.pc = "idle" /\ Idle.seen = None
    BY DEF Idle, CallState, PCs
  <1>6. CallKnows(Idle)'
    BY <1>5 DEF CallKnows, Idle
  <1>7. \A j \in Jobs : table[j] # None => table'[j] # None
    BY <1>1
  <1> QED
    BY <1>1, <1>4, <1>5, <1>6, <1>7, MoveKnown DEF Known, TypeOK

\* A statement that raises ends its call and changes no row.
LEMMA RaiseKnown ==
    ASSUME Known, NEW t \in Threads, Raise(t)
    PROVE  Known'
  <1>1. Idle \in CallState /\ Idle.op = None /\ Idle.pc = "idle" /\ Idle.seen = None
    BY DEF Idle, CallState, PCs
  <1>2. CallKnows(Idle)'
    BY <1>1 DEF CallKnows, Idle
  <1> QED
    BY <1>1, <1>2, MoveKnown DEF Raise, Known, TypeOK

\* A crash leaves the table and nothing else.
LEMMA CrashKnown ==
    ASSUME Known, Crash
    PROVE  Known'
  <1>1. crashes' \in 0 .. MaxCrashes
    BY CrashesAssumption DEF Crash, Known, TypeOK
  <1>2. Idle \in CallState /\ Idle.op = None /\ Idle.pc = "idle" /\ Idle.seen = None
    BY DEF Idle, CallState, PCs
  <1>3. TypeOK'
    BY <1>1, <1>2 DEF Crash, Known, TypeOK
  <1>4. \A t \in Threads : call'[t] = Idle
    BY DEF Crash
  <1>5. \A j \in Jobs : cache'[j] = None
    BY DEF Crash
  <1> QED
    BY <1>2, <1>3, <1>4, <1>5 DEF Known, CallKnows

\* Every step of the system keeps what is known.
LEMMA StepKnown ==
    ASSUME Known, [Next]_vars
    PROVE  Known'
  <1>1. ASSUME NEW t \in Threads, NEW j \in Jobs, StartGet(t, j)
        PROVE  Known'
    <2>1. Op("get", j, NoPatch) \in Ops /\ Op("get", j, NoPatch).kind = "get"
      BY DEF Op, Ops, NoPatch, Patches
    <2> QED
      BY <1>1, <2>1, StartKnown DEF StartGet
  <1>2. ASSUME NEW t \in Threads, NEW j \in Jobs, NEW patch \in Patches,
               StartCreate(t, j, patch)
        PROVE  Known'
    <2>1. Op("create", j, patch) \in Ops /\ Op("create", j, patch).kind = "create"
      BY DEF Op, Ops
    <2> QED
      BY <1>2, <2>1, StartKnown DEF StartCreate
  <1>3. ASSUME NEW t \in Threads, NEW j \in Jobs, NEW patch \in Patches,
               StartUpdate(t, j, patch)
        PROVE  Known'
    <2>1. /\ Op("update", j, patch) \in Ops /\ Op("update", j, patch).kind = "update"
          /\ Op("update", j, patch).job = j
      BY DEF Op, Ops
    <2> QED
      BY <1>3, <2>1, StartKnown DEF StartUpdate
  <1>4. CASE UNCHANGED vars
    BY <1>4 DEF vars, Known, TypeOK, CallKnows
  <1> QED
    BY <1>1, <1>2, <1>3, <1>4, ThreadKnown, RefillKnown, RaiseKnown, CrashKnown DEF Next

\* The types and what calls know hold in every reachable state.
LEMMA AlwaysKnown == Spec => []Known
  <1> QED
    BY InitKnown, StepKnown, PTL DEF Spec

\* Every reachable table, cache, lock and call is of its type.
THEOREM TypeCorrect == Spec => []TypeOK
  BY AlwaysKnown, PTL DEF Known

\* CacheBacked holds: the cache never knows a job the table does not have,
\* whatever calls race, raise or are cut off, so get() never answers from it.
THEOREM CacheIsBacked == Spec => []CacheBacked
  <1>1. Known => CacheBacked
    BY DEF Known, CallKnows, CacheBacked
  <1> QED
    BY <1>1, AlwaysKnown, PTL

----------------------------------------------------------------------------
(* The lock *)

\* At first nobody holds the lock.
LEMMA InitLocked ==
    ASSUME Init PROVE LockHeldByWriter
  BY DEF Init, Idle, LockHeldByWriter

\* A step of one thread hands the lock on as its program point says: only the
\* thread that holds it can be writing, so no other is concerned.
LEMMA StepLocked ==
    ASSUME Known, LockHeldByWriter, [Next]_vars
    PROVE  LockHeldByWriter'
  <1> DEFINE Writing == {"commit", "release"}
  <1>1. /\ call \in [Threads -> CallState]
        /\ lock \in Threads \cup {None}
        /\ None \notin Threads
    BY NoneAssumption DEF Known, TypeOK
  <1>2. ASSUME NEW t \in Threads, NEW c, call' = [call EXCEPT ![t] = c],
               \/ c.pc \notin Writing /\ lock' = IF lock = t THEN None ELSE lock
               \/ c.pc \in Writing /\ lock' = t /\ lock \in {None, t}
        PROVE  LockHeldByWriter'
    <2>1. /\ call'[t] = c
          /\ \A u \in Threads : u # t => call'[u] = call[u]
      BY <1>1, <1>2
    <2>2. CASE c.pc \notin Writing /\ lock' = IF lock = t THEN None ELSE lock
      <3>1. lock' # None => lock' = lock /\ lock # t /\ lock \in Threads
        BY <1>1, <2>2
      <3>2. lock' # None => call'[lock'].pc \in Writing
        BY <2>1, <3>1 DEF LockHeldByWriter
      <3>3. ASSUME NEW u \in Threads, call'[u].pc \in Writing PROVE lock' = u
        BY <1>1, <2>1, <2>2, <3>3 DEF LockHeldByWriter
      <3> QED
        BY <3>2, <3>3 DEF LockHeldByWriter
    <2>3. CASE c.pc \in Writing /\ lock' = t /\ lock \in {None, t}
      BY <1>1, <2>1, <2>3 DEF LockHeldByWriter
    <2> QED
      BY <1>2, <2>2, <2>3
  <1> HIDE DEF Writing
  <1>3. ASSUME NEW t \in Threads,
               \/ \E j \in Jobs : StartGet(t, j)
               \/ \E j \in Jobs, patch \in Patches : StartCreate(t, j, patch)
               \/ \E j \in Jobs, patch \in Patches : StartUpdate(t, j, patch)
        PROVE  LockHeldByWriter'
    <2>1. PICK pc, op : pc \in {"select", "lock"} /\ Start(t, pc, op)
      BY <1>3 DEF StartGet, StartCreate, StartUpdate
    <2> DEFINE c == [pc |-> pc, op |-> op, seen |-> None]
    <2>2. call' = [call EXCEPT ![t] = c] /\ lock' = lock /\ call[t].pc = "idle"
      BY <2>1 DEF Start
    <2>3. c.pc \notin Writing
      BY <2>1 DEF Writing
    <2>4. lock # t
      BY <1>1, <2>2 DEF LockHeldByWriter
    <2> HIDE DEF c
    <2> QED
      BY <1>2, <2>2, <2>3, <2>4
  <1>4. ASSUME NEW t \in Threads, Acquire(t) \/ Commit(t) \/ Release(t) PROVE LockHeldByWriter'
    <2>1. PICK pc, seen :
            /\ Goto(t, pc, seen)
            /\ \/ pc = "commit" /\ lock = None /\ lock' = t
               \/ pc = "release" /\ call[t].pc = "commit" /\ lock' = lock
               \/ pc = "select" /\ call[t].pc = "release" /\ lock' = None
      BY <1>4 DEF Acquire, Commit, Release
    <2> DEFINE c == [pc |-> pc, op |-> call[t].op, seen |-> seen]
    <2>2. call' = [call EXCEPT ![t] = c] /\ c.pc = pc
      BY <2>1 DEF Goto
    <2> HIDE DEF c
    <2>3. call[t].pc \in {"commit", "release"} => lock = t
      BY DEF LockHeldByWriter
    <2> QED
      BY <1>2, <2>1, <2>2, <2>3 DEF Writing
  <1>5. ASSUME NEW t \in Threads, Select(t) \/ Fill(t) PROVE LockHeldByWriter'
    <2>1. PICK pc, seen :
            /\ pc \in {"fill", "refill"} /\ Goto(t, pc, seen) /\ lock' = lock
            /\ call[t].pc \in {"select", "fill"}
      BY <1>5 DEF Select, Fill
    <2> DEFINE c == [pc |-> pc, op |-> call[t].op, seen |-> seen]
    <2>2. call' = [call EXCEPT ![t] = c] /\ c.pc = pc
      BY <2>1 DEF Goto
    <2> HIDE DEF c
    <2>3. lock # t
      BY <1>1, <2>1 DEF LockHeldByWriter
    <2> QED
      BY <1>2, <2>1, <2>2, <2>3 DEF Writing
  <1>6. ASSUME NEW t \in Threads, Refill(t) PROVE LockHeldByWriter'
    <2>1. call' = [call EXCEPT ![t] = Idle] /\ lock' = lock /\ call[t].pc = "refill"
      BY <1>6 DEF Refill
    <2>2. lock # t
      BY <1>1, <2>1 DEF LockHeldByWriter
    <2> QED
      BY <1>2, <2>1, <2>2 DEF Idle, Writing
  <1>7. ASSUME NEW t \in Threads, Raise(t) PROVE LockHeldByWriter'
    BY <1>2, <1>7 DEF Raise, Idle, Writing
  <1>8. CASE Crash
    BY <1>8 DEF Crash, Idle, LockHeldByWriter
  <1>9. CASE UNCHANGED vars
    BY <1>9 DEF vars, LockHeldByWriter
  <1> QED
    BY <1>3, <1>4, <1>5, <1>6, <1>7, <1>8, <1>9 DEF Next

\* The lock is held by the one thread that is between its statement and the end
\* of its block, and by nobody else: no call that raises or is cut off by a crash
\* leaves it behind, and no two threads write at once.
THEOREM LockIsHeldByWriter == Spec => []LockHeldByWriter
  BY InitLocked, StepLocked, AlwaysKnown, PTL DEF Spec

----------------------------------------------------------------------------
(* The refinement: what the threads are to their callers, StoreCall, makes the
   steps of JobStore. *)

Calls == [u \in Threads |-> StoreCall(call[u])]

\* A step of one thread changes what its own call is, and no other.
LEMMA CallsMove ==
    ASSUME Known, NEW t \in Threads, NEW c, call' = [call EXCEPT ![t] = c]
    PROVE  Calls' = [Calls EXCEPT ![t] = StoreCall(c)]
  <1>1. \A u \in Threads : call'[u] = IF u = t THEN c ELSE call[u]
    BY DEF Known, TypeOK
  <1>2. \A u \in Threads : StoreCall(call'[u]) = IF u = t THEN StoreCall(c) ELSE StoreCall(call[u])
    BY <1>1
  <1> QED
    BY <1>2 DEF Calls

\* A step that keeps what the call is, and the table, is none of JobStore.
LEMMA Stutters ==
    ASSUME Known, NEW t \in Threads, NEW c, call' = [call EXCEPT ![t] = c],
           StoreCall(c) = StoreCall(call[t]), UNCHANGED table
    PROVE  UNCHANGED <<table, Calls>>
  <1>1. Calls' = [Calls EXCEPT ![t] = StoreCall(call[t])]
    BY CallsMove
  <1> QED
    BY <1>1 DEF Calls

\* The end of a call.
LEMMA Ends ==
    ASSUME Known, NEW t \in Threads, call' = [call EXCEPT ![t] = Idle], UNCHANGED table
    PROVE  Store!Next
  <1>1. Calls' = [Calls EXCEPT ![t] = StoreCall(Idle)]
    BY CallsMove
  <1>2. StoreCall(Idle) = [at |-> "idle", op |-> None, answer |-> None]
    BY DEF StoreCall, Idle
  <1> QED
    BY <1>1, <1>2 DEF Store!Next, Store!End, Store!Idle, Calls

\* The beginning of a call.
LEMMA Begins ==
    ASSUME Known, NEW t \in Threads, NEW pc \in {"select", "lock"}, NEW op \in Ops,
           Start(t, pc, op),
           pc = "select" => op.kind = "get",
           op.kind # "get" => (op.kind = "create" <=> table[op.job] = None)
    PROVE  Store!Next
  <1> DEFINE c == [pc |-> pc, op |-> op, seen |-> None]
  <1>1. call' = [call EXCEPT ![t] = c] /\ UNCHANGED table /\ call[t].pc = "idle"
    BY DEF Start
  <1>2. StoreCall(c) = [at |-> "called", op |-> op, answer |-> None]
    BY DEF StoreCall, Pending
  <1> HIDE DEF c
  <1>3. Calls' = [Calls EXCEPT ![t] = StoreCall(c)]
    BY <1>1, CallsMove
  <1>4. Calls[t] = [at |-> "idle", op |-> None, answer |-> None]
    BY <1>1 DEF Calls, StoreCall
  <1>5. op \in Store!Ops
    BY DEF Ops, Store!Ops, Patches, Store!Patches
  <1>6. Store!Begin(t)
    BY <1>1, <1>2, <1>3, <1>4, <1>5 DEF Store!Begin, Store!Idle, Calls
  <1> QED
    BY <1>6 DEF Store!Next

\* How JobStore's moment of a call looks from here.
LEMMA ApplyIs ==
    ASSUME NEW t \in Threads, NEW op,
           Calls[t] = [at |-> "called", op |-> op, answer |-> None],
           Calls' = [Calls EXCEPT ![t] =
                       [at |-> "done", op |-> op,
                        answer |-> IF op.kind = "get" THEN table[op.job] ELSE None]],
           table' = CASE op.kind = "get"    -> table
                      [] op.kind = "create" -> [table EXCEPT ![op.job] = op.patch]
                      [] op.kind = "update" ->
                           [table EXCEPT ![op.job] = Store!Merged(table[op.job], op.patch)]
    PROVE  Store!Next
  <1>1. Calls[t].op = op /\ Calls[t].at = "called"
    OBVIOUS
  <1>2. Calls' = [Calls EXCEPT ![t] =
                    [at |-> "done", op |-> Calls[t].op,
                     answer |-> IF Calls[t].op.kind = "get" THEN table[Calls[t].op.job]
                                ELSE None]]
    BY <1>1
  <1>3. table' = CASE Calls[t].op.kind = "get"    -> table
                   [] Calls[t].op.kind = "create" ->
                        [table EXCEPT ![Calls[t].op.job] = Calls[t].op.patch]
                   [] Calls[t].op.kind = "update" ->
                        [table EXCEPT ![Calls[t].op.job] =
                            Store!Merged(table[Calls[t].op.job], Calls[t].op.patch)]
    BY <1>1
  <1>4. Store!Apply(t)
    BY <1>1, <1>2, <1>3 DEF Store!Apply, Calls
  <1> QED
    BY <1>4 DEF Store!Next

\* A write takes effect at its commit.
LEMMA CommitApplies ==
    ASSUME Known, NEW t \in Threads, Commit(t)
    PROVE  Store!Next
  <1>1. PICK op \in Ops : op = call[t].op /\ op.kind \in {"create", "update"}
    BY DEF Known, CallKnows, Commit, Ops
  <1> DEFINE c == [pc |-> "release", op |-> op, seen |-> None]
  <1>2. call' = [call EXCEPT ![t] = c]
    BY <1>1 DEF Commit, Goto
  <1>3. StoreCall(c) = [at |-> "done", op |-> op, answer |-> None]
    BY <1>1 DEF StoreCall, Pending
  <1> HIDE DEF c
  <1>4. Calls' = [Calls EXCEPT ![t] = StoreCall(c)]
    BY <1>2, CallsMove
  <1>5. Calls[t] = [at |-> "called", op |-> op, answer |-> None]
    BY <1>1 DEF Calls, StoreCall, Pending, Commit
  <1>6. table' = CASE op.kind = "get"    -> table
                   [] op.kind = "create" -> [table EXCEPT ![op.job] = op.patch]
                   [] op.kind = "update" ->
                         [table EXCEPT ![op.job] = Store!Merged(table[op.job], op.patch)]
    <2>1. CASE op.kind = "create"
      BY <1>1, <2>1 DEF Commit
    <2>2. CASE op.kind = "update"
      <3>1. op.job \in Jobs /\ op.patch \in Patches
        BY DEF Ops
      <3>2. Updated(table[op.job], op.patch) = Store!Merged(table[op.job], op.patch)
        BY DEF Updated, Given, Store!Merged
      <3>3. table' = [table EXCEPT ![op.job] = Updated(table[op.job], op.patch)]
        BY <1>1, <2>2, <3>1 DEF Commit, Known, TypeOK
      <3> QED
        BY <2>2, <3>2, <3>3
    <2> QED
      BY <1>1, <2>1, <2>2
  <1>7. Calls' = [Calls EXCEPT ![t] =
                    [at |-> "done", op |-> op,
                     answer |-> IF op.kind = "get" THEN table[op.job] ELSE None]]
    BY <1>1, <1>3, <1>4
  <1> QED
    BY <1>5, <1>6, <1>7, ApplyIs

\* A read takes effect at its select; the select at the end of a write shows its
\* caller nothing.
LEMMA SelectApplies ==
    ASSUME Known, NEW t \in Threads, Select(t)
    PROVE  Store!Next \/ UNCHANGED <<table, Calls>>
  <1>1. PICK op \in Ops : op = call[t].op
    BY DEF Known, CallKnows, Select
  <1>2. PICK pc \in {"fill", "refill"} :
           call' = [call EXCEPT ![t] = [pc |-> pc, op |-> op, seen |-> table[op.job]]]
    <2>1. op.job \in Jobs
      BY DEF Ops
    <2>2. CASE table[op.job] # None
      BY <1>1, <2>2 DEF Select, Goto
    <2>3. CASE table[op.job] = None
      <3>1. cache[op.job] = None
        BY <2>1, <2>3 DEF Known
      <3> QED
        BY <1>1, <2>3, <3>1 DEF Select, Goto
    <2> QED
      BY <2>2, <2>3
  <1>3. PICK row : row = table[op.job]
    OBVIOUS
  <1> DEFINE c == [pc |-> pc, op |-> op, seen |-> row]
  <1>4. call' = [call EXCEPT ![t] = c] /\ UNCHANGED table /\ call[t].pc = "select"
    BY <1>2, <1>3 DEF Select
  <1>5. CASE op.kind = "get"
    <2>1. StoreCall(c) = [at |-> "done", op |-> op, answer |-> row]
      BY <1>5 DEF StoreCall, Pending
    <2> HIDE DEF c
    <2>2. Calls' = [Calls EXCEPT ![t] = StoreCall(c)]
      BY <1>4, CallsMove
    <2>3. Calls[t] = [at |-> "called", op |-> op, answer |-> None]
      BY <1>1, <1>4, <1>5 DEF Calls, StoreCall, Pending
    <2>4. Calls' = [Calls EXCEPT ![t] =
                      [at |-> "done", op |-> op,
                       answer |-> IF op.kind = "get" THEN table[op.job] ELSE None]]
      BY <1>3, <1>5, <2>1, <2>2
    <2>5. table' = CASE op.kind = "get"    -> table
                     [] op.kind = "create" -> [table EXCEPT ![op.job] = op.patch]
                     [] op.kind = "update" ->
                          [table EXCEPT ![op.job] = Store!Merged(table[op.job], op.patch)]
      BY <1>4, <1>5
    <2> QED
      BY <2>3, <2>4, <2>5, ApplyIs
  <1>6. CASE op.kind # "get"
    <2>1. StoreCall(c) = StoreCall(call[t])
      BY <1>1, <1>4, <1>6 DEF StoreCall, Pending
    <2> HIDE DEF c
    <2> QED
      BY <1>4, <2>1, Stutters
  <1> QED
    BY <1>5, <1>6

\* Waiting for the lock, giving it back and filling the cache are nothing to the
\* caller.
LEMMA OthersStutter ==
    ASSUME Known, NEW t \in Threads, Acquire(t) \/ Release(t) \/ Fill(t)
    PROVE  UNCHANGED <<table, Calls>>
  <1>0. PICK seen : seen = call[t].seen
    OBVIOUS
  <1>1. PICK op \in Ops : op = call[t].op
    BY DEF Known, CallKnows, Acquire, Release, Fill
  <1>2. CASE Acquire(t)
    <2> DEFINE c == [pc |-> "commit", op |-> op, seen |-> None]
    <2>1. call' = [call EXCEPT ![t] = c] /\ UNCHANGED table
      BY <1>1, <1>2 DEF Acquire, Goto
    <2>2. StoreCall(c) = StoreCall(call[t])
      BY <1>1, <1>2 DEF StoreCall, Pending, Acquire
    <2> HIDE DEF c
    <2> QED
      BY <2>1, <2>2, Stutters
  <1>3. CASE Release(t)
    <2> DEFINE c == [pc |-> "select", op |-> op, seen |-> None]
    <2>1. call' = [call EXCEPT ![t] = c] /\ UNCHANGED table
      BY <1>1, <1>3 DEF Release, Goto
    <2>2. op.kind # "get"
      BY <1>1, <1>3 DEF Known, CallKnows, Release
    <2>3. StoreCall(c) = StoreCall(call[t])
      BY <1>1, <1>3, <2>2 DEF StoreCall, Pending, Release
    <2> HIDE DEF c
    <2> QED
      BY <2>1, <2>3, Stutters
  <1>4. CASE Fill(t)
    <2> DEFINE c == [pc |-> "refill", op |-> op, seen |-> seen]
    <2>1. call' = [call EXCEPT ![t] = c] /\ UNCHANGED table
      BY <1>0, <1>1, <1>4 DEF Fill, Goto
    <2>2. StoreCall(c) = StoreCall(call[t])
      BY <1>0, <1>1, <1>4 DEF StoreCall, Pending, Fill
    <2> HIDE DEF c
    <2> QED
      BY <2>1, <2>2, Stutters
  <1> QED
    BY <1>2, <1>3, <1>4

\* Every step of the repository is a step of JobStore or a stutter.
LEMMA StepsRefine ==
    ASSUME Known, [Next]_vars
    PROVE  Store!Next \/ UNCHANGED <<table, Calls>>
  <1>1. ASSUME NEW t \in Threads, NEW j \in Jobs, StartGet(t, j)
        PROVE  Store!Next
    <2>1. Op("get", j, NoPatch) \in Ops /\ Op("get", j, NoPatch).kind = "get"
      BY DEF Op, Ops, NoPatch, Patches
    <2> QED
      BY <1>1, <2>1, Begins DEF StartGet
  <1>2. ASSUME NEW t \in Threads, NEW j \in Jobs, NEW patch \in Patches,
               StartCreate(t, j, patch) \/ StartUpdate(t, j, patch)
        PROVE  Store!Next
    <2>1. \A kind \in {"create", "update"} :
             /\ Op(kind, j, patch) \in Ops
             /\ Op(kind, j, patch).kind = kind /\ Op(kind, j, patch).job = j
      BY DEF Op, Ops
    <2> QED
      BY <1>2, <2>1, Begins DEF StartCreate, StartUpdate
  <1>3. ASSUME NEW t \in Threads, Refill(t) \/ Raise(t)
        PROVE  Store!Next
    BY <1>3, Ends DEF Refill, Raise
  <1>4. CASE Crash
    <2>1. Calls' = [t \in Threads |-> [at |-> "idle", op |-> None, answer |-> None]]
      BY <1>4 DEF Crash, Calls, StoreCall, Idle
    <2> QED
      BY <1>4, <2>1 DEF Crash, Store!Next, Store!Crash, Store!Idle, Calls
  <1>5. CASE UNCHANGED vars
    BY <1>5 DEF vars, Calls, StoreCall, Pending
  <1> QED
    BY <1>1, <1>2, <1>3, <1>4, <1>5, CommitApplies, SelectApplies, OthersStutter DEF Next

\* The repository keeps the promise of JobStore: every call takes effect at one
\* moment between its beginning and its end, whatever the other threads, the
\* cache, failing statements and crashes do.
THEOREM RepositoryIsStore == Spec => StoreSpec
  <1>1. Init => Store!Init
    BY DEF Init, Store!Init, Store!Idle, StoreCall, Idle
  <1>2. Known /\ [Next]_vars => [Store!Next]_(Store!svars)
    BY StepsRefine DEF Store!svars, Calls
  <1> QED
    BY <1>1, <1>2, AlwaysKnown, PTL DEF Spec, StoreSpec, Store!Spec
=============================================================================
