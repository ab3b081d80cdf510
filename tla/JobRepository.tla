--------------------------- MODULE JobRepository ----------------------------
(***************************************************************************)
(* get, create and update of packages/domain/repositories/jobs.py, called  *)
(* by threads of one process: the SQLite table, the dictionary _cache      *)
(* beside it, which is filled without the lock, and the lock around the    *)
(* statements that write.  Each call opens its own connection; a statement *)
(* is seen by others when its transaction commits.                         *)
(*                                                                         *)
(* A row is its columns; a patch gives the columns that update() is called *)
(* with, or all that create() inserts.  Not modelled: the change of the    *)
(* default path and the search of other databases, which the code does     *)
(* only under pytest.                                                      *)
(***************************************************************************)
EXTENDS Naturals

CONSTANTS
    Jobs,       \* the ids of jobs
    Threads,    \* threads that use the one repository object
    Columns,    \* columns of the table
    Values,     \* what they hold
    None,       \* no row, no entry, SQL NULL
    MaxCrashes  \* bound: crashes of the process

ASSUME CrashesAssumption == MaxCrashes \in Nat
ASSUME NoneAssumption == /\ None \notin Values \cup Threads
                         /\ None \notin [Columns -> Values \cup {None}]

VARIABLES
    table,    \* the jobs table
    cache,    \* _cache
    lock,     \* the thread that holds _lock
    call,     \* the call of each thread: program point, arguments, row read
    crashes

vars == <<table, cache, lock, call, crashes>>

Patches == [Columns -> Values \cup {None}]
Ops == [kind : {"get", "create", "update"}, job : Jobs, patch : Patches]
PCs == {"idle", "lock", "commit", "release", "select", "fill", "refill"}
CallState == [pc : PCs, op : Ops \cup {None}, seen : Patches \cup {None}]

Idle == [pc |-> "idle", op |-> None, seen |-> None]

NoPatch == [c \in Columns |-> None]

\* A keyword that is None leaves its column alone.
Given(new, old) == IF new = None THEN old ELSE new

\* Mutant: the columns that are not given are dropped.
UpdatedPartly(row, patch) == [c \in {c \in Columns : patch[c] # None} |-> patch[c]]

Updated(row, patch) == [c \in Columns |-> Given(patch[c], row[c])]

Init ==
    /\ table = [j \in Jobs |-> None]
    /\ cache = [j \in Jobs |-> None]
    /\ lock = None
    /\ call = [t \in Threads |-> Idle]
    /\ crashes = 0

\* The next program point of t, with the row it has read.
Goto(t, pc, seen) ==
    call' = [call EXCEPT ![t] = [pc |-> pc, op |-> call[t].op, seen |-> seen]]

----------------------------------------------------------------------------
Op(kind, j, patch) == [kind |-> kind, job |-> j, patch |-> patch]

Start(t, pc, op) ==
    /\ call[t].pc = "idle"
    /\ call' = [call EXCEPT ![t] = [pc |-> pc, op |-> op, seen |-> None]]
    /\ UNCHANGED <<table, cache, lock, crashes>>

\* get() of any id, also of one no job has.
StartGet(t, j) == Start(t, "select", Op("get", j, NoPatch))

\* create() draws an id nobody has yet.
StartCreate(t, j, row) ==
    /\ table[j] = None
    /\ \A u \in Threads : call[u].pc # "idle" => call[u].op.job # j
    /\ Start(t, "lock", Op("create", j, row))

\* update() is called with ids of rows that its callers have read.
StartUpdate(t, j, patch) ==
    /\ table[j] # None
    /\ Start(t, "lock", Op("update", j, patch))

----------------------------------------------------------------------------
\* Mutant: create puts its row into the cache before the insert.
AcquireCaching(t) ==
    LET op == call[t].op IN
    /\ call[t].pc = "lock"
    /\ lock = None
    /\ lock' = t
    /\ cache' = IF op.kind = "create" THEN [cache EXCEPT ![op.job] = op.patch] ELSE cache
    /\ Goto(t, "commit", None)
    /\ UNCHANGED <<table, crashes>>

\* with self._lock, which is held by nobody.
Acquire(t) ==
    /\ call[t].pc = "lock"
    /\ lock = None
    /\ lock' = t
    /\ Goto(t, "commit", None)
    /\ UNCHANGED <<table, cache, crashes>>

\* The insert or update statement and the commit at the end of the with block.
\* An update writes the columns it is given and no others.
Commit(t) ==
    LET op == call[t].op IN
    /\ call[t].pc = "commit"
    /\ table' = [table EXCEPT ![op.job] =
          IF op.kind = "create" THEN op.patch
          ELSE Updated(@, op.patch)]
    /\ Goto(t, "release", None)
    /\ UNCHANGED <<cache, lock, crashes>>

Release(t) ==
    /\ call[t].pc = "release"
    /\ lock' = None
    /\ Goto(t, "select", None)
    /\ UNCHANGED <<table, cache, crashes>>

----------------------------------------------------------------------------
\* Mutant: get looks into the cache first.
SelectCacheFirst(t) ==
    LET j == call[t].op.job IN
    /\ call[t].pc = "select"
    /\ Goto(t, IF cache[j] # None THEN "refill" ELSE "fill",
            IF cache[j] # None THEN cache[j] ELSE table[j])
    /\ UNCHANGED <<table, cache, lock, crashes>>

\* The select of get(), which create() and update() call too, outside the lock.
\* Where there is no row the cache answers.
Select(t) ==
    LET j == call[t].op.job IN
    /\ call[t].pc = "select"
    /\ IF table[j] # None THEN Goto(t, "fill", table[j]) ELSE Goto(t, "refill", cache[j])
    /\ UNCHANGED <<table, cache, lock, crashes>>

\* _row_to_dict puts the row it was given into the cache.
Fill(t) ==
    /\ call[t].pc = "fill"
    /\ cache' = [cache EXCEPT ![call[t].op.job] = call[t].seen]
    /\ Goto(t, "refill", call[t].seen)
    /\ UNCHANGED <<table, lock, crashes>>

\* The end of the call.  create and update put what get returned into the
\* cache once more; without it create leaves a stub and update patches what is
\* cached.
Refill(t) ==
    LET op == call[t].op
        seen == call[t].seen
        entry == CASE op.kind = "get" -> cache[op.job]
                   [] op.kind # "get" /\ seen # None -> seen
                   [] op.kind = "create" /\ seen = None -> op.patch
                   [] op.kind = "update" /\ seen = None ->
                         IF cache[op.job] = None THEN None
                         ELSE Updated(cache[op.job], op.patch)
    IN
    /\ call[t].pc = "refill"
    /\ cache' = [cache EXCEPT ![op.job] = entry]
    /\ call' = [call EXCEPT ![t] = Idle]
    /\ UNCHANGED <<table, lock, crashes>>

\* Mutant: the lock is taken and released by hand, without a finally.
RaiseLocked(t) ==
    /\ call[t].pc \in {"commit", "select"}
    /\ call' = [call EXCEPT ![t] = Idle]
    /\ UNCHANGED <<table, cache, lock, crashes>>

\* sqlite3.Error from a statement: the transaction is rolled back and the lock
\* released on the way out.
Raise(t) ==
    /\ call[t].pc \in {"commit", "select"}
    /\ lock' = IF lock = t THEN None ELSE lock
    /\ call' = [call EXCEPT ![t] = Idle]
    /\ UNCHANGED <<table, cache, crashes>>

\* The process ends and starts anew: the table is all that is left.
Crash ==
    /\ crashes < MaxCrashes
    /\ crashes' = crashes + 1
    /\ cache' = [j \in Jobs |-> None]
    /\ lock' = None
    /\ call' = [t \in Threads |-> Idle]
    /\ UNCHANGED table

Next ==
    \/ \E t \in Threads :
          \/ \E j \in Jobs : StartGet(t, j)
          \/ \E j \in Jobs, patch \in Patches : StartCreate(t, j, patch)
          \/ \E j \in Jobs, patch \in Patches : StartUpdate(t, j, patch)
          \/ Acquire(t) \/ Commit(t) \/ Release(t)
          \/ Select(t) \/ Fill(t) \/ Refill(t) \/ Raise(t)
    \/ Crash

Spec == Init /\ [][Next]_vars

----------------------------------------------------------------------------
\* The types of the table, the cache, the lock and the calls.
TypeOK ==
    /\ table \in [Jobs -> Patches \cup {None}]
    /\ cache \in [Jobs -> Patches \cup {None}]
    /\ lock \in Threads \cup {None}
    /\ call \in [Threads -> CallState]
    /\ crashes \in 0 .. MaxCrashes

\* The cache never knows a job the table does not have, nor is a call about to
\* put one there: no call that raised or was cut off leaves a job that exists
\* only in memory.  So get() never answers from the cache, however stale its
\* entries are.
CacheBacked ==
    /\ \A j \in Jobs : cache[j] # None => table[j] # None
    /\ \A t \in Threads : call[t].seen # None => table[call[t].op.job] # None

\* The lock is held only by a thread between its statement and its release, so
\* a statement that raises does not shut every later writer out.
LockHeldByWriter ==
    /\ lock # None => call[lock].pc \in {"commit", "release"}
    /\ \A t \in Threads : call[t].pc \in {"commit", "release"} => lock = t

\* What a call is to its caller: a read takes effect at its select, a write at
\* its commit, whatever is done to the cache afterwards.
Pending(c) == c.pc \in {"lock", "commit"} \/ (c.pc = "select" /\ c.op.kind = "get")

StoreCall(c) ==
    IF c.pc = "idle" THEN [at |-> "idle", op |-> None, answer |-> None]
    ELSE IF Pending(c) THEN [at |-> "called", op |-> c.op, answer |-> None]
    ELSE [at |-> "done", op |-> c.op,
          answer |-> IF c.op.kind = "get" THEN c.seen ELSE None]

\* Every call takes effect at one moment: a get answers the row as it was then,
\* and the columns two updates write are both kept.
Store == INSTANCE JobStore WITH store <- table, call <- [t \in Threads |-> StoreCall(call[t])]
StoreSpec == Store!Spec
=============================================================================
