------------------------------ MODULE JobStore ------------------------------
(***************************************************************************)
(* What JobRepository promises its callers: a table in which each call     *)
(* takes effect at one moment between its beginning and its end.  A call   *)
(* that raises, or is cut off by a crash, has had its effect or has not;   *)
(* its caller cannot tell.  This is what lets JobService treat a           *)
(* repository call as one step.                                            *)
(***************************************************************************)
CONSTANTS Jobs, Threads, Columns, Values, None

VARIABLES
    store,  \* the row of each job, None where there is none
    call    \* what each thread has called and been told

svars == <<store, call>>

Patches == [Columns -> Values \cup {None}]
Ops == [kind : {"get", "create", "update"}, job : Jobs, patch : Patches]

Merged(row, patch) ==
    [c \in Columns |-> IF patch[c] = None THEN row[c] ELSE patch[c]]

Idle == [at |-> "idle", op |-> None, answer |-> None]

Init == store = [j \in Jobs |-> None] /\ call = [t \in Threads |-> Idle]

\* An id is created once; only ids that have been given out are updated.
Begin(t) ==
    /\ call[t] = Idle
    /\ \E op \in Ops :
          /\ op.kind # "get" => (op.kind = "create" <=> store[op.job] = None)
          /\ call' = [call EXCEPT ![t] = [at |-> "called", op |-> op, answer |-> None]]
    /\ UNCHANGED store

\* The moment of the call.
Apply(t) ==
    LET op == call[t].op IN
    /\ call[t].at = "called"
    /\ call' = [call EXCEPT ![t] =
                   [at |-> "done", op |-> op,
                    answer |-> IF op.kind = "get" THEN store[op.job] ELSE None]]
    /\ store' = CASE op.kind = "get"    -> store
                  [] op.kind = "create" -> [store EXCEPT ![op.job] = op.patch]
                  [] op.kind = "update" ->
                        [store EXCEPT ![op.job] = Merged(store[op.job], op.patch)]

\* It returns, or raises before or after its moment.
End(t) == call' = [call EXCEPT ![t] = Idle] /\ UNCHANGED store

Crash == call' = [t \in Threads |-> Idle] /\ UNCHANGED store

Next == (\E t \in Threads : Begin(t) \/ Apply(t) \/ End(t)) \/ Crash

Spec == Init /\ [][Next]_svars
=============================================================================
