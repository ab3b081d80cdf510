---------------------------- MODULE ToolchainRun ----------------------------
(***************************************************************************)
(* POST /v1/jobs/{id}/toolchain/run (apps/api/routes/candidates.py), the   *)
(* execution service and its runners (adapters/toolchain/executor.py,      *)
(* runners/*.py) and the local artifact store (adapters/artifacts/         *)
(* local.py), for one job.                                                 *)
(*                                                                         *)
(* A handler thread reads the row, runs the tools one after the other,     *)
(* each writing its artifacts file by file into the store that all threads *)
(* share, and writes the whole result and the whole report back in one     *)
(* update.  Meanwhile other handlers do the same, a second execution of    *)
(* the job may store a fresh result, and the process may die.              *)
(***************************************************************************)
EXTENDS ToolchainTools

CONSTANTS
  Handlers,        \* threads of the API
  Candidates,      \* ids of the candidates of the job
  FactsOf,         \* the facts of each candidate (see ToolchainTools)
  Installations,   \* the sets of optional tools a machine may have
  Requests,        \* the lists of tool names that clients send
  None,            \* no execution
  MaxRuns,         \* bound: requests served
  MaxGenerations,  \* bound: results stored by the generation pipeline
  MaxCrashes       \* bound: deaths of the process and writes that raise

\* A mass or a speed of zero is falsy and reads as a default: a candidate has neither.
ASSUME ToolchainAssumption ==
  /\ None \notin 1..MaxRuns
  /\ MaxRuns \in Nat /\ MaxGenerations \in Nat \ {0} /\ MaxCrashes \in Nat
  /\ FactsOf \in [Candidates -> [torque : Int, physics : SUBSET Int, mass : Nat \ {0},
                                 speed : Nat \ {0}, efficiency : Nat, gear : BOOLEAN]]
  /\ \A c \in Candidates : IsFiniteSet(FactsOf[c].physics)
  /\ \A request \in Requests : request # <<>>
  /\ \A i \in Installations : i \subseteq {"FreeCAD", "CalculiX", "OpenMDAO"}

VARIABLES
  installed,   \* the optional tools found on this machine
  generation,  \* the content of the result in the row, which is what fingerprints are of
  generated,   \* results the pipeline has stored so far
  latest,      \* result.candidates[c].toolchain_results.latest_execution
  report,      \* report.toolchain_runs
  files,       \* the artifact store: content by generation, candidate, tool and name
  pc,          \* what each handler is doing
  run,         \* the request a handler serves, the row it read, what it has done
  runs,        \* requests served so far
  crashes,     \* deaths of the process and writes that have raised so far
  before,      \* history: the runs that had ended before each run read the row
  written      \* history: the runs recorded since the pipeline last stored a result

row == <<generation, latest, report, written>>
vars == <<installed, row, generated, files, pc, run, runs, crashes, before>>

Optional == {"FreeCAD", "CalculiX", "OpenMDAO"}

SupportedTools == {"CadQuery"} \union Optional

\* The artifacts of a tool, in the order it stores them.
Artifacts ==
  [tool \in SupportedTools |->
     CASE tool = "CadQuery" -> <<"step", "stl", "source", "manifest">>
       [] tool = "FreeCAD" -> <<"assembly_checks", "drawing_handoff", "macro">>
       [] tool = "CalculiX" -> <<"margin_report", "solver_deck">>
       [] tool = "OpenMDAO" -> <<"pareto_trace", "problem_source">>]

Paths == {<<g, c, t, n>> : g \in 1..MaxGenerations, c \in Candidates,
                           t \in SupportedTools, n \in UNION {ToSet(Artifacts[x]) : x \in SupportedTools}}

NoExecution == [tool |-> "", status |-> "", artifacts |-> {}, output |-> <<>>]

Idle == [id |-> 0, candidate |-> CHOOSE c \in Candidates : TRUE, tools |-> <<>>,
         dry |-> FALSE, generation |-> 1, latest |-> [c \in Candidates |-> None],
         report |-> <<>>, done |-> <<>>, written |-> 0]

Init ==
  /\ installed \in Installations
  /\ generation = 1
  /\ generated = 1
  /\ latest = [c \in Candidates |-> None]
  /\ report = <<>>
  /\ files = <<>>
  /\ pc = [h \in Handlers |-> "idle"]
  /\ run = [h \in Handlers |-> Idle]
  /\ runs = 0
  /\ crashes = 0
  /\ before = <<>>
  /\ written = {}

-----------------------------------------------------------------------------
(***************************************************************************)
(* The execution service                                                   *)
(***************************************************************************)
\* Every name once, where it comes first.
Unique(names) ==
  LET firsts == SelectSeq([i \in DOMAIN names |-> i],
                          LAMBDA i : \A j \in 1..(i - 1) : names[j] # names[i])
  IN [k \in DOMAIN firsts |-> names[firsts[k]]]

Statuses(executions) == {e.status : e \in ToSet(executions)}

AggregateStatus(executions) ==
  LET statuses == Statuses(executions) IN
  CASE executions = <<>> -> "partial"
    [] Cardinality(statuses) = 1 /\ "failed" \notin statuses -> CHOOSE s \in statuses : TRUE
    [] Cardinality(statuses) # 1 /\ statuses \intersect {"failed", "succeeded"} # {} -> "partial"
    [] Cardinality(statuses) # 1 /\ statuses \intersect {"failed", "succeeded"} = {}
         /\ "unavailable" \in statuses -> "unavailable"
    [] OTHER -> "partial"

\* Mutant: the artifacts of the whole request, wherever they come in it.
AnyUpstream(done) ==
  [tool \in SupportedTools |-> ToSet(Artifacts[tool])]

\* upstream_artifact_uris: the artifacts recorded so far in this request.
Upstream(done) ==
  [tool \in {e.tool : e \in {x \in ToSet(done) : x.artifacts # {}}} |->
     (CHOOSE e \in ToSet(done) : e.tool = tool).artifacts]

\* What a runner computes for a candidate, given the artifacts upstream.
Output(tool, facts, upstream) ==
  CASE tool = "CadQuery" -> Placeholder(facts)
    [] tool = "FreeCAD" -> [geometry |-> AssemblyGeometry(upstream)]
    [] tool = "CalculiX" -> [geometry |-> SolverGeometry(upstream), margins |-> MarginReport(facts)]
    [] tool = "OpenMDAO" -> [points |-> ParetoFront(facts)]

NotExecuted(tool, status) == [NoExecution EXCEPT !.tool = tool, !.status = status]

\* The tool the handler turns to next, and what keeps it from running, if
\* anything: "" means that it runs.
NextTool(h) == run[h].tools[Len(run[h].done) + 1]

\* Mutant: the dry run is recognised only for tools without a runner.
DispatchAnyway(h) ==
  CASE NextTool(h) \notin Planned(FactsOf[run[h].candidate]) -> "planned_only"
    [] NextTool(h) \notin SupportedTools /\ run[h].dry -> "planned_only"
    [] NextTool(h) \notin SupportedTools /\ ~run[h].dry -> "unavailable"
    [] NextTool(h) \in Optional \ installed -> "unavailable"
    [] OTHER -> ""

Refusal(h) ==
  CASE NextTool(h) \notin Planned(FactsOf[run[h].candidate]) -> "planned_only"
    [] NextTool(h) \in Planned(FactsOf[run[h].candidate]) /\ run[h].dry -> "planned_only"
    [] ~run[h].dry /\ NextTool(h) \notin SupportedTools -> "unavailable"
    [] NextTool(h) \in Optional \ installed /\ ~run[h].dry -> "unavailable"
    [] OTHER -> ""

Execution(h) ==
  [id |-> run[h].id, candidate |-> run[h].candidate, generation |-> run[h].generation,
   executions |-> run[h].done, status |-> AggregateStatus(run[h].done)]

-----------------------------------------------------------------------------
(***************************************************************************)
(* Actions of a handler                                                    *)
(***************************************************************************)
\* The handler reads the row; the candidate has a plan.
Start(h) ==
  /\ pc[h] = "idle"
  /\ runs < MaxRuns
  /\ \E c \in Candidates, tools \in Requests, dry \in BOOLEAN :
       run' = [run EXCEPT ![h] =
                 [id |-> runs + 1, candidate |-> c, tools |-> Unique(tools), dry |-> dry,
                  generation |-> generation, latest |-> latest, report |-> report,
                  done |-> <<>>, written |-> 0]]
  /\ pc' = [pc EXCEPT ![h] = "running"]
  /\ runs' = runs + 1
  /\ before' = Append(before, (1..runs) \ {run[x].id : x \in Handlers})
  /\ UNCHANGED <<installed, row, generated, files, crashes>>

\* A tool that is planned only or unavailable, or whose executable is missing.
Skip(h) ==
  /\ pc[h] = "running"
  /\ Len(run[h].done) < Len(run[h].tools)
  /\ Refusal(h) # ""
  /\ run' = [run EXCEPT ![h].done = Append(@, NotExecuted(NextTool(h), Refusal(h)))]
  /\ UNCHANGED <<installed, row, generated, files, pc, runs, crashes, before>>

\* Mutant: a file that exists is kept, as its fingerprint is the same.
KeepExisting(path, content) ==
  [p \in DOMAIN files \union {path} |-> IF p \in DOMAIN files THEN files[p] ELSE content]

\* put_bytes: the path is made of the fingerprint, the tool and the name, and
\* what it held is overwritten.
Put(path, content) ==
  [p \in DOMAIN files \union {path} |-> IF p = path THEN content ELSE files[p]]

\* A runner stores its next artifact; behind the last one it returns.
Store(h) ==
  LET r == run[h]
      tool == NextTool(h)
      names == Artifacts[tool]
      output == Output(tool, FactsOf[r.candidate], Upstream(r.done))
  IN /\ pc[h] = "running"
     /\ Len(r.done) < Len(r.tools)
     /\ Refusal(h) = ""
     /\ files' = Put(<<r.generation, r.candidate, tool, names[r.written + 1]>>, r.id)
     /\ run' = [run EXCEPT ![h] =
                  IF r.written + 1 < Len(names) THEN [r EXCEPT !.written = @ + 1]
                  ELSE [r EXCEPT !.written = 0,
                          !.done = Append(@, [tool |-> tool, status |-> "succeeded",
                                              artifacts |-> ToSet(names), output |-> output])]]
     /\ UNCHANGED <<installed, row, generated, pc, runs, crashes, before>>

\* The next write raises OSError: the handler answers 500 and the row keeps what
\* it holds; the files stored so far stay.
Raise(h) ==
  /\ pc[h] = "running"
  /\ Len(run[h].done) < Len(run[h].tools)
  /\ Refusal(h) = ""
  /\ crashes < MaxCrashes
  /\ crashes' = crashes + 1
  /\ pc' = [pc EXCEPT ![h] = "idle"]
  /\ run' = [run EXCEPT ![h] = Idle]
  /\ UNCHANGED <<installed, row, generated, files, runs, before>>

\* Mutant: the handler of a dry run keeps its request.
AnswerKeeps(h) ==
  /\ pc[h] = "running"
  /\ Len(run[h].done) = Len(run[h].tools)
  /\ run[h].dry
  /\ pc' = [pc EXCEPT ![h] = "idle"]
  /\ UNCHANGED <<installed, row, generated, files, run, runs, crashes, before>>

\* A dry run answers and leaves the row alone.
AnswerDry(h) ==
  /\ pc[h] = "running"
  /\ Len(run[h].done) = Len(run[h].tools)
  /\ run[h].dry
  /\ pc' = [pc EXCEPT ![h] = "idle"]
  /\ run' = [run EXCEPT ![h] = Idle]
  /\ UNCHANGED <<installed, row, generated, files, runs, crashes, before>>

\* Mutant: the list of runs is started anew.
RecordAlone(h) == <<Execution(h)>>

\* report.setdefault("toolchain_runs", []).append(execution), on the report
\* the handler read.
Recorded(h) == Append(run[h].report, Execution(h))

\* Result and report go back as they were read, with this execution in both.
Write(h) ==
  /\ pc[h] = "running"
  /\ Len(run[h].done) = Len(run[h].tools)
  /\ ~run[h].dry
  /\ generation' = run[h].generation
  /\ latest' = [run[h].latest EXCEPT ![run[h].candidate] = run[h].id]
  /\ report' = Recorded(h)
  /\ written' = written \union {run[h].id}
  /\ pc' = [pc EXCEPT ![h] = "idle"]
  /\ run' = [run EXCEPT ![h] = Idle]
  /\ UNCHANGED <<installed, generated, files, runs, crashes, before>>

-----------------------------------------------------------------------------
(***************************************************************************)
(* The environment                                                         *)
(***************************************************************************)
\* Another execution of the job stores its own result and its own report.  A
\* fingerprint is a hash of the content: a result that comes out as one before
\* it did leads to the same paths again.
Finish ==
  /\ generated < MaxGenerations
  /\ generated' = generated + 1
  /\ generation' \in 1..generated + 1
  /\ latest' = [c \in Candidates |-> None]
  /\ report' = <<>>
  /\ written' = {}
  /\ UNCHANGED <<installed, files, pc, run, runs, crashes, before>>

Crash ==
  /\ crashes < MaxCrashes
  /\ crashes' = crashes + 1
  /\ pc' = [h \in Handlers |-> "idle"]
  /\ run' = [h \in Handlers |-> Idle]
  /\ UNCHANGED <<installed, row, generated, files, runs, before>>

Next ==
  \/ \E h \in Handlers :
       Start(h) \/ Skip(h) \/ Store(h) \/ Raise(h) \/ AnswerDry(h) \/ Write(h)
  \/ Finish
  \/ Crash

Spec == Init /\ [][Next]_vars

-----------------------------------------------------------------------------
(***************************************************************************)
(* Properties                                                              *)
(***************************************************************************)
Ids(executions) == {e.id : e \in ToSet(executions)}

\* The variables have their types.
TypeOK ==
  /\ installed \in Installations
  /\ generation \in 1..generated /\ generated \in 1..MaxGenerations
  /\ latest \in [Candidates -> 1..MaxRuns \union {None}]
  /\ Len(report) <= MaxRuns /\ Ids(report) \subseteq 1..runs
  /\ DOMAIN files \subseteq Paths /\ \A p \in DOMAIN files : files[p] \in 1..runs
  /\ pc \in [Handlers -> {"idle", "running"}]
  /\ \A h \in Handlers : pc[h] = "idle" <=> run[h] = Idle
  /\ runs \in 0..MaxRuns /\ crashes \in 0..MaxCrashes
  /\ Len(before) = runs /\ \A i \in 1..runs : before[i] \subseteq 1..(i - 1)
  /\ written \subseteq 1..runs

\* Result and report agree whatever handlers overlap: latest_execution of a
\* candidate is the last entry for it in toolchain_runs.
LatestIsLastEntry ==
  \A c \in Candidates :
    LET mine == {i \in DOMAIN report : report[i].candidate = c}
    IN /\ mine = {} => latest[c] = None
       /\ \A i \in mine : (\A j \in mine : j <= i) => latest[c] = report[i].id

\* A recorded run disappears from the report only if some recorded run was
\* under way together with it: requests one after the other never lose one.
LostOnlyByOverlap ==
  \A e \in written \ Ids(report) :
    \E y \in written \ {e} : e \notin before[y] /\ y \notin before[e]

\* What the row says of the runs.
RunsAreRecorded == LatestIsLastEntry /\ LostOnlyByOverlap

\* Every artifact the report names is in the store, and was not left there by
\* a run that had ended, or died, before the run that names it began.
RecordedFilesCurrent ==
  \A e \in ToSet(report) : \A x \in ToSet(e.executions) : \A n \in x.artifacts :
    LET path == <<e.generation, e.candidate, x.tool, n>>
    IN path \in DOMAIN files /\ files[path] \notin before[e.id]

\* What the handlers have done so far, as executions.
UnderWay == {Execution(h) : h \in {x \in Handlers : pc[x] = "running"}}

\* FreeCAD has a STEP file exactly when CadQuery ran before it in the same
\* request; CalculiX has geometry exactly when one of the two did, the assembly
\* of FreeCAD if there is one.  A run in the planned order feeds every tool.
GeometryIsFed ==
  \A e \in UnderWay : \A i \in DOMAIN e.executions :
    LET x == e.executions[i]
        Ran(tool) == \E j \in 1..(i - 1) :
                       e.executions[j].tool = tool /\ e.executions[j].artifacts # {}
    IN /\ x.tool = "FreeCAD" /\ x.artifacts # {}
            => x.output.geometry = IF Ran("CadQuery") THEN <<"CadQuery", "step">> ELSE <<>>
       /\ x.tool = "CalculiX" /\ x.artifacts # {}
            => x.output.geometry = CASE Ran("FreeCAD") -> <<"FreeCAD", "assembly_checks">>
                                     [] ~Ran("FreeCAD") /\ Ran("CadQuery") -> <<"CadQuery", "step">>
                                     [] OTHER -> <<>>

\* The status of a run says "succeeded" only if every tool left artifacts,
\* "partial" if some but not all did, and otherwise whether a tool was missing.
StatusHonest ==
  \A e \in UnderWay :
    LET all == ToSet(e.executions)
        ran == {x \in all : x.artifacts # {}}
    IN e.executions # <<>> =>
         e.status = CASE ran = all -> "succeeded"
                      [] ran # all /\ ran # {} -> "partial"
                      [] ran = {} /\ \E x \in all : x.status = "unavailable" -> "unavailable"
                      [] OTHER -> "planned_only"

\* A dry run leaves no file in the store.
DryRunsLeaveNoFile ==
  \A h \in Handlers : pc[h] = "running" /\ run[h].dry
    => \A p \in DOMAIN files : files[p] # run[h].id

\* What a client is told of a run is what happened.
RunsAreHonest == StatusHonest /\ DryRunsLeaveNoFile

\* The candidate and the output of the runs of a tool that have just returned.
Outputs(tool) ==
  {<<e.candidate, Last(e.executions).output>> :
     e \in {x \in UnderWay : /\ x.executions # <<>>
                             /\ Last(x.executions).tool = tool
                             /\ Last(x.executions).artifacts # {}}}

\* The margin report says "pass" exactly when neither the torque margin nor
\* any physics margin of the candidate is negative.
PassNeedsEveryMargin ==
  \A o \in Outputs("CalculiX") :
    LET facts == FactsOf[o[1]]
    IN o[2].margins.status = "pass" <=> \A m \in facts.physics \union {facts.torque} : m >= 0

\* The pads of the placeholder lie on its block and apart from each other, and
\* its triangles close: every edge is run through once in either direction.
PlaceholderIsSolid ==
  \A o \in Outputs("CadQuery") :
    LET pads == o[2].pads
        Edges(t) == {<<t[1], t[2]>>, <<t[2], t[3]>>, <<t[3], t[1]>>}
        Owners(edge) == {k \in DOMAIN Triangles : edge \in Edges(Triangles[k])}
    IN /\ \A i \in DOMAIN pads : /\ 2 * pads[i].center >= pads[i].size
                                 /\ 2 * pads[i].center + pads[i].size <= 2 * o[2].envelope.length
       /\ \A i, j \in DOMAIN pads :
            i < j => 2 * pads[i].center + pads[i].size <= 2 * pads[j].center - pads[j].size
       /\ \A edge \in UNION {Edges(Triangles[k]) : k \in DOMAIN Triangles} :
            Cardinality(Owners(edge)) = 1 /\ Cardinality(Owners(<<edge[2], edge[1]>>)) = 1

\* The Pareto front keeps the candidate as it is, the fastest and the lightest
\* point of the sweep, and dominates every point it leaves out.
FrontIsSound ==
  \A o \in Outputs("OpenMDAO") :
    LET points == {SweepPoint(FactsOf[o[1]], f) : f \in SweepFactors}
        front == o[2].points
    IN /\ {85, 100, 115} \subseteq {p.factor : p \in front}
       /\ \A p \in points \ front : \E q \in front : NoWorse(q, p)

\* What the runners hand over.
OutputsAreSound == PassNeedsEveryMargin /\ PlaceholderIsSolid /\ FrontIsSound
=============================================================================
