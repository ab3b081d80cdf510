------------------------- MODULE ToolchainRunProofs -------------------------
(***************************************************************************)
(* Theorems about ToolchainRun, for any handlers, candidates and requests  *)
(* and any number of results and deaths: types, what the row says of the   *)
(* runs, the files behind the report, and what a run tells of its tools.   *)
(***************************************************************************)
EXTENDS ToolchainRun, NumberLemmas, SequenceTheorems, FiniteSetTheorems, TLAPS

(* Sequences of whatever entries they hold *)

Sequence(s) == s \in Seq(ToSet(s))

\* Append adds one entry behind the others.
LEMMA Appended ==
  ASSUME NEW s, Sequence(s), NEW e
  PROVE  /\ Sequence(Append(s, e))
         /\ Len(s) \in Nat /\ Len(Append(s, e)) = Len(s) + 1
         /\ DOMAIN s = 1..Len(s) /\ DOMAIN Append(s, e) = 1..(Len(s) + 1)
         /\ \A i \in 1..Len(s) : Append(s, e)[i] = s[i]
         /\ Append(s, e)[Len(s) + 1] = e
         /\ ToSet(Append(s, e)) = ToSet(s) \union {e}
<1> DEFINE S == ToSet(s) \union {e}
           t == Append(s, e)
<1>1. s \in Seq(S) /\ e \in S
  BY SeqMonotonic DEF Sequence
<1> HIDE DEF S
<1>2. /\ t \in Seq(S) /\ Len(t) = Len(s) + 1
      /\ \A i \in 1..Len(s) : t[i] = s[i]
      /\ t[Len(s) + 1] = e
  BY <1>1, AppendProperties
<1>3. Len(s) \in Nat /\ DOMAIN s = 1..Len(s) /\ DOMAIN t = 1..(Len(s) + 1)
  BY <1>1, <1>2, LenProperties
<1>4. ToSet(t) = S
  <2>1. \A x : x \in ToSet(t) <=> \E i \in 1..(Len(s) + 1) : x = t[i]
    BY <1>3 DEF ToSet
  <2>2. \A x : x \in S <=> x = e \/ \E i \in 1..Len(s) : x = s[i]
    BY <1>3 DEF S, ToSet
  <2>3. \A i \in 1..(Len(s) + 1) : i \in 1..Len(s) \/ i = Len(s) + 1
    BY <1>3
  <2>4. Len(s) + 1 \in 1..(Len(s) + 1) /\ 1..Len(s) \subseteq 1..(Len(s) + 1)
    BY <1>3
  <2> QED
    BY <1>2, <2>1, <2>2, <2>3, <2>4
<1> QED
  BY <1>2, <1>3, <1>4 DEF Sequence, S

\* The empty sequence.
LEMMA NothingYet == Sequence(<<>>) /\ Len(<<>>) = 0 /\ DOMAIN <<>> = {} /\ ToSet(<<>>) = {}
  BY DEF Sequence, ToSet

-----------------------------------------------------------------------------
(* TypeOK *)

Running == {h \in Handlers : pc[h] = "running"}

\* A record of a run, whatever its fields hold.
IsRun(r) ==
  r = [id |-> r.id, candidate |-> r.candidate, tools |-> r.tools, dry |-> r.dry,
       generation |-> r.generation, latest |-> r.latest, report |-> r.report,
       done |-> r.done, written |-> r.written]

Latests == [Candidates -> 1..MaxRuns \union {None}]

\* What a run under way has read and done, in a state with n requests and g
\* results so far.
RunTyped(r, n, g) ==
  /\ IsRun(r)
  /\ r.id \in 1..n
  /\ r.candidate \in Candidates
  /\ r.dry \in BOOLEAN
  /\ r.generation \in 1..g
  /\ r.latest \in Latests
  /\ Sequence(r.report) /\ Len(r.report) < r.id /\ Ids(r.report) \subseteq 1..n
  /\ Sequence(r.done)
  /\ r.written \in Nat

\* Whether a run of the handler comes to call the runner of a tool.
Called(h, tool) ==
  /\ tool \in Planned(FactsOf[run[h].candidate])
  /\ ~ run[h].dry
  /\ tool \in SupportedTools
  /\ tool \notin Optional \ installed

\* A runner that has stored files has more to store.
Storing(h) ==
  run[h].written > 0 =>
    /\ Called(h, NextTool(h))
    /\ Len(run[h].done) < Len(run[h].tools)
    /\ run[h].written < Len(Artifacts[NextTool(h)])

RowTyped ==
  /\ generation \in 1..generated /\ generated \in 1..MaxGenerations
  /\ latest \in Latests
  /\ Sequence(report) /\ Len(report) <= runs /\ Ids(report) \subseteq 1..runs
  /\ written \subseteq 1..runs

HistoryTyped ==
  /\ runs \in 0..MaxRuns /\ crashes \in 0..MaxCrashes
  /\ Sequence(before) /\ Len(before) = runs
  /\ \A i \in 1..runs : before[i] \subseteq 1..(i - 1)

FilesTyped == DOMAIN files \subseteq Paths /\ \A p \in DOMAIN files : files[p] \in 1..runs

RunsTyped ==
  /\ pc \in [Handlers -> {"idle", "running"}]
  /\ run = [h \in Handlers |-> run[h]]
  /\ \A h \in Handlers : pc[h] = "idle" <=> run[h] = Idle
  /\ \A h \in Running : RunTyped(run[h], runs, generated) /\ Storing(h)
  /\ \A h, x \in Running : run[h].id = run[x].id => h = x

TypeInvariant ==
  /\ installed \in Installations
  /\ RowTyped /\ HistoryTyped /\ FilesTyped /\ RunsTyped

\* The tools with artifacts, and how many each has.
LEMMA ArtifactsAre ==
  /\ DOMAIN Artifacts = SupportedTools
  /\ \A tool \in SupportedTools :
       /\ Len(Artifacts[tool]) \in 2..4 /\ DOMAIN Artifacts[tool] = 1..Len(Artifacts[tool])
       /\ \A k \in 1..Len(Artifacts[tool]) :
            Artifacts[tool][k] \in UNION {ToSet(Artifacts[x]) : x \in SupportedTools}
<1>1. DOMAIN Artifacts = SupportedTools
  BY DEF Artifacts
<1>2. /\ Artifacts["CadQuery"] = <<"step", "stl", "source", "manifest">>
      /\ Artifacts["FreeCAD"] = <<"assembly_checks", "drawing_handoff", "macro">>
      /\ Artifacts["CalculiX"] = <<"margin_report", "solver_deck">>
      /\ Artifacts["OpenMDAO"] = <<"pareto_trace", "problem_source">>
  <2>1. Artifacts["CadQuery"] = <<"step", "stl", "source", "manifest">>
    BY DEF Artifacts, SupportedTools
  <2>2. Artifacts["FreeCAD"] = <<"assembly_checks", "drawing_handoff", "macro">>
    BY DEF Artifacts, SupportedTools, Optional
  <2>3. Artifacts["CalculiX"] = <<"margin_report", "solver_deck">>
    BY DEF Artifacts, SupportedTools, Optional
  <2>4. Artifacts["OpenMDAO"] = <<"pareto_trace", "problem_source">>
    BY DEF Artifacts, SupportedTools, Optional
  <2> QED
    BY <2>1, <2>2, <2>3, <2>4
<1>3. SupportedTools = {"CadQuery", "FreeCAD", "CalculiX", "OpenMDAO"}
  BY DEF SupportedTools, Optional
<1>4. \A tool \in SupportedTools :
        Len(Artifacts[tool]) \in 2..4 /\ DOMAIN Artifacts[tool] = 1..Len(Artifacts[tool])
  <2>1. Len(Artifacts["CadQuery"]) = 4 /\ DOMAIN Artifacts["CadQuery"] = 1..4
    BY <1>2
  <2>2. Len(Artifacts["FreeCAD"]) = 3 /\ DOMAIN Artifacts["FreeCAD"] = 1..3
    BY <1>2
  <2>3. Len(Artifacts["CalculiX"]) = 2 /\ DOMAIN Artifacts["CalculiX"] = 1..2
    BY <1>2
  <2>4. Len(Artifacts["OpenMDAO"]) = 2 /\ DOMAIN Artifacts["OpenMDAO"] = 1..2
    BY <1>2
  <2> QED
    BY <1>3, <2>1, <2>2, <2>3, <2>4
<1>5. ASSUME NEW tool \in SupportedTools, NEW k \in 1..Len(Artifacts[tool])
      PROVE  Artifacts[tool][k] \in UNION {ToSet(Artifacts[x]) : x \in SupportedTools}
  <2>1. k \in DOMAIN Artifacts[tool]
    BY <1>4, <1>5
  <2> QED
    BY <2>1 DEF ToSet
<1> QED
  BY <1>1, <1>4, <1>5

\* A tool is refused, as planned only or as unavailable, unless its runner is called.
LEMMA RefusalIs ==
  ASSUME NEW h \in Handlers, run[h].dry \in BOOLEAN
  PROVE  /\ Refusal(h) \in {"", "planned_only", "unavailable"}
         /\ Refusal(h) = "" <=> Called(h, NextTool(h))
<1> DEFINE tool == NextTool(h)
           planned == tool \in Planned(FactsOf[run[h].candidate])
           supported == tool \in SupportedTools
           missing == tool \in Optional \ installed
<1>1. missing => supported
  BY DEF SupportedTools
<1>2. Refusal(h) =
        CASE ~ planned -> "planned_only"
          [] planned /\ run[h].dry -> "planned_only"
          [] ~run[h].dry /\ ~ supported -> "unavailable"
          [] missing /\ ~run[h].dry -> "unavailable"
          [] OTHER -> ""
  BY DEF Refusal
<1>3. Called(h, tool) <=> planned /\ ~ run[h].dry /\ supported /\ ~ missing
  BY DEF Called
<1> HIDE DEF planned, supported, missing
<1> QED
  BY <1>1, <1>2, <1>3

\* A run with other work done.
Advanced(r, done, stored) ==
  [id |-> r.id, candidate |-> r.candidate, tools |-> r.tools, dry |-> r.dry,
   generation |-> r.generation, latest |-> r.latest, report |-> r.report,
   done |-> done, written |-> stored]

\* The ways in which a step changes the work of a run.
LEMMA AdvancedIs ==
  ASSUME NEW r, IsRun(r), NEW done, NEW stored
  PROVE  /\ IsRun(Advanced(r, done, stored))
         /\ [r EXCEPT !.done = done] = Advanced(r, done, r.written)
         /\ [r EXCEPT !.written = stored] = Advanced(r, r.done, stored)
<1>1. IsRun(Advanced(r, done, stored))
  BY DEF IsRun, Advanced
<1>2. [r EXCEPT !.done = done] = Advanced(r, done, r.written)
  BY DEF IsRun, Advanced
<1>3. [r EXCEPT !.written = stored] = Advanced(r, r.done, stored)
  BY DEF IsRun, Advanced
<1> QED
  BY <1>1, <1>2, <1>3

\* A run under way holds what runs hold.
LEMMA RunIs ==
  ASSUME TypeInvariant, NEW h \in Running
  PROVE  /\ h \in Handlers /\ RunTyped(run[h], runs, generated) /\ Storing(h)
         /\ IsRun(run[h]) /\ run[h].dry \in BOOLEAN /\ Sequence(run[h].done)
         /\ Len(run[h].done) \in Nat
BY Appended DEF TypeInvariant, RunsTyped, Running, RunTyped

\* The state that the handlers other than h are in.
Elsewhere(h) ==
  /\ UNCHANGED <<installed, row, generated, pc, runs, crashes, before>>
  /\ h \in Running

Skipped(h) == NotExecuted(NextTool(h), Refusal(h))

\* Skip records that the tool was not called; nothing was stored for it.
LEMMA SkipIs ==
  ASSUME TypeInvariant, NEW h \in Handlers, Skip(h)
  PROVE  /\ Elsewhere(h) /\ UNCHANGED files
         /\ run[h].written = 0
         /\ ~ Called(h, NextTool(h))
         /\ run' = [run EXCEPT ![h] = Advanced(run[h], Append(run[h].done, Skipped(h)), 0)]
<1>1. h \in Running
  BY DEF Skip, Running
<1>2. ~ Called(h, NextTool(h))
  BY <1>1, RunIs, RefusalIs DEF Skip
<1>3. run[h].written = 0
  BY <1>1, <1>2, RunIs DEF Storing, RunTyped
<1>4. run' = [run EXCEPT ![h] = [run[h] EXCEPT !.done = Append(run[h].done, Skipped(h))]]
  BY DEF Skip, Skipped
<1>5. [run[h] EXCEPT !.done = Append(run[h].done, Skipped(h))] =
        Advanced(run[h], Append(run[h].done, Skipped(h)), 0)
  BY <1>1, <1>3, RunIs, AdvancedIs
<1> QED
  BY <1>1, <1>2, <1>3, <1>4, <1>5 DEF Skip, Elsewhere

\* What a runner returns behind its last artifact.
Returned(h) ==
  [tool |-> NextTool(h), status |-> "succeeded", artifacts |-> ToSet(Artifacts[NextTool(h)]),
   output |-> Output(NextTool(h), FactsOf[run[h].candidate], Upstream(run[h].done))]

PathOf(h, k) ==
  <<run[h].generation, run[h].candidate, NextTool(h), Artifacts[NextTool(h)][k]>>

\* Store writes one artifact more, and returns behind the last.
LEMMA StoreIs ==
  ASSUME TypeInvariant, NEW h \in Handlers, Store(h)
  PROVE  LET k == run[h].written + 1
             n == Len(Artifacts[NextTool(h)])
         IN /\ Elsewhere(h)
            /\ Called(h, NextTool(h))
            /\ Len(run[h].done) < Len(run[h].tools)
            /\ n \in Nat /\ k \in 1..n
            /\ files' = Put(PathOf(h, k), run[h].id)
            /\ run' = [run EXCEPT ![h] =
                         IF k < n THEN Advanced(run[h], run[h].done, k)
                         ELSE Advanced(run[h], Append(run[h].done, Returned(h)), 0)]
<1> DEFINE k == run[h].written + 1
           n == Len(Artifacts[NextTool(h)])
           r == run[h]
<1>1. h \in Running
  BY DEF Store, Running
<1>2. Called(h, NextTool(h))
  BY <1>1, RunIs, RefusalIs DEF Store
<1>3. n \in 2..4
  BY <1>2, ArtifactsAre DEF Called
<1>4. k \in 1..n
  <2>1. run[h].written \in Nat /\ (run[h].written > 0 => run[h].written < n)
    BY <1>1, RunIs DEF Storing, RunTyped
  <2> HIDE DEF n
  <2> QED
    BY <1>3, <2>1
<1>5. run' = [run EXCEPT ![h] =
                IF k < n THEN [r EXCEPT !.written = k]
                ELSE [r EXCEPT !.written = 0, !.done = Append(r.done, Returned(h))]]
  BY DEF Store, Returned
<1>6. /\ [r EXCEPT !.written = k] = Advanced(r, r.done, k)
      /\ [r EXCEPT !.written = 0, !.done = Append(r.done, Returned(h))] =
           Advanced(r, Append(r.done, Returned(h)), 0)
  <2>1. IsRun(r)
    BY <1>1, RunIs
  <2> HIDE DEF r, k
  <2>2. [r EXCEPT !.written = k] = Advanced(r, r.done, k)
    BY <2>1, AdvancedIs
  <2>3. [r EXCEPT !.written = 0, !.done = Append(r.done, Returned(h))] =
          Advanced(r, Append(r.done, Returned(h)), 0)
    <3> DEFINE done == Append(r.done, Returned(h))
    <3> HIDE DEF done
    <3>1. [r EXCEPT !.written = 0, !.done = done] = [[r EXCEPT !.written = 0] EXCEPT !.done = done]
      BY <2>1 DEF IsRun
    <3>2. [r EXCEPT !.written = 0] = Advanced(r, r.done, 0)
      BY <2>1, AdvancedIs
    <3>3. [Advanced(r, r.done, 0) EXCEPT !.done = done] = Advanced(r, done, 0)
      BY DEF Advanced
    <3> QED
      BY <3>1, <3>2, <3>3 DEF done
  <2> QED
    BY <2>2, <2>3
<1>7. run' = [run EXCEPT ![h] = IF k < n THEN Advanced(r, r.done, k)
                                ELSE Advanced(r, Append(r.done, Returned(h)), 0)]
  BY <1>5, <1>6
<1>8. files' = Put(PathOf(h, k), r.id) /\ Elsewhere(h) /\ Len(r.done) < Len(r.tools)
  BY <1>1 DEF Store, Elsewhere, PathOf
<1> QED
  BY <1>2, <1>3, <1>4, <1>7, <1>8

\* The fields of a run whose work has changed.
LEMMA FieldsKept ==
  ASSUME NEW r, NEW done, NEW stored
  PROVE  LET q == Advanced(r, done, stored) IN
         /\ q.done = done /\ q.written = stored
         /\ q.id = r.id /\ q.candidate = r.candidate /\ q.tools = r.tools /\ q.dry = r.dry
         /\ q.generation = r.generation /\ q.latest = r.latest /\ q.report = r.report
BY DEF Advanced

\* A handler that goes on with its run leaves the runs well typed.
LEMMA GoOnTyped ==
  ASSUME TypeInvariant, NEW h \in Handlers, Elsewhere(h),
         NEW done, Sequence(done), NEW stored \in Nat,
         stored > 0 => /\ done = run[h].done
                       /\ Called(h, NextTool(h))
                       /\ Len(run[h].done) < Len(run[h].tools)
                       /\ stored < Len(Artifacts[NextTool(h)]),
         run' = [run EXCEPT ![h] = Advanced(run[h], done, stored)]
  PROVE  RunsTyped'
<1> DEFINE q == Advanced(run[h], done, stored)
<1>1. /\ run'[h] = q
      /\ \A x \in Handlers \ {h} : run'[x] = run[x]
      /\ run' = [x \in Handlers |-> run'[x]]
  BY DEF TypeInvariant, RunsTyped
<1>2. /\ q.done = done /\ q.written = stored
      /\ q.id = run[h].id /\ q.candidate = run[h].candidate /\ q.tools = run[h].tools
      /\ q.dry = run[h].dry /\ q.generation = run[h].generation
      /\ q.latest = run[h].latest /\ q.report = run[h].report
  BY FieldsKept
<1>3. IsRun(q)
  BY RunIs, AdvancedIs DEF Elsewhere
<1> HIDE DEF q
<1>4. Running' = Running /\ UNCHANGED <<installed, pc, runs, generated>>
  BY DEF Running, Elsewhere, row
<1>5. RunTyped(q, runs, generated)
  BY <1>2, <1>3, RunIs DEF RunTyped, Elsewhere
<1>6. Storing(h)'
  BY <1>1, <1>2, <1>4 DEF Storing, Called, NextTool
<1>7. \A x \in Running \ {h} : Storing(x)'
  BY <1>1, <1>4, RunIs DEF Storing, Called, NextTool, Running
<1>8. pc[h] = "running" /\ q # Idle
  BY <1>2, RunIs DEF Elsewhere, Running, Idle, RunTyped
<1>9. \A x \in Handlers : pc'[x] = "idle" <=> run'[x] = Idle
  BY <1>1, <1>4, <1>8 DEF TypeInvariant, RunsTyped
<1>10. \A x, y \in Running : run'[x].id = run'[y].id => x = y
  BY <1>1, <1>2, RunIs DEF TypeInvariant, RunsTyped, Running, Elsewhere
<1>11. \A x \in Running : RunTyped(run'[x], runs, generated)
  BY <1>1, <1>5, RunIs DEF Running
<1> QED
  BY <1>1, <1>4, <1>6, <1>7, <1>9, <1>10, <1>11 DEF RunsTyped, TypeInvariant

\* Some handlers end, with an answer or without.
End(S) ==
  /\ pc' = [x \in Handlers |-> IF x \in S THEN "idle" ELSE pc[x]]
  /\ run' = [x \in Handlers |-> IF x \in S THEN Idle ELSE run[x]]

\* Those that do not end are where they were.
LEMMA EndIs ==
  ASSUME TypeInvariant, NEW S, End(S)
  PROVE  /\ Running' = Running \ S
         /\ \A x \in Running \ S : run'[x] = run[x] /\ pc'[x] = pc[x]
BY DEF End, Running, TypeInvariant, RunsTyped

LEMMA EndTyped ==
  ASSUME TypeInvariant, NEW S, End(S), UNCHANGED <<installed, generated, runs>>
  PROVE  RunsTyped'
<1>1. /\ Running' = Running \ S
      /\ \A x \in Running \ S : run'[x] = run[x]
  BY EndIs
<1>2. \A x \in Running \ S : Storing(x)' /\ RunTyped(run'[x], runs, generated)
  BY <1>1, RunIs DEF Storing, Called, NextTool
<1>3. pc' \in [Handlers -> {"idle", "running"}] /\ run' = [x \in Handlers |-> run'[x]]
  BY DEF End, TypeInvariant, RunsTyped
<1>4. \A x \in Handlers : pc'[x] = "idle" <=> run'[x] = Idle
  BY DEF End, TypeInvariant, RunsTyped
<1>5. \A x, y \in Running \ S : run'[x].id = run'[y].id => x = y
  BY <1>1 DEF TypeInvariant, RunsTyped
<1> QED
  BY <1>1, <1>2, <1>3, <1>4, <1>5 DEF RunsTyped

\* The steps that end handlers and leave the row alone.
LEMMA QuietEnds ==
  ASSUME TypeInvariant, Crash \/ \E h \in Handlers : Raise(h) \/ AnswerDry(h)
  PROVE  /\ \E S : End(S)
         /\ crashes' \in 0..MaxCrashes
         /\ UNCHANGED <<installed, row, generated, files, runs, before>>
<1>1. CASE Crash
  <2>1. End(Handlers)
    BY <1>1 DEF Crash, End
  <2> QED
    BY <1>1, <2>1, ToolchainAssumption DEF Crash, TypeInvariant, HistoryTyped
<1>2. ASSUME NEW h \in Handlers, Raise(h) \/ AnswerDry(h)
      PROVE  /\ End({h}) /\ crashes' \in 0..MaxCrashes
             /\ UNCHANGED <<installed, row, generated, files, runs, before>>
  <2>1. pc' = [pc EXCEPT ![h] = "idle"] /\ run' = [run EXCEPT ![h] = Idle]
    BY <1>2 DEF Raise, AnswerDry
  <2>2. End({h})
    BY <2>1 DEF End, TypeInvariant, RunsTyped
  <2>3. crashes \in 0..MaxCrashes /\ MaxCrashes \in Nat
    BY ToolchainAssumption DEF TypeInvariant, HistoryTyped
  <2>4. crashes' = crashes \/ (crashes < MaxCrashes /\ crashes' = crashes + 1)
    BY <1>2 DEF Raise, AnswerDry
  <2>5. UNCHANGED <<installed, row, generated, files, runs, before>>
    BY <1>2 DEF Raise, AnswerDry
  <2> QED
    BY <2>2, <2>3, <2>4, <2>5
<1> QED
  BY <1>1, <1>2

\* Start takes the next id and what the row holds.
Started(r) ==
  /\ IsRun(r)
  /\ r.id = runs + 1 /\ r.candidate \in Candidates /\ r.dry \in BOOLEAN
  /\ r.generation = generation /\ r.latest = latest /\ r.report = report
  /\ r.done = <<>> /\ r.written = 0

LEMMA StartIs ==
  ASSUME TypeInvariant, NEW h \in Handlers, Start(h)
  PROVE  /\ h \notin Running /\ runs < MaxRuns /\ runs' = runs + 1
         /\ \E r : Started(r) /\ run' = [run EXCEPT ![h] = r]
         /\ pc' = [pc EXCEPT ![h] = "running"]
         /\ before' = Append(before, (1..runs) \ {run[x].id : x \in Handlers})
         /\ UNCHANGED <<installed, row, generated, files, crashes>>
<1>1. PICK c \in Candidates, tools \in Requests, dry \in BOOLEAN :
        run' = [run EXCEPT ![h] =
                  [id |-> runs + 1, candidate |-> c, tools |-> Unique(tools), dry |-> dry,
                   generation |-> generation, latest |-> latest, report |-> report,
                   done |-> <<>>, written |-> 0]]
  BY DEF Start
<1>2. Started([id |-> runs + 1, candidate |-> c, tools |-> Unique(tools), dry |-> dry,
               generation |-> generation, latest |-> latest, report |-> report,
               done |-> <<>>, written |-> 0])
  BY DEF Started, IsRun
<1> QED
  BY <1>1, <1>2 DEF Start, Running

\* The entry that Start adds to before; the others stay.
LEMMA BeforeIs ==
  ASSUME TypeInvariant, runs' = runs + 1,
         before' = Append(before, (1..runs) \ {run[x].id : x \in Handlers})
  PROVE  /\ Sequence(before') /\ Len(before') = runs'
         /\ \A i \in 1..runs : before'[i] = before[i]
         /\ before'[runs + 1] = (1..runs) \ {run[x].id : x \in Handlers}
BY Appended DEF TypeInvariant, HistoryTyped

LEMMA StartTyped ==
  ASSUME TypeInvariant, NEW h \in Handlers, Start(h)
  PROVE  TypeInvariant'
<1>1. PICK r : Started(r) /\ run' = [run EXCEPT ![h] = r]
  BY StartIs
<1>2. /\ run'[h] = r
      /\ \A x \in Handlers \ {h} : run'[x] = run[x]
      /\ run' = [x \in Handlers |-> run'[x]]
      /\ pc' \in [Handlers -> {"idle", "running"}] /\ pc'[h] = "running"
      /\ \A x \in Handlers \ {h} : pc'[x] = pc[x]
      /\ h \notin Running
  BY <1>1, StartIs DEF TypeInvariant, RunsTyped
<1>3. /\ UNCHANGED <<installed, row, generated, files, crashes>>
      /\ runs \in Nat /\ runs < MaxRuns /\ MaxRuns \in Nat /\ runs' = runs + 1
  BY StartIs, ToolchainAssumption DEF TypeInvariant, HistoryTyped
<1>4. HistoryTyped'
  <2>1. /\ Sequence(before') /\ Len(before') = runs'
        /\ \A i \in 1..runs : before'[i] = before[i]
        /\ before'[runs + 1] \subseteq 1..runs
    BY <1>3, StartIs, BeforeIs
  <2>2. ASSUME NEW i \in 1..runs' PROVE before'[i] \subseteq 1..(i - 1)
    <3>1. CASE i \in 1..runs
      BY <2>1, <3>1 DEF TypeInvariant, HistoryTyped
    <3>2. CASE i = runs + 1
      BY <1>3, <2>1, <3>2
    <3> QED
      BY <1>3, <3>1, <3>2
  <2> QED
    BY <1>3, <2>1, <2>2 DEF TypeInvariant, HistoryTyped
<1>5. RowTyped' /\ FilesTyped'
  BY <1>3 DEF TypeInvariant, RowTyped, FilesTyped, row
<1>6. RunTyped(r, runs + 1, generated)
  <2>1. /\ Sequence(report) /\ Len(report) <= runs /\ Ids(report) \subseteq 1..runs
        /\ latest \in Latests /\ generation \in 1..generated
    BY DEF TypeInvariant, RowTyped
  <2>2. Len(report) \in Nat /\ Len(report) < runs + 1 /\ Ids(report) \subseteq 1..(runs + 1)
    BY <1>3, <2>1, Appended
  <2> QED
    BY <1>1, <1>3, <2>1, <2>2, NothingYet DEF Started, RunTyped
<1>7. \A x \in Running : RunTyped(run[x], runs + 1, generated)
  <2>1. 1..runs \subseteq 1..(runs + 1)
    BY <1>3
  <2> QED
    BY <2>1, RunIs DEF RunTyped
<1>8. Running' = Running \union {h}
  BY <1>2 DEF Running
<1>9. \A x \in Running' : Storing(x)'
  <2>1. run'[h].written = 0
    BY <1>1, <1>2 DEF Started
  <2>2. \A x \in Running : Storing(x)'
    BY <1>2, <1>3, RunIs DEF Storing, Called, NextTool, Running
  <2> QED
    BY <1>8, <2>1, <2>2 DEF Storing
<1>10. \A x \in Handlers : pc'[x] = "idle" <=> run'[x] = Idle
  <2>1. r # Idle
    BY <1>1, <1>3 DEF Started, Idle
  <2> QED
    BY <1>2, <2>1 DEF TypeInvariant, RunsTyped
<1>11. \A x, y \in Running' : run'[x].id = run'[y].id => x = y
  <2>1. run'[h].id = runs + 1
    BY <1>1, <1>2 DEF Started
  <2>2. \A x \in Running : run'[x].id \in 1..runs
    BY <1>2, RunIs DEF RunTyped, Running
  <2> QED
    BY <1>2, <1>3, <1>8, <2>1, <2>2 DEF TypeInvariant, RunsTyped, Running
<1>12. \A x \in Running' : RunTyped(run'[x], runs', generated')
  BY <1>2, <1>3, <1>6, <1>7, <1>8 DEF Running
<1>13. RunsTyped'
  BY <1>2, <1>9, <1>10, <1>11, <1>12 DEF RunsTyped
<1> QED
  BY <1>3, <1>4, <1>5, <1>13 DEF TypeInvariant

\* Write ends the handler and puts what it read back, with its execution.
LEMMA WriteIs ==
  ASSUME TypeInvariant, NEW h \in Handlers, Write(h)
  PROVE  /\ h \in Running /\ End({h})
         /\ generation' = run[h].generation
         /\ latest' = [run[h].latest EXCEPT ![run[h].candidate] = run[h].id]
         /\ report' = Append(run[h].report, Execution(h))
         /\ written' = written \union {run[h].id}
         /\ UNCHANGED <<installed, generated, files, runs, crashes, before>>
<1>1. pc' = [pc EXCEPT ![h] = "idle"] /\ run' = [run EXCEPT ![h] = Idle]
  BY DEF Write
<1>2. End({h})
  BY <1>1 DEF End, TypeInvariant, RunsTyped
<1> QED
  BY <1>2 DEF Write, Recorded, Running

LEMMA WriteTyped ==
  ASSUME TypeInvariant, NEW h \in Handlers, Write(h)
  PROVE  TypeInvariant'
<1>1. RunTyped(run[h], runs, generated)
  BY WriteIs, RunIs
<1>2. RunsTyped' /\ HistoryTyped' /\ FilesTyped' /\ UNCHANGED <<installed, generated, runs>>
  BY WriteIs, EndTyped DEF TypeInvariant, HistoryTyped, FilesTyped
<1>3. /\ Sequence(report') /\ Len(report') = Len(run[h].report) + 1
      /\ Len(run[h].report) \in Nat
      /\ ToSet(report') = ToSet(run[h].report) \union {Execution(h)}
  <2> DEFINE old == run[h].report
             e == Execution(h)
  <2>1. Sequence(old)
    BY <1>1 DEF RunTyped
  <2>2. report' = Append(old, e)
    BY WriteIs
  <2> HIDE DEF old, e
  <2>3. /\ Sequence(report') /\ Len(report') = Len(old) + 1 /\ Len(old) \in Nat
        /\ ToSet(report') = ToSet(old) \union {e}
    BY <2>1, <2>2, Appended
  <2> QED
    BY <2>3 DEF old, e
<1>4. runs \in Nat /\ runs <= MaxRuns /\ MaxRuns \in Nat
  BY ToolchainAssumption DEF TypeInvariant, HistoryTyped
<1>5. Execution(h).id = run[h].id
  BY DEF Execution
<1>6. Ids(report') \subseteq 1..runs
  BY <1>1, <1>3, <1>5 DEF Ids, RunTyped
<1>7. Len(report') <= runs
  BY <1>1, <1>3, <1>4 DEF RunTyped
<1>8. latest' \in Latests
  <2>1. run[h].latest \in Latests /\ run[h].id \in 1..MaxRuns
    BY <1>1, <1>4 DEF RunTyped
  <2>2. latest' = [run[h].latest EXCEPT ![run[h].candidate] = run[h].id]
    BY WriteIs
  <2> QED
    BY <2>1, <2>2 DEF Latests
<1>9. RowTyped'
  BY <1>1, <1>2, <1>3, <1>6, <1>7, <1>8, WriteIs DEF RowTyped, TypeInvariant, RunTyped
<1> QED
  BY <1>2, <1>9 DEF TypeInvariant

\* Finish stores a fresh row.
LEMMA FinishTyped ==
  ASSUME TypeInvariant, Finish
  PROVE  TypeInvariant'
<1>1. /\ UNCHANGED <<installed, files, pc, run, runs, crashes, before>>
      /\ generated' = generated + 1 /\ generated \in 1..MaxGenerations
      /\ generated < MaxGenerations /\ MaxGenerations \in Nat
  BY ToolchainAssumption DEF Finish, TypeInvariant, RowTyped
<1>2. HistoryTyped' /\ FilesTyped'
  BY <1>1 DEF TypeInvariant, HistoryTyped, FilesTyped
<1>3. RowTyped'
  <2>1. latest' \in Latests
    BY DEF Finish, Latests
  <2>2. generation' \in 1..generated' /\ generated' \in 1..MaxGenerations
    BY <1>1 DEF Finish
  <2>3. Sequence(report') /\ Len(report') <= runs /\ Ids(report') \subseteq 1..runs
    BY NothingYet DEF Finish, TypeInvariant, HistoryTyped, Ids
  <2>4. written' \subseteq 1..runs
    BY DEF Finish
  <2> QED
    BY <1>1, <2>1, <2>2, <2>3, <2>4 DEF RowTyped
<1>4. RunsTyped'
  <2>1. Running' = Running
    BY <1>1 DEF Running
  <2>2. \A x \in Running : RunTyped(run[x], runs, generated')
    <3>1. 1..generated \subseteq 1..generated'
      BY <1>1
    <3> QED
      BY <3>1, RunIs DEF RunTyped
  <2>3. \A x \in Running : Storing(x)'
    BY <1>1, RunIs DEF Storing, Called, NextTool
  <2> QED
    BY <1>1, <2>1, <2>2, <2>3 DEF TypeInvariant, RunsTyped
<1> QED
  BY <1>1, <1>2, <1>3, <1>4 DEF TypeInvariant

LEMMA SkipTyped ==
  ASSUME TypeInvariant, NEW h \in Handlers, Skip(h)
  PROVE  TypeInvariant'
<1>1. RunsTyped'
  <2> DEFINE done == Append(run[h].done, Skipped(h))
  <2>1. Elsewhere(h) /\ run' = [run EXCEPT ![h] = Advanced(run[h], done, 0)]
    BY SkipIs
  <2>2. Sequence(done)
    BY <2>1, RunIs, Appended DEF Elsewhere
  <2>3. 0 \in Nat /\ ~ (0 > 0)
    OBVIOUS
  <2> HIDE DEF done
  <2> QED
    BY <2>1, <2>2, <2>3, GoOnTyped
<1> QED
  BY <1>1, SkipIs DEF TypeInvariant, RowTyped, HistoryTyped, FilesTyped, Elsewhere, row

LEMMA StoreTyped ==
  ASSUME TypeInvariant, NEW h \in Handlers, Store(h)
  PROVE  TypeInvariant'
<1> DEFINE k == run[h].written + 1
           n == Len(Artifacts[NextTool(h)])
<1>1. /\ Elsewhere(h) /\ Called(h, NextTool(h)) /\ Len(run[h].done) < Len(run[h].tools)
      /\ k \in 1..n /\ n \in Nat
      /\ files' = Put(PathOf(h, k), run[h].id)
      /\ run' = [run EXCEPT ![h] = IF k < n THEN Advanced(run[h], run[h].done, k)
                                   ELSE Advanced(run[h], Append(run[h].done, Returned(h)), 0)]
  BY StoreIs
<1>2. RunTyped(run[h], runs, generated)
  BY <1>1, RunIs DEF Elsewhere
<1>3. RunsTyped'
  <2>1. CASE k < n
    <3> DEFINE done == run[h].done
    <3>1. Sequence(done) /\ k \in Nat
      BY <1>1, <1>2 DEF RunTyped
    <3>2. run' = [run EXCEPT ![h] = Advanced(run[h], done, k)]
      BY <1>1, <2>1
    <3>3. /\ Elsewhere(h) /\ done = run[h].done /\ Called(h, NextTool(h))
          /\ Len(run[h].done) < Len(run[h].tools) /\ k < Len(Artifacts[NextTool(h)])
      BY <1>1, <2>1
    <3> HIDE DEF done, k, n
    <3> QED
      BY <3>1, <3>2, <3>3, GoOnTyped
  <2>2. CASE ~ (k < n)
    <3> DEFINE done == Append(run[h].done, Returned(h))
    <3>1. Sequence(done)
      BY <1>2, Appended DEF RunTyped
    <3>2. run' = [run EXCEPT ![h] = Advanced(run[h], done, 0)]
      BY <1>1, <2>2
    <3>3. 0 \in Nat /\ ~ (0 > 0) /\ Elsewhere(h)
      BY <1>1
    <3> HIDE DEF done
    <3> QED
      BY <3>1, <3>2, <3>3, GoOnTyped
  <2> QED
    BY <2>1, <2>2
<1>4. PathOf(h, k) \in Paths
  <2>1. NextTool(h) \in SupportedTools
    BY <1>1 DEF Called
  <2>2. Artifacts[NextTool(h)][k] \in UNION {ToSet(Artifacts[x]) : x \in SupportedTools}
    BY <1>1, <2>1, ArtifactsAre
  <2>3. run[h].generation \in 1..MaxGenerations
    BY <1>2, ToolchainAssumption DEF RunTyped, TypeInvariant, RowTyped
  <2> QED
    BY <1>2, <2>1, <2>2, <2>3 DEF PathOf, Paths, RunTyped
<1>5. FilesTyped'
  <2>1. /\ DOMAIN files' = DOMAIN files \union {PathOf(h, k)}
        /\ \A p \in DOMAIN files' : files'[p] = IF p = PathOf(h, k) THEN run[h].id ELSE files[p]
    BY <1>1 DEF Put
  <2> QED
    BY <1>1, <1>2, <1>4, <2>1 DEF TypeInvariant, FilesTyped, RunTyped, Elsewhere
<1> QED
  BY <1>1, <1>3, <1>5 DEF TypeInvariant, RowTyped, HistoryTyped, Elsewhere, row

LEMMA StepTyped ==
  ASSUME TypeInvariant, [Next]_vars
  PROVE  TypeInvariant'
<1>1. ASSUME \E S : End(S), crashes' \in 0..MaxCrashes,
             UNCHANGED <<installed, row, generated, files, runs, before>>
      PROVE  TypeInvariant'
  BY <1>1, EndTyped DEF TypeInvariant, RowTyped, HistoryTyped, FilesTyped, row
<1>2. CASE UNCHANGED vars
  <2>1. Running' = Running /\ UNCHANGED vars
    BY <1>2 DEF vars, Running
  <2>2. RunsTyped' /\ RowTyped' /\ HistoryTyped' /\ FilesTyped'
    BY <2>1 DEF TypeInvariant, RunsTyped, RowTyped, HistoryTyped, FilesTyped, vars, row,
                Storing, Called, NextTool
  <2> QED
    BY <2>1, <2>2 DEF TypeInvariant, vars
<1>3. CASE Crash \/ \E h \in Handlers : Raise(h) \/ AnswerDry(h)
  BY <1>1, <1>3, QuietEnds
<1> QED
  BY <1>2, <1>3, StartTyped, SkipTyped, StoreTyped, WriteTyped, FinishTyped DEF Next

LEMMA InitTyped == Init => TypeInvariant
<1> SUFFICES ASSUME Init PROVE TypeInvariant
  OBVIOUS
<1>1. Running = {}
  BY DEF Init, Running
<1>2. RunsTyped
  BY <1>1 DEF Init, RunsTyped
<1>3. RowTyped
  BY NothingYet, ToolchainAssumption DEF Init, RowTyped, Latests, Ids
<1>4. HistoryTyped /\ FilesTyped
  BY NothingYet, ToolchainAssumption DEF Init, HistoryTyped, FilesTyped
<1> QED
  BY <1>2, <1>3, <1>4 DEF Init, TypeInvariant

LEMMA AlwaysTyped == Spec => []TypeInvariant
BY InitTyped, StepTyped, PTL DEF Spec

\* The variables keep their types and bounds, whatever overlaps and dies: a
\* handler is idle exactly when it has no run, and every file has a known path.
THEOREM TypeCorrect == Spec => []TypeOK
<1>1. TypeInvariant => TypeOK
  <2> SUFFICES ASSUME TypeInvariant PROVE TypeOK
    OBVIOUS
  <2>1. Len(report) <= MaxRuns
    BY Appended, ToolchainAssumption DEF TypeInvariant, RowTyped, HistoryTyped
  <2> QED
    BY <2>1 DEF TypeInvariant, RowTyped, HistoryTyped, FilesTyped, RunsTyped, TypeOK, Latests
<1> QED
  BY <1>1, AlwaysTyped, PTL

-----------------------------------------------------------------------------
(* RunsAreRecorded *)

\* What a run has read stays with it.
SameRun(h) ==
  /\ run'[h].id = run[h].id /\ run'[h].candidate = run[h].candidate
  /\ run'[h].dry = run[h].dry /\ run'[h].tools = run[h].tools
  /\ run'[h].generation = run[h].generation
  /\ run'[h].latest = run[h].latest /\ run'[h].report = run[h].report

\* A handler that changes the work of its run alone keeps all runs the same.
LEMMA AdvancedSame ==
  ASSUME TypeInvariant, NEW h \in Running, NEW done, NEW stored, UNCHANGED pc,
         run' = [run EXCEPT ![h] = Advanced(run[h], done, stored)]
  PROVE  Running' = Running /\ \A x \in Running : SameRun(x)
<1>1. Running' = Running
  BY DEF Running
<1>2. run'[h] = Advanced(run[h], done, stored) /\ \A x \in Handlers \ {h} : run'[x] = run[x]
  BY DEF TypeInvariant, RunsTyped, Running
<1>3. SameRun(h)
  BY <1>2, FieldsKept DEF SameRun
<1> QED
  BY <1>1, <1>2, <1>3 DEF SameRun, Running

\* Which runs there are after a step, and what became of the row.
LEMMA StepIs ==
  ASSUME TypeInvariant, [Next]_vars
  PROVE  /\ \A x \in Running' : (x \in Running /\ SameRun(x)) \/ Start(x)
         /\ \/ \E h \in Handlers : Start(h) \/ Write(h)
            \/ Finish
            \/ UNCHANGED row
         /\ (\E h \in Handlers : Start(h)) \/ UNCHANGED <<runs, before>>
<1> DEFINE Goal == /\ \A x \in Running' : (x \in Running /\ SameRun(x)) \/ Start(x)
                   /\ \/ \E h \in Handlers : Start(h) \/ Write(h)
                      \/ Finish
                      \/ UNCHANGED row
                   /\ (\E h \in Handlers : Start(h)) \/ UNCHANGED <<runs, before>>
<1>1. ASSUME NEW S, End(S) PROVE \A x \in Running' : x \in Running /\ SameRun(x)
  BY <1>1, EndIs DEF SameRun
<1>2. ASSUME NEW h \in Handlers, Start(h) PROVE Goal
  <2>1. \A x \in Running' : x = h \/ (x \in Running /\ SameRun(x))
    BY <1>2, StartIs DEF Running, SameRun, TypeInvariant, RunsTyped
  <2> QED
    BY <1>2, <2>1
<1>3. ASSUME NEW h \in Handlers, Skip(h) PROVE Goal
  <2>1. Elsewhere(h) /\ \E done : run' = [run EXCEPT ![h] = Advanced(run[h], done, 0)]
    BY <1>3, SkipIs
  <2> QED
    BY <2>1, AdvancedSame DEF Elsewhere
<1>4. ASSUME NEW h \in Handlers, Store(h) PROVE Goal
  <2>1. /\ Elsewhere(h)
        /\ \E done, k : run' = [run EXCEPT ![h] = Advanced(run[h], done, k)]
    BY <1>4, StoreIs
  <2> QED
    BY <2>1, AdvancedSame DEF Elsewhere
<1>5. CASE Crash \/ \E h \in Handlers : Raise(h) \/ AnswerDry(h)
  BY <1>1, <1>5, QuietEnds
<1>6. ASSUME NEW h \in Handlers, Write(h) PROVE Goal
  BY <1>1, <1>6, WriteIs
<1>7. CASE Finish
  BY <1>7 DEF Finish, Running, SameRun
<1>8. CASE UNCHANGED vars
  BY <1>8 DEF vars, row, Running, SameRun
<1> QED
  BY <1>2, <1>3, <1>4, <1>5, <1>6, <1>7, <1>8 DEF Next

\* latest tells, of each candidate, the id of its last entry.
Agree(last, entries) ==
  \A c \in Candidates :
    LET mine == {i \in DOMAIN entries : entries[i].candidate = c}
    IN /\ mine = {} => last[c] = None
       /\ \A i \in mine : (\A j \in mine : j <= i) => last[c] = entries[i].id

\* The row agrees with itself, and so does what each run has read of it.
AgreementInvariant ==
  /\ Agree(latest, report)
  /\ \A h \in Running : Agree(run[h].latest, run[h].report)

\* An execution added to both keeps them in agreement.
LEMMA AgreeAppend ==
  ASSUME NEW last \in Latests, NEW entries, Sequence(entries), Agree(last, entries),
         NEW c \in Candidates, NEW e, e.candidate = c
  PROVE  Agree([last EXCEPT ![c] = e.id], Append(entries, e))
<1> DEFINE new == Append(entries, e)
           n == Len(entries)
           Mine(s, x) == {i \in DOMAIN s : s[i].candidate = x}
<1>1. /\ n \in Nat /\ DOMAIN entries = 1..n /\ DOMAIN new = 1..(n + 1)
      /\ \A i \in 1..n : new[i] = entries[i]
      /\ new[n + 1] = e
  BY Appended
<1> HIDE DEF new, n
<1>2. [last EXCEPT ![c] = e.id][c] = e.id
  BY DEF Latests
<1>3. \A x \in Candidates \ {c} : [last EXCEPT ![c] = e.id][x] = last[x]
  BY DEF Latests
<1>4. n + 1 \in Mine(new, c) /\ \A i \in Mine(new, c) : i <= n + 1
  BY <1>1
<1>5. ASSUME NEW x \in Candidates \ {c} PROVE Mine(new, x) = Mine(entries, x)
  BY <1>1
<1>6. ASSUME NEW i \in Mine(new, c), \A j \in Mine(new, c) : j <= i
      PROVE  new[i] = e
  BY <1>1, <1>4, <1>6
<1>7. ASSUME NEW x \in Candidates
      PROVE  /\ Mine(new, x) = {} => [last EXCEPT ![c] = e.id][x] = None
             /\ \A i \in Mine(new, x) : (\A j \in Mine(new, x) : j <= i)
                                          => [last EXCEPT ![c] = e.id][x] = new[i].id
  <2>1. CASE x = c
    BY <1>2, <1>4, <1>6, <2>1
  <2>2. CASE x # c
    <3>1. \A i \in Mine(entries, x) : new[i] = entries[i]
      BY <1>1
    <3> QED
      BY <1>3, <1>5, <2>2, <3>1 DEF Agree
  <2> QED
    BY <2>1, <2>2
<1> QED
  BY <1>7 DEF Agree, new

LEMMA StepAgrees ==
  ASSUME TypeInvariant, AgreementInvariant, [Next]_vars
  PROVE  AgreementInvariant'
<1>1. Agree(latest', report')
  <2>1. ASSUME NEW h \in Handlers, Start(h) PROVE UNCHANGED row
    BY <2>1, StartIs
  <2>2. CASE UNCHANGED row
    BY <2>2 DEF AgreementInvariant, row
  <2>3. ASSUME NEW h \in Handlers, Write(h) PROVE Agree(latest', report')
    <3>1. /\ h \in Running
          /\ latest' = [run[h].latest EXCEPT ![run[h].candidate] = run[h].id]
          /\ report' = Append(run[h].report, Execution(h))
      BY <2>3, WriteIs
    <3>2. RunTyped(run[h], runs, generated) /\ Agree(run[h].latest, run[h].report)
      BY <3>1, RunIs DEF AgreementInvariant
    <3>3. Execution(h).id = run[h].id /\ Execution(h).candidate = run[h].candidate
      BY DEF Execution
    <3>4. Agree([run[h].latest EXCEPT ![run[h].candidate] = Execution(h).id],
                Append(run[h].report, Execution(h)))
      BY <3>2, <3>3, AgreeAppend DEF RunTyped
    <3> QED
      BY <3>1, <3>3, <3>4
  <2>4. CASE Finish
    BY <2>4, NothingYet DEF Finish, Agree
  <2> QED
    BY <2>1, <2>2, <2>3, <2>4, StepIs
<1>2. ASSUME NEW x \in Running' PROVE Agree(run'[x].latest, run'[x].report)
  <2>1. CASE x \in Running /\ SameRun(x)
    BY <2>1 DEF AgreementInvariant, SameRun
  <2>2. CASE Start(x)
    <3>1. x \in Handlers
      BY DEF Running
    <3>2. run'[x].latest = latest /\ run'[x].report = report
      BY <2>2, <3>1, StartIs DEF Started, TypeInvariant, RunsTyped
    <3> QED
      BY <3>2 DEF AgreementInvariant
  <2> QED
    BY <2>1, <2>2, StepIs
<1> QED
  BY <1>1, <1>2 DEF AgreementInvariant

\* No run under way had ended before another began.
AfootInvariant == \A h \in Running : \A i \in 1..runs : run[h].id \notin before[i]

LEMMA StepAfoot ==
  ASSUME TypeInvariant, AfootInvariant, [Next]_vars
  PROVE  AfootInvariant'
<1>1. CASE UNCHANGED <<runs, before>>
  <2>1. ASSUME NEW x \in Running', Start(x) PROVE FALSE
    <3>1. x \in Handlers /\ runs \in Nat
      BY DEF Running, TypeInvariant, HistoryTyped
    <3> QED
      BY <1>1, <2>1, <3>1, StartIs
  <2> QED
    BY <1>1, <2>1, StepIs DEF AfootInvariant, SameRun
<1>2. ASSUME NEW h \in Handlers, Start(h) PROVE AfootInvariant'
  <2>1. /\ runs \in Nat /\ runs' = runs + 1
        /\ \A i \in 1..runs : before'[i] = before[i] /\ before[i] \subseteq 1..(i - 1)
        /\ before'[runs + 1] = (1..runs) \ {run[x].id : x \in Handlers}
    BY <1>2, StartIs, BeforeIs DEF TypeInvariant, HistoryTyped
  <2>2. /\ \A x \in Running' : x = h \/ (x \in Running /\ run'[x].id = run[x].id)
        /\ run'[h].id = runs + 1
    BY <1>2, StartIs DEF Running, TypeInvariant, RunsTyped, Started
  <2>3. ASSUME NEW x \in Running', NEW i \in 1..(runs + 1) PROVE run'[x].id \notin before'[i]
    <3>1. CASE x = h
      <4>1. before'[i] \subseteq 1..runs
        BY <2>1
      <4> QED
        BY <2>1, <2>2, <3>1, <4>1
    <3>2. CASE x \in Running /\ run'[x].id = run[x].id
      BY <2>1, <3>2 DEF AfootInvariant, Running
    <3> QED
      BY <2>2, <3>1, <3>2
  <2> QED
    BY <2>1, <2>3 DEF AfootInvariant
<1> QED
  BY <1>1, <1>2, StepIs

\* Two runs were under way together.
Overlap(e, y) == e \notin before[y] /\ y \notin before[e]

\* The runs recorded since the last result that a report lacks have met another.
LossExplained(entries, recorded) ==
  \A e \in recorded \ Ids(entries) : \E y \in written \ {e} : Overlap(e, y)

\* So it is in the row, and so it would be if a run put back the report it has
\* read: for those that were recorded before it began.
OverlapInvariant ==
  /\ LossExplained(report, written)
  /\ \A h \in Running : LossExplained(run[h].report, written \intersect before[run[h].id])

\* Whoever met another run has met it for good.
LEMMA OverlapStays ==
  ASSUME TypeInvariant, [Next]_vars, NEW e \in 1..runs, NEW y \in 1..runs
  PROVE  (Overlap(e, y) <=> Overlap(e, y)') /\ before'[e] = before[e]
<1>1. \A i \in 1..runs : before'[i] = before[i]
  BY StepIs, StartIs, BeforeIs
<1> QED
  BY <1>1 DEF Overlap

LEMMA StepOverlap ==
  ASSUME TypeInvariant, TypeInvariant', AfootInvariant, OverlapInvariant, [Next]_vars
  PROVE  OverlapInvariant'
<1>1. /\ written \subseteq 1..runs
      /\ \A x \in Running : run[x].id \in 1..runs
      /\ \A e \in 1..runs : before'[e] = before[e]
      /\ \A e, y \in 1..runs : Overlap(e, y) => Overlap(e, y)'
  BY RunIs, OverlapStays DEF TypeInvariant, RowTyped, RunTyped
<1>2. ASSUME written \subseteq written', NEW entries, NEW recorded \in SUBSET written,
             LossExplained(entries, recorded)
      PROVE  \A e \in recorded \ Ids(entries) : \E y \in written' \ {e} : Overlap(e, y)'
  <2>1. ASSUME NEW e \in recorded \ Ids(entries) PROVE \E y \in written' \ {e} : Overlap(e, y)'
    <3>1. PICK y \in written \ {e} : Overlap(e, y)
      BY <1>2 DEF LossExplained
    <3>2. Overlap(e, y)'
      BY <1>1, <3>1
    <3> QED
      BY <1>2, <3>1, <3>2
  <2> QED
    BY <2>1
<1>3. CASE UNCHANGED row
  <2>1. written' = written /\ report' = report
    BY <1>3 DEF row
  <2>2. LossExplained(report, written)'
    BY <1>2, <2>1 DEF OverlapInvariant, LossExplained
  <2>3. ASSUME NEW x \in Running'
        PROVE  LossExplained(run[x].report, written \intersect before[run[x].id])'
    <3>1. CASE x \in Running /\ SameRun(x)
      <4>1. /\ run'[x].report = run[x].report
            /\ before'[run'[x].id] = before[run[x].id]
        BY <1>1, <3>1 DEF SameRun
      <4>2. LossExplained(run[x].report, written \intersect before[run[x].id])
        BY <3>1 DEF OverlapInvariant
      <4> QED
        BY <1>2, <2>1, <4>1, <4>2 DEF LossExplained
    <3>2. CASE Start(x)
      <4>1. run'[x].report = report /\ x \in Handlers
        BY <3>2, StartIs DEF Started, TypeInvariant, RunsTyped, Running
      <4> QED
        BY <2>1, <2>2, <4>1 DEF LossExplained
    <3> QED
      BY <3>1, <3>2, StepIs
  <2> QED
    BY <2>2, <2>3 DEF OverlapInvariant
<1>4. ASSUME NEW h \in Handlers, Write(h) PROVE OverlapInvariant'
  <2> DEFINE k == run[h].id
  <2>1. /\ h \in Running /\ k \in 1..runs
        /\ report' = Append(run[h].report, Execution(h))
        /\ written' = written \union {k}
        /\ UNCHANGED <<runs, before>>
    BY <1>1, <1>4, WriteIs
  <2>2. Ids(report') = Ids(run[h].report) \union {k}
    <3> DEFINE old == run[h].report
               e == Execution(h)
    <3>1. Sequence(old) /\ e.id = k /\ report' = Append(old, e)
      BY <2>1, RunIs DEF RunTyped, Execution
    <3> HIDE DEF old, e
    <3>2. ToSet(report') = ToSet(old) \union {e}
      BY <3>1, Appended
    <3> QED
      BY <3>1, <3>2 DEF Ids, old
  <2>3. \A i \in 1..runs : k \notin before[i]
    BY <2>1 DEF AfootInvariant
  <2>4. ASSUME NEW e \in written' \ Ids(report')
        PROVE  \E y \in written' \ {e} : Overlap(e, y)'
    <3>1. e \in written /\ e # k /\ e \in 1..runs /\ e \notin Ids(run[h].report)
      BY <1>1, <2>1, <2>2
    <3>2. CASE e \in before[k]
      <4>1. LossExplained(run[h].report, written \intersect before[k])
        BY <2>1 DEF OverlapInvariant
      <4> HIDE DEF k
      <4> QED
        BY <1>2, <2>1, <3>1, <3>2, <4>1
    <3>3. CASE e \notin before[k]
      <4>1. Overlap(e, k)
        BY <2>3, <3>1, <3>3 DEF Overlap
      <4> QED
        BY <1>1, <2>1, <3>1, <4>1
    <3> QED
      BY <3>2, <3>3
  <2>5. ASSUME NEW x \in Running'
        PROVE  LossExplained(run[x].report, written \intersect before[run[x].id])'
    <3>1. x \in Running /\ run'[x] = run[x]
      BY <1>4, WriteIs, EndIs
    <3>2. written' \intersect before'[run'[x].id] = written \intersect before[run[x].id]
      BY <1>1, <2>1, <2>3, <3>1
    <3>3. LossExplained(run[x].report, written \intersect before[run[x].id])
      BY <3>1 DEF OverlapInvariant
    <3> QED
      BY <1>2, <2>1, <3>1, <3>2, <3>3 DEF LossExplained
  <2> QED
    BY <2>4, <2>5 DEF OverlapInvariant, LossExplained
<1>5. CASE Finish
  BY <1>5 DEF Finish, OverlapInvariant, LossExplained
<1>6. ASSUME NEW h \in Handlers, Start(h) PROVE UNCHANGED row
  BY <1>6, StartIs
<1> QED
  BY <1>3, <1>4, <1>5, <1>6, StepIs

\* What the row says of the runs, whatever overlaps, dies and is stored anew
\* meanwhile: latest_execution is the last entry of the candidate, and a recorded
\* run that the report lacks was under way together with another recorded run.
THEOREM RowTellsRuns == Spec => []RunsAreRecorded
<1> DEFINE Inv == TypeInvariant /\ AgreementInvariant /\ AfootInvariant /\ OverlapInvariant
<1>1. Init => Inv
  <2> SUFFICES ASSUME Init PROVE AgreementInvariant /\ AfootInvariant /\ OverlapInvariant
    BY InitTyped
  <2>1. Running = {} /\ report = <<>> /\ written = {}
    BY DEF Init, Running
  <2>2. Agree(latest, report)
    BY <2>1, NothingYet DEF Init, Agree
  <2> QED
    BY <2>1, <2>2 DEF AgreementInvariant, AfootInvariant, OverlapInvariant, LossExplained
<1>2. Inv /\ [Next]_vars => Inv'
  BY StepTyped, StepAgrees, StepAfoot, StepOverlap
<1>3. Inv => RunsAreRecorded
  BY DEF AgreementInvariant, Agree, LatestIsLastEntry, OverlapInvariant, LossExplained, Overlap,
         LostOnlyByOverlap, RunsAreRecorded
<1> HIDE DEF Inv
<1> QED
  BY <1>1, <1>2, <1>3, PTL DEF Spec

-----------------------------------------------------------------------------
(* RecordedFilesCurrent *)

\* A file is there and was not left by a run that had ended before run id began.
Fresh(id, path) == path \in DOMAIN files /\ files[path] \notin before[id]

\* The files that an execution names, for a run of that id, result and candidate.
Current(id, g, c, x) == \A n \in x.artifacts : Fresh(id, <<g, c, x.tool, n>>)

EntryCurrent(e) == \A x \in ToSet(e.executions) : Current(e.id, e.generation, e.candidate, x)

\* Beside what the report names, what a run has read of it, the executions it
\* would record, and the files of the tool it is at.
FileInvariant ==
  /\ \A e \in ToSet(report) : EntryCurrent(e)
  /\ \A h \in Running :
       /\ \A e \in ToSet(run[h].report) : EntryCurrent(e)
       /\ \A x \in ToSet(run[h].done) :
            Current(run[h].id, run[h].generation, run[h].candidate, x)
       /\ \A k \in 1..run[h].written : Fresh(run[h].id, PathOf(h, k))

\* A file stays, with its content or with that of a run under way.
LEMMA FilesStay ==
  ASSUME TypeInvariant, [Next]_vars, NEW p \in DOMAIN files
  PROVE  /\ p \in DOMAIN files'
         /\ files'[p] = files[p] \/ \E h \in Running : files'[p] = run[h].id
<1>1. ASSUME NEW h \in Handlers, Store(h)
      PROVE  /\ p \in DOMAIN files'
             /\ files'[p] = files[p] \/ files'[p] = run[h].id
             /\ h \in Running
  BY <1>1, StoreIs DEF Put, Elsewhere
<1>2. CASE UNCHANGED files
  BY <1>2
<1>3. UNCHANGED files \/ \E h \in Handlers : Store(h)
  <2>1. ASSUME Crash \/ \E h \in Handlers : Raise(h) \/ AnswerDry(h) PROVE UNCHANGED files
    BY <2>1, QuietEnds
  <2> QED
    BY <2>1, StartIs, SkipIs, WriteIs DEF Next, Finish, vars
<1> QED
  BY <1>1, <1>2, <1>3

\* What is fresh for a run stays fresh for it.
LEMMA FreshStays ==
  ASSUME TypeInvariant, AfootInvariant, [Next]_vars, NEW id \in 1..runs, NEW path, Fresh(id, path)
  PROVE  Fresh(id, path)'
<1>1. before'[id] = before[id]
  BY OverlapStays
<1>2. \A h \in Running : run[h].id \notin before[id]
  BY DEF AfootInvariant
<1> QED
  BY <1>1, <1>2, FilesStay DEF Fresh

LEMMA CurrentStays ==
  ASSUME TypeInvariant, AfootInvariant, [Next]_vars
  PROVE  /\ \A id \in 1..runs : \A g, c, x : Current(id, g, c, x) => Current(id, g, c, x)'
         /\ \A e : e.id \in 1..runs /\ EntryCurrent(e) => EntryCurrent(e)'
<1>1. ASSUME NEW id \in 1..runs, NEW g, NEW c, NEW x, Current(id, g, c, x)
      PROVE  Current(id, g, c, x)'
  BY <1>1, FreshStays DEF Current
<1> QED
  BY <1>1 DEF EntryCurrent

\* The entries of the report, and those that a run has read, are of known runs.
LEMMA EntryIds ==
  ASSUME TypeInvariant
  PROVE  /\ \A e \in ToSet(report) : e.id \in 1..runs
         /\ \A h \in Running : run[h].id \in 1..runs /\ \A e \in ToSet(run[h].report) : e.id \in 1..runs
BY RunIs DEF TypeInvariant, RowTyped, RunTyped, Ids

\* What the invariant says of the work of one run.
WorkCurrent(h) ==
  /\ \A x \in ToSet(run[h].done) : Current(run[h].id, run[h].generation, run[h].candidate, x)
  /\ \A k \in 1..run[h].written : Fresh(run[h].id, PathOf(h, k))

\* A handler whose run stays as it is.
LEMMA RestCurrent ==
  ASSUME TypeInvariant, AfootInvariant, FileInvariant, [Next]_vars,
         NEW h \in Running, run'[h] = run[h]
  PROVE  WorkCurrent(h)'
<1>1. PICK r : r = run[h] /\ r = run'[h]
  OBVIOUS
<1>2. /\ \A x \in ToSet(r.done) : Current(r.id, r.generation, r.candidate, x)
      /\ r.id \in 1..runs
  BY <1>1, EntryIds DEF FileInvariant
<1>3. \A x \in ToSet(r.done) : Current(r.id, r.generation, r.candidate, x)'
  BY <1>2, CurrentStays
<1>4. ASSUME NEW k \in 1..r.written PROVE Fresh(r.id, PathOf(h, k))'
  <2>1. PICK path : path = PathOf(h, k) /\ path = PathOf(h, k)'
    BY <1>1 DEF PathOf, NextTool
  <2>2. Fresh(r.id, path)
    BY <1>1, <1>4, <2>1 DEF FileInvariant
  <2>3. Fresh(r.id, path)'
    BY <1>2, <2>2, FreshStays
  <2> QED
    BY <2>1, <2>3
<1> QED
  BY <1>1, <1>3, <1>4 DEF WorkCurrent

\* A tool that is not called names no file.
LEMMA SkipCurrent ==
  ASSUME TypeInvariant, AfootInvariant, FileInvariant, [Next]_vars, NEW h \in Handlers, Skip(h)
  PROVE  WorkCurrent(h)'
<1>1. PICK r, s : r = run[h] /\ s = Skipped(h)
  OBVIOUS
<1>2. /\ h \in Running /\ Sequence(r.done) /\ r.id \in 1..runs
      /\ run'[h] = Advanced(r, Append(r.done, s), 0)
  BY <1>1, SkipIs, RunIs DEF Elsewhere, RunTyped, TypeInvariant, RunsTyped
<1>3. /\ run'[h].done = Append(r.done, s) /\ run'[h].written = 0
      /\ run'[h].id = r.id /\ run'[h].generation = r.generation /\ run'[h].candidate = r.candidate
  BY <1>2 DEF Advanced
<1>4. \A x \in ToSet(r.done) : Current(r.id, r.generation, r.candidate, x)'
  BY <1>1, <1>2, CurrentStays DEF FileInvariant
<1>5. s.artifacts = {}
  BY <1>1 DEF Skipped, NotExecuted, NoExecution
<1>6. Current(r.id, r.generation, r.candidate, s)'
  BY <1>5 DEF Current
<1>7. ToSet(Append(r.done, s)) = ToSet(r.done) \union {s}
  BY <1>2, Appended
<1>8. \A x \in ToSet(run'[h].done) : Current(r.id, r.generation, r.candidate, x)'
  BY <1>3, <1>4, <1>6, <1>7
<1> QED
  BY <1>3, <1>8 DEF WorkCurrent

\* A runner adds its files one by one, and names them when the last is there.
LEMMA StoreCurrent ==
  ASSUME TypeInvariant, AfootInvariant, FileInvariant, [Next]_vars, NEW h \in Handlers, Store(h)
  PROVE  WorkCurrent(h)'
<1>1. PICK r, e, k, n, tool :
        /\ r = run[h] /\ e = Returned(h) /\ k = run[h].written + 1
        /\ n = Len(Artifacts[NextTool(h)]) /\ tool = NextTool(h)
  OBVIOUS
<1>2. /\ h \in Running /\ Sequence(r.done) /\ r.id \in 1..runs /\ r.written \in Nat
      /\ tool \in SupportedTools
      /\ n \in Nat /\ k \in 1..n
      /\ files' = Put(PathOf(h, k), r.id)
      /\ run' = [run EXCEPT ![h] = IF k < n THEN Advanced(r, r.done, k)
                                   ELSE Advanced(r, Append(r.done, e), 0)]
      /\ UNCHANGED before
  BY <1>1, StoreIs, RunIs DEF Elsewhere, RunTyped, Called
<1>3. \A x \in ToSet(r.done) : Current(r.id, r.generation, r.candidate, x)'
  BY <1>1, <1>2, CurrentStays DEF FileInvariant
<1> DEFINE Path(i) == <<r.generation, r.candidate, tool, Artifacts[tool][i]>>
<1>4. \A i : PathOf(h, i) = Path(i)
  BY <1>1 DEF PathOf
<1>5. ASSUME NEW i \in 1..k PROVE Fresh(r.id, Path(i))'
  <2>1. PICK path : path = Path(i)
    OBVIOUS
  <2>2. CASE i = k
    <3>1. path \in DOMAIN files' /\ files'[path] = r.id
      BY <1>2, <1>4, <2>1, <2>2 DEF Put
    <3>2. r.id \notin before[r.id]
      BY <1>1, <1>2 DEF AfootInvariant
    <3>3. Fresh(r.id, path)'
      BY <1>2, <3>1, <3>2 DEF Fresh
    <3> QED
      BY <2>1, <3>3
  <2>3. CASE i # k
    <3>1. i \in 1..r.written
      BY <1>1, <1>2, <2>3
    <3>2. Fresh(r.id, path)
      BY <1>1, <1>2, <1>4, <2>1, <3>1 DEF FileInvariant
    <3>3. Fresh(r.id, path)'
      BY <1>2, <3>2, FreshStays
    <3> QED
      BY <2>1, <3>3
  <2> QED
    BY <2>2, <2>3
<1>6. CASE k < n
  <2>1. run'[h] = Advanced(r, r.done, k)
    BY <1>2, <1>6 DEF TypeInvariant, RunsTyped
  <2>2. /\ run'[h].done = r.done /\ run'[h].written = k /\ run'[h].tools = r.tools
        /\ run'[h].id = r.id /\ run'[h].generation = r.generation
        /\ run'[h].candidate = r.candidate
    BY <2>1 DEF Advanced
  <2>3. \A i \in 1..k : PathOf(h, i)' = Path(i)
    BY <1>1, <2>2 DEF PathOf, NextTool
  <2>4. \A i \in 1..k : Fresh(r.id, PathOf(h, i))'
    BY <1>5, <2>3 DEF Fresh
  <2> QED
    BY <1>3, <2>2, <2>4 DEF WorkCurrent
<1>7. CASE ~ (k < n)
  <2>1. run'[h] = Advanced(r, Append(r.done, e), 0)
    BY <1>2, <1>7 DEF TypeInvariant, RunsTyped
  <2>2. /\ run'[h].done = Append(r.done, e) /\ run'[h].written = 0
        /\ run'[h].id = r.id /\ run'[h].generation = r.generation
        /\ run'[h].candidate = r.candidate
    BY <2>1 DEF Advanced
  <2>3. e.tool = tool /\ e.artifacts = {Artifacts[tool][i] : i \in 1..n}
    BY <1>1, <1>2, ArtifactsAre DEF Returned, ToSet
  <2>4. k = n
    BY <1>2, <1>7
  <2>5. Current(r.id, r.generation, r.candidate, e)'
    <3>1. ASSUME NEW name \in e.artifacts
          PROVE  Fresh(r.id, <<r.generation, r.candidate, e.tool, name>>)'
      <4>1. PICK i \in 1..k : name = Artifacts[tool][i]
        BY <2>3, <2>4
      <4> QED
        BY <1>5, <2>3, <4>1
    <3> QED
      BY <3>1 DEF Current
  <2>6. ToSet(Append(r.done, e)) = ToSet(r.done) \union {e}
    BY <1>2, Appended
  <2>7. \A x \in ToSet(run'[h].done) : Current(r.id, r.generation, r.candidate, x)'
    BY <1>3, <2>2, <2>5, <2>6
  <2> QED
    BY <2>2, <2>7 DEF WorkCurrent
<1> QED
  BY <1>6, <1>7

\* A run that begins has done nothing.
LEMMA StartCurrent ==
  ASSUME TypeInvariant, NEW h \in Handlers, Start(h)
  PROVE  WorkCurrent(h)'
<1>1. run'[h].done = <<>> /\ run'[h].written = 0
  BY StartIs DEF Started, TypeInvariant, RunsTyped
<1> QED
  BY <1>1, NothingYet DEF WorkCurrent

\* Where a run under way after a step comes from.
LEMMA WorkIs ==
  ASSUME TypeInvariant, [Next]_vars, NEW h \in Running'
  PROVE  /\ (h \in Running /\ run'[h] = run[h]) \/ Start(h) \/ Skip(h) \/ Store(h)
         /\ h \in Handlers /\ UNCHANGED installed
<1>1. h \in Handlers
  BY DEF Running
<1>2. CASE Start(h) \/ Skip(h) \/ Store(h)
  BY <1>1, <1>2, StartIs, SkipIs, StoreIs DEF Elsewhere
<1>3. ASSUME NEW x \in Handlers, x # h, Start(x) \/ Skip(x) \/ Store(x)
      PROVE  run'[h] = run[h] /\ h \in Running /\ UNCHANGED installed
  <2>1. CASE Start(x)
    BY <1>1, <1>3, <2>1, StartIs DEF TypeInvariant, RunsTyped, Running
  <2>2. CASE Skip(x)
    BY <1>1, <1>3, <2>2, SkipIs DEF TypeInvariant, RunsTyped, Running, Elsewhere
  <2>3. CASE Store(x)
    BY <1>1, <1>3, <2>3, StoreIs DEF TypeInvariant, RunsTyped, Running, Elsewhere
  <2> QED
    BY <1>3, <2>1, <2>2, <2>3
<1>4. ASSUME NEW S, End(S) PROVE run'[h] = run[h] /\ h \in Running
  BY <1>4, EndIs
<1>5. CASE Crash \/ \E x \in Handlers : Raise(x) \/ AnswerDry(x)
  BY <1>1, <1>4, <1>5, QuietEnds
<1>6. ASSUME NEW x \in Handlers, Write(x)
      PROVE  run'[h] = run[h] /\ h \in Running /\ UNCHANGED installed
  BY <1>4, <1>6, WriteIs
<1>7. CASE Finish \/ UNCHANGED vars
  BY <1>7 DEF Finish, vars, Running
<1> QED
  BY <1>1, <1>2, <1>3, <1>5, <1>6, <1>7 DEF Next

LEMMA StepCurrent ==
  ASSUME TypeInvariant, AfootInvariant, FileInvariant, [Next]_vars
  PROVE  FileInvariant'
<1>1. ASSUME NEW h \in Running' PROVE WorkCurrent(h)'
  BY WorkIs, RestCurrent, StartCurrent, SkipCurrent, StoreCurrent
<1>2. \A e \in ToSet(report) : EntryCurrent(e)'
  BY EntryIds, CurrentStays DEF FileInvariant
<1>3. \A e \in ToSet(report') : EntryCurrent(e)'
  <2>1. CASE UNCHANGED row
    BY <1>2, <2>1 DEF row
  <2>2. ASSUME NEW h \in Handlers, Write(h) PROVE \A e \in ToSet(report') : EntryCurrent(e)'
    <3>1. PICK old, x : old = run[h].report /\ x = Execution(h)
      OBVIOUS
    <3>2. h \in Running /\ Sequence(old) /\ report' = Append(old, x) /\ x.id \in 1..runs
      BY <2>2, <3>1, WriteIs, RunIs DEF RunTyped, Execution
    <3>3. EntryCurrent(x)
      BY <3>1, <3>2 DEF FileInvariant, EntryCurrent, Execution
    <3>4. \A e \in ToSet(old) \union {x} : EntryCurrent(e)'
      BY <3>1, <3>2, <3>3, EntryIds, CurrentStays DEF FileInvariant
    <3> QED
      BY <3>2, <3>4, Appended
  <2>3. CASE Finish
    BY <2>3, NothingYet DEF Finish
  <2>4. ASSUME NEW h \in Handlers, Start(h) PROVE UNCHANGED row
    BY <2>4, StartIs
  <2> QED
    BY <2>1, <2>2, <2>3, <2>4, StepIs
<1>4. ASSUME NEW h \in Running' PROVE \A e \in ToSet(run'[h].report) : EntryCurrent(e)'
  <2>1. CASE h \in Running /\ SameRun(h)
    BY <2>1, EntryIds, CurrentStays DEF FileInvariant, SameRun
  <2>2. CASE Start(h)
    <3>1. run'[h].report = report
      BY <2>2, StartIs DEF Started, TypeInvariant, RunsTyped, Running
    <3> QED
      BY <1>2, <3>1
  <2> QED
    BY <2>1, <2>2, StepIs
<1> QED
  BY <1>1, <1>3, <1>4 DEF FileInvariant, WorkCurrent

LEMMA AlwaysCurrent == Spec => [](TypeInvariant /\ FileInvariant)
<1>1. Init => AfootInvariant /\ FileInvariant
  <2> SUFFICES ASSUME Init PROVE AfootInvariant /\ FileInvariant
    OBVIOUS
  <2>1. Running = {} /\ ToSet(report) = {}
    BY NothingYet DEF Init, Running
  <2> QED
    BY <2>1 DEF AfootInvariant, FileInvariant
<1> QED
  BY <1>1, InitTyped, StepTyped, StepAfoot, StepCurrent, PTL DEF Spec

\* Every artifact that toolchain_runs names is in the store, however handlers
\* overlap in it, and none was left there by a run that had ended before the run
\* that names it began.
THEOREM FilesAreCurrent == Spec => []RecordedFilesCurrent
<1>1. FileInvariant => RecordedFilesCurrent
  BY DEF FileInvariant, EntryCurrent, Current, Fresh, RecordedFilesCurrent
<1> QED
  BY <1>1, AlwaysCurrent, PTL

-----------------------------------------------------------------------------
(* GeometryIsFed and RunsAreHonest *)

\* Whether a tool has left artifacts among the first of some executions.
RanBefore(done, i, tool) ==
  \E j \in 1..(i - 1) : done[j].tool = tool /\ done[j].artifacts # {}

\* The i-th execution got its geometry from the tools before it.
FedAt(done, i) ==
  /\ done[i].tool = "FreeCAD" /\ done[i].artifacts # {}
       => done[i].output.geometry =
            IF RanBefore(done, i, "CadQuery") THEN <<"CadQuery", "step">> ELSE <<>>
  /\ done[i].tool = "CalculiX" /\ done[i].artifacts # {}
       => done[i].output.geometry =
            CASE RanBefore(done, i, "FreeCAD") -> <<"FreeCAD", "assembly_checks">>
              [] ~RanBefore(done, i, "FreeCAD") /\ RanBefore(done, i, "CadQuery")
                   -> <<"CadQuery", "step">>
              [] OTHER -> <<>>

\* An execution has artifacts, all of its tool, exactly when its runner was called.
ResultOf(called, x) ==
  IF called THEN x.artifacts = ToSet(Artifacts[x.tool]) /\ x.status = "succeeded"
            ELSE x.artifacts = {} /\ x.status \in {"planned_only", "unavailable"}

ResultInvariant ==
  \A h \in Running : \A i \in DOMAIN run[h].done :
    ResultOf(Called(h, run[h].done[i].tool), run[h].done[i])

FeedInvariant ==
  \A h \in Running : \A i \in DOMAIN run[h].done : FedAt(run[h].done, i)

\* A runner leaves artifacts.
LEMMA ArtifactsLeft == \A tool \in SupportedTools : ToSet(Artifacts[tool]) # {}
<1> SUFFICES ASSUME NEW tool \in SupportedTools PROVE ToSet(Artifacts[tool]) # {}
  OBVIOUS
<1>1. 1 \in DOMAIN Artifacts[tool]
  BY ArtifactsAre
<1> QED
  BY <1>1 DEF ToSet

\* The work of a handler that goes on: the same, or one execution more, of the
\* tool it was at.
LEMMA GoOnIs ==
  ASSUME TypeInvariant, NEW h \in Handlers, Skip(h) \/ Store(h)
  PROVE  /\ h \in Running /\ SameRun(h) /\ UNCHANGED installed
         /\ \/ run'[h].done = run[h].done
            \/ /\ run'[h].done = Append(run[h].done, Skipped(h)) /\ ~ Called(h, NextTool(h))
            \/ /\ run'[h].done = Append(run[h].done, Returned(h)) /\ Called(h, NextTool(h))
<1>1. CASE Skip(h)
  <2>1. /\ Elsewhere(h) /\ ~ Called(h, NextTool(h))
        /\ run'[h] = Advanced(run[h], Append(run[h].done, Skipped(h)), 0)
    BY <1>1, SkipIs DEF TypeInvariant, RunsTyped
  <2>2. run'[h].done = Append(run[h].done, Skipped(h)) /\ SameRun(h)
    BY <2>1 DEF Advanced, SameRun
  <2> QED
    BY <2>1, <2>2 DEF Elsewhere
<1>2. CASE Store(h)
  <2>1. /\ Elsewhere(h) /\ Called(h, NextTool(h))
        /\ \/ run'[h] = Advanced(run[h], run[h].done, run[h].written + 1)
           \/ run'[h] = Advanced(run[h], Append(run[h].done, Returned(h)), 0)
    BY <1>2, StoreIs DEF TypeInvariant, RunsTyped
  <2>2. CASE run'[h] = Advanced(run[h], run[h].done, run[h].written + 1)
    <3>1. run'[h].done = run[h].done /\ SameRun(h)
      BY <2>2 DEF Advanced, SameRun
    <3> QED
      BY <2>1, <3>1 DEF Elsewhere
  <2>3. CASE run'[h] = Advanced(run[h], Append(run[h].done, Returned(h)), 0)
    <3>1. run'[h].done = Append(run[h].done, Returned(h)) /\ SameRun(h)
      BY <2>3 DEF Advanced, SameRun
    <3> QED
      BY <2>1, <3>1 DEF Elsewhere
  <2> QED
    BY <2>1, <2>2, <2>3
<1> QED
  BY <1>1, <1>2

LEMMA StepResults ==
  ASSUME TypeInvariant, ResultInvariant, [Next]_vars
  PROVE  ResultInvariant'
<1> SUFFICES ASSUME NEW h \in Running', NEW i \in DOMAIN run'[h].done
             PROVE  ResultOf(Called(h, run[h].done[i].tool), run[h].done[i])'
  BY DEF ResultInvariant
<1>1. CASE Start(h)
  <2>1. run'[h].done = <<>>
    BY <1>1, WorkIs, StartIs DEF Started, TypeInvariant, RunsTyped
  <2> QED
    BY <2>1, NothingYet
<1>2. ASSUME h \in Running, SameRun(h) \/ run'[h] = run[h]
      PROVE  \A tool : Called(h, tool)' <=> Called(h, tool)
  BY <1>2, WorkIs DEF Called, SameRun
<1>3. CASE h \in Running /\ (SameRun(h) \/ run'[h] = run[h]) /\ run'[h].done = run[h].done
  BY <1>2, <1>3 DEF ResultInvariant, ResultOf
<1>4. ASSUME h \in Running, SameRun(h), NEW e, run'[h].done = Append(run[h].done, e),
             ResultOf(Called(h, e.tool), e)
      PROVE  ResultOf(Called(h, run[h].done[i].tool), run[h].done[i])'
  <2>1. /\ Sequence(run[h].done)
        /\ i \in 1..(Len(run[h].done) + 1)
        /\ \A k \in 1..Len(run[h].done) :
             k \in DOMAIN run[h].done /\ run'[h].done[k] = run[h].done[k]
        /\ run'[h].done[Len(run[h].done) + 1] = e
        /\ Len(run[h].done) \in Nat
    BY <1>4, RunIs, Appended
  <2>2. CASE i \in 1..Len(run[h].done)
    BY <1>2, <1>4, <2>1, <2>2 DEF ResultInvariant, ResultOf
  <2>3. CASE i = Len(run[h].done) + 1
    BY <1>2, <1>4, <2>1, <2>3 DEF ResultOf
  <2> QED
    BY <2>1, <2>2, <2>3
<1>5. CASE Skip(h) \/ Store(h)
  <2>1. h \in Handlers
    BY WorkIs
  <2>2. h \in Running /\ SameRun(h)
    BY <1>5, <2>1, GoOnIs
  <2>3. ASSUME ~ Called(h, NextTool(h)) PROVE ResultOf(Called(h, Skipped(h).tool), Skipped(h))
    <3>1. Refusal(h) \in {"planned_only", "unavailable"}
      BY <2>1, <2>2, <2>3, RunIs, RefusalIs
    <3>2. /\ Skipped(h).tool = NextTool(h) /\ Skipped(h).artifacts = {}
          /\ Skipped(h).status = Refusal(h)
      BY DEF Skipped, NotExecuted, NoExecution
    <3> QED
      BY <2>3, <3>1, <3>2 DEF ResultOf
  <2>4. ASSUME Called(h, NextTool(h)) PROVE ResultOf(Called(h, Returned(h).tool), Returned(h))
    BY <2>4 DEF ResultOf, Returned
  <2> QED
    BY <1>3, <1>4, <1>5, <2>1, <2>2, <2>3, <2>4, GoOnIs
<1> QED
  BY <1>1, <1>3, <1>5, WorkIs

\* upstream_artifact_uris knows the tools that left artifacts, and all of these.
LEMMA UpstreamIs ==
  ASSUME TypeInvariant, ResultInvariant, NEW h \in Running, NEW tool
  PROVE  LET done == run[h].done
             ran == RanBefore(done, Len(done) + 1, tool)
         IN /\ tool \in DOMAIN Upstream(done) <=> ran
            /\ ran => Upstream(done)[tool] = ToSet(Artifacts[tool])
<1> DEFINE done == run[h].done
           ran == RanBefore(done, Len(done) + 1, tool)
<1>1. DOMAIN done = 1..Len(done) /\ Len(done) \in Nat
  BY RunIs, Appended
<1>2. ran <=> \E e \in ToSet(done) : e.tool = tool /\ e.artifacts # {}
  <2>1. (Len(done) + 1) - 1 = Len(done)
    BY <1>1
  <2> QED
    BY <1>1, <2>1 DEF RanBefore, ToSet
<1>3. \A e \in ToSet(done) : ResultOf(Called(h, e.tool), e)
  BY DEF ToSet, ResultInvariant
<1> HIDE DEF ran
<1>4. tool \in DOMAIN Upstream(done) <=> ran
  <2>1. DOMAIN Upstream(done) = {e.tool : e \in {x \in ToSet(done) : x.artifacts # {}}}
    BY DEF Upstream
  <2> QED
    BY <1>2, <2>1
<1>5. ASSUME ran PROVE Upstream(done)[tool] = ToSet(Artifacts[tool])
  <2>1. PICK e \in ToSet(done) : e.tool = tool /\ e.artifacts # {}
    BY <1>2, <1>5
  <2>2. Called(h, tool)
    BY <1>3, <2>1 DEF ResultOf
  <2> DEFINE first == CHOOSE x \in ToSet(done) : x.tool = tool
  <2>3. first \in ToSet(done) /\ first.tool = tool
    BY <2>1
  <2>4. first.artifacts = ToSet(Artifacts[tool])
    BY <1>3, <2>2, <2>3 DEF ResultOf
  <2>5. Upstream(done)[tool] = first.artifacts
    BY <1>4, <1>5 DEF Upstream
  <2> QED
    BY <2>4, <2>5
<1> QED
  BY <1>4, <1>5 DEF ran

\* The artifacts that FreeCAD and CalculiX look for are among those of their tools.
LEMMA LookedFor ==
  /\ "step" \in ToSet(Artifacts["CadQuery"])
  /\ "assembly_checks" \in ToSet(Artifacts["FreeCAD"])
<1>1. /\ Artifacts["CadQuery"] = <<"step", "stl", "source", "manifest">>
      /\ Artifacts["FreeCAD"] = <<"assembly_checks", "drawing_handoff", "macro">>
  <2>1. Artifacts["CadQuery"] = <<"step", "stl", "source", "manifest">>
    BY DEF Artifacts, SupportedTools
  <2>2. Artifacts["FreeCAD"] = <<"assembly_checks", "drawing_handoff", "macro">>
    BY DEF Artifacts, SupportedTools, Optional
  <2> QED
    BY <2>1, <2>2
<1>2. 1 \in DOMAIN Artifacts["CadQuery"] /\ Artifacts["CadQuery"][1] = "step"
  BY <1>1
<1>3. 1 \in DOMAIN Artifacts["FreeCAD"] /\ Artifacts["FreeCAD"][1] = "assembly_checks"
  BY <1>1
<1> QED
  BY <1>2, <1>3 DEF ToSet

\* What _geometry_for of CalculiX finds: the first source there is.
LEMMA SolverGeometryIs ==
  ASSUME NEW upstream,
         "FreeCAD" \in DOMAIN upstream => upstream["FreeCAD"] = ToSet(Artifacts["FreeCAD"]),
         "CadQuery" \in DOMAIN upstream => upstream["CadQuery"] = ToSet(Artifacts["CadQuery"])
  PROVE  SolverGeometry(upstream) =
           CASE "FreeCAD" \in DOMAIN upstream -> <<"FreeCAD", "assembly_checks">>
             [] "FreeCAD" \notin DOMAIN upstream /\ "CadQuery" \in DOMAIN upstream
                  -> <<"CadQuery", "step">>
             [] OTHER -> <<>>
<1> DEFINE a == From(upstream, "FreeCAD", "assembly_checks")
           b == From(upstream, "FreeCAD", "drawing_handoff")
           c == From(upstream, "CadQuery", "step")
           sources == <<a, b, c>>
           known == {i \in DOMAIN sources : sources[i] # <<>>}
           free == "FreeCAD" \in DOMAIN upstream
           cad == "CadQuery" \in DOMAIN upstream
<1>1. <<"FreeCAD", "assembly_checks">> # <<>> /\ <<"CadQuery", "step">> # <<>>
  OBVIOUS
<1>2. /\ a = IF free THEN <<"FreeCAD", "assembly_checks">> ELSE <<>>
      /\ ~ free => b = <<>>
      /\ c = IF cad THEN <<"CadQuery", "step">> ELSE <<>>
  BY LookedFor DEF From
<1>3. SolverGeometry(upstream) = IF known = {} THEN <<>> ELSE sources[Min(known)]
  BY DEF SolverGeometry
<1> HIDE DEF a, b, c, free, cad
<1>4. \A i : i \in known <=> (i = 1 /\ a # <<>>) \/ (i = 2 /\ b # <<>>) \/ (i = 3 /\ c # <<>>)
  OBVIOUS
<1>5. CASE free
  <2>1. 1 \in known /\ \A i \in known : 1 <= i
    BY <1>1, <1>2, <1>4, <1>5
  <2>2. Min(known) = 1
    <3> HIDE DEF known
    <3>1. \A m \in known : (\A i \in known : m <= i) => m = 1
      <4>1. known \subseteq 1..3
        BY <1>4 DEF known
      <4> QED
        BY <2>1, <4>1
    <3> QED
      BY <2>1, <3>1 DEF Min
  <2> QED
    BY <1>2, <1>3, <1>5, <2>1, <2>2 DEF free
<1>6. CASE ~ free /\ cad
  <2>1. known = {3}
    BY <1>1, <1>2, <1>4, <1>6
  <2>2. Min(known) = 3
    BY <2>1 DEF Min
  <2> QED
    BY <1>2, <1>3, <1>6, <2>1, <2>2 DEF free, cad
<1>7. CASE ~ free /\ ~ cad
  <2>1. known = {}
    BY <1>2, <1>4, <1>7
  <2> QED
    BY <1>3, <1>7, <2>1 DEF free, cad
<1> QED
  BY <1>5, <1>6, <1>7

\* The geometry of the tool that returns comes from the tools that ran before it.
LEMMA ReturnedFed ==
  ASSUME TypeInvariant, ResultInvariant, NEW h \in Running
  PROVE  LET done == run[h].done
             e == Returned(h)
             Ran(tool) == RanBefore(done, Len(done) + 1, tool)
         IN /\ e.tool = "FreeCAD" => e.output.geometry =
                 IF Ran("CadQuery") THEN <<"CadQuery", "step">> ELSE <<>>
            /\ e.tool = "CalculiX" => e.output.geometry =
                 CASE Ran("FreeCAD") -> <<"FreeCAD", "assembly_checks">>
                   [] ~Ran("FreeCAD") /\ Ran("CadQuery") -> <<"CadQuery", "step">>
                   [] OTHER -> <<>>
<1> DEFINE done == run[h].done
           e == Returned(h)
           Ran(tool) == RanBefore(done, Len(done) + 1, tool)
<1>1. PICK u : u = Upstream(done)
  OBVIOUS
<1>2. \A tool : /\ tool \in DOMAIN u <=> Ran(tool)
                /\ tool \in DOMAIN u => u[tool] = ToSet(Artifacts[tool])
  BY <1>1, UpstreamIs
<1>3. e.tool = NextTool(h) /\ e.output = Output(e.tool, FactsOf[run[h].candidate], u)
  BY <1>1 DEF Returned
<1> HIDE DEF Ran, e
<1>4. CASE e.tool = "FreeCAD"
  <2>1. e.output.geometry = AssemblyGeometry(u)
    BY <1>3, <1>4 DEF Output
  <2>2. AssemblyGeometry(u) = IF "CadQuery" \in DOMAIN u THEN <<"CadQuery", "step">> ELSE <<>>
    BY <1>2, LookedFor DEF AssemblyGeometry, From
  <2> QED
    BY <1>2, <1>4, <2>1, <2>2 DEF Ran, e
<1>5. CASE e.tool = "CalculiX"
  <2>1. e.output.geometry = SolverGeometry(u)
    BY <1>3, <1>5 DEF Output
  <2>2. SolverGeometry(u) =
          CASE "FreeCAD" \in DOMAIN u -> <<"FreeCAD", "assembly_checks">>
            [] "FreeCAD" \notin DOMAIN u /\ "CadQuery" \in DOMAIN u -> <<"CadQuery", "step">>
            [] OTHER -> <<>>
    BY <1>2, SolverGeometryIs
  <2>3. SolverGeometry(u) =
          CASE Ran("FreeCAD") -> <<"FreeCAD", "assembly_checks">>
            [] ~Ran("FreeCAD") /\ Ran("CadQuery") -> <<"CadQuery", "step">>
            [] OTHER -> <<>>
    BY <1>2, <2>2
  <2> QED
    BY <1>5, <2>1, <2>3 DEF Ran, e
<1> QED
  BY <1>4, <1>5 DEF e

\* One execution more leaves what was before the others as it was.
LEMMA FedAppend ==
  ASSUME NEW done, Sequence(done), NEW e
  PROVE  LET new == Append(done, e) IN
         /\ \A i \in DOMAIN new : i \in DOMAIN done \/ i = Len(done) + 1
         /\ \A i \in DOMAIN done : FedAt(done, i) <=> FedAt(new, i)
         /\ \A tool : RanBefore(new, Len(done) + 1, tool) <=> RanBefore(done, Len(done) + 1, tool)
         /\ new[Len(done) + 1] = e
<1>1. PICK new : new = Append(done, e)
  OBVIOUS
<1>2. /\ Len(done) \in Nat /\ DOMAIN done = 1..Len(done) /\ DOMAIN new = 1..(Len(done) + 1)
      /\ \A i \in 1..Len(done) : new[i] = done[i]
      /\ new[Len(done) + 1] = e
  BY <1>1, Appended
<1>3. \A i \in 1..(Len(done) + 1) : \A tool :
        RanBefore(new, i, tool) <=> RanBefore(done, i, tool)
  <2>1. \A i \in 1..(Len(done) + 1) : 1..(i - 1) \subseteq 1..Len(done)
    BY <1>2
  <2> QED
    BY <1>2, <2>1 DEF RanBefore
<1>4. \A i \in 1..Len(done) : FedAt(done, i) <=> FedAt(new, i)
  <2>1. 1..Len(done) \subseteq 1..(Len(done) + 1)
    BY <1>2
  <2> QED
    BY <1>2, <1>3, <2>1 DEF FedAt
<1>5. Len(done) + 1 \in 1..(Len(done) + 1)
  BY <1>2
<1>6. \A i \in 1..(Len(done) + 1) : i \in 1..Len(done) \/ i = Len(done) + 1
  BY <1>2
<1> QED
  BY <1>1, <1>2, <1>3, <1>4, <1>5, <1>6

LEMMA StepFed ==
  ASSUME TypeInvariant, ResultInvariant, FeedInvariant, [Next]_vars
  PROVE  FeedInvariant'
<1> SUFFICES ASSUME NEW h \in Running', NEW i \in DOMAIN run'[h].done
             PROVE  FedAt(run'[h].done, i)
  BY DEF FeedInvariant, FedAt, RanBefore
<1>1. CASE Start(h)
  <2>1. run'[h].done = <<>>
    BY <1>1, WorkIs, StartIs DEF Started, TypeInvariant, RunsTyped
  <2> QED
    BY <2>1, NothingYet
<1>2. CASE h \in Running /\ run'[h].done = run[h].done
  BY <1>2 DEF FeedInvariant
<1>3. ASSUME h \in Running, NEW e, run'[h].done = Append(run[h].done, e),
             e.artifacts = {} \/ e = Returned(h)
      PROVE  FedAt(run'[h].done, i)
  <2>1. PICK done, new : done = run[h].done /\ new = Append(done, e)
    OBVIOUS
  <2>2. /\ i \in DOMAIN done \/ i = Len(done) + 1
        /\ \A k \in DOMAIN done : FedAt(done, k) <=> FedAt(new, k)
        /\ \A tool : RanBefore(new, Len(done) + 1, tool) <=> RanBefore(done, Len(done) + 1, tool)
        /\ new[Len(done) + 1] = e
    BY <1>3, <2>1, RunIs, FedAppend
  <2>3. CASE i \in DOMAIN done
    BY <1>3, <2>1, <2>2, <2>3 DEF FeedInvariant
  <2>4. CASE i = Len(done) + 1 /\ e.artifacts = {}
    <3>1. FedAt(new, i)
      BY <2>2, <2>4 DEF FedAt
    <3> QED
      BY <1>3, <2>1, <3>1
  <2>5. CASE i = Len(done) + 1 /\ e = Returned(h)
    <3>1. /\ e.tool = "FreeCAD" => e.output.geometry =
                IF RanBefore(new, i, "CadQuery") THEN <<"CadQuery", "step">> ELSE <<>>
          /\ e.tool = "CalculiX" => e.output.geometry =
                CASE RanBefore(new, i, "FreeCAD") -> <<"FreeCAD", "assembly_checks">>
                  [] ~RanBefore(new, i, "FreeCAD") /\ RanBefore(new, i, "CadQuery")
                       -> <<"CadQuery", "step">>
                  [] OTHER -> <<>>
      BY <1>3, <2>1, <2>2, <2>5, ReturnedFed
    <3>2. FedAt(new, i)
      BY <2>2, <2>5, <3>1 DEF FedAt
    <3> QED
      BY <1>3, <2>1, <3>2
  <2> QED
    BY <1>3, <2>2, <2>3, <2>4, <2>5
<1>4. CASE Skip(h) \/ Store(h)
  <2>1. Skipped(h).artifacts = {}
    BY DEF Skipped, NotExecuted, NoExecution
  <2> QED
    BY <1>2, <1>3, <1>4, <2>1, WorkIs, GoOnIs
<1> QED
  BY <1>1, <1>2, <1>4, WorkIs

LEMMA AlwaysFed == Spec => [](TypeInvariant /\ ResultInvariant /\ FeedInvariant)
<1>1. Init => ResultInvariant /\ FeedInvariant
  BY DEF Init, Running, ResultInvariant, FeedInvariant
<1> QED
  BY <1>1, InitTyped, StepTyped, StepResults, StepFed, PTL DEF Spec

\* In every run, whatever the order of its tools, FreeCAD has the STEP file exactly
\* when CadQuery ran before it in the same request, and CalculiX the geometry of
\* FreeCAD or, without it, of CadQuery.
THEOREM GeometryFollowsOrder == Spec => []GeometryIsFed
<1>1. FeedInvariant => GeometryIsFed
  <2> SUFFICES ASSUME FeedInvariant, NEW h \in Running, NEW i \in DOMAIN run[h].done
               PROVE  LET x == run[h].done[i]
                          Ran(tool) == \E j \in 1..(i - 1) :
                                         /\ run[h].done[j].tool = tool
                                         /\ run[h].done[j].artifacts # {}
                      IN /\ x.tool = "FreeCAD" /\ x.artifacts # {}
                              => x.output.geometry =
                                   IF Ran("CadQuery") THEN <<"CadQuery", "step">> ELSE <<>>
                         /\ x.tool = "CalculiX" /\ x.artifacts # {}
                              => x.output.geometry =
                                   CASE Ran("FreeCAD") -> <<"FreeCAD", "assembly_checks">>
                                     [] ~Ran("FreeCAD") /\ Ran("CadQuery")
                                          -> <<"CadQuery", "step">>
                                     [] OTHER -> <<>>
    BY DEF GeometryIsFed, UnderWay, Execution, Running
  <2>1. FedAt(run[h].done, i)
    BY DEF FeedInvariant
  <2> QED
    BY <2>1 DEF FedAt, RanBefore
<1> QED
  BY <1>1, AlwaysFed, PTL

\* What the status of a run may say of its executions.
HonestStatus(done, status) ==
  LET all == ToSet(done)
      ran == {x \in all : x.artifacts # {}}
  IN status = CASE ran = all -> "succeeded"
                [] ran # all /\ ran # {} -> "partial"
                [] ran = {} /\ \E x \in all : x.status = "unavailable" -> "unavailable"
                [] OTHER -> "planned_only"

\* aggregate_status of executions that succeeded, leaving artifacts, or were not
\* called.
LEMMA AggregateIs ==
  ASSUME NEW done, done # <<>>, ToSet(done) # {},
         \A e \in ToSet(done) :
           \/ e.artifacts # {} /\ e.status = "succeeded"
           \/ e.artifacts = {} /\ e.status \in {"planned_only", "unavailable"}
  PROVE  HonestStatus(done, AggregateStatus(done))
<1> DEFINE all == ToSet(done)
           ran == {x \in all : x.artifacts # {}}
           statuses == Statuses(done)
           one == Cardinality(statuses) = 1
<1>1. statuses = {e.status : e \in all}
  BY DEF Statuses
<1>2. \A s : statuses = {s} => one
  BY FS_Singleton
<1>3. AggregateStatus(done) =
        CASE one /\ "failed" \notin statuses -> CHOOSE s \in statuses : TRUE
          [] ~ one /\ statuses \intersect {"failed", "succeeded"} # {} -> "partial"
          [] ~ one /\ statuses \intersect {"failed", "succeeded"} = {}
               /\ "unavailable" \in statuses -> "unavailable"
          [] OTHER -> "partial"
  BY DEF AggregateStatus
<1>4. IsFiniteSet(statuses)
  <2>1. IsFiniteSet({"succeeded"} \union {"planned_only"} \union {"unavailable"})
    BY FS_Singleton, FS_Union
  <2>2. statuses \in SUBSET ({"succeeded"} \union {"planned_only"} \union {"unavailable"})
    BY <1>1
  <2> QED
    BY <2>1, <2>2, FS_Subset
<1>5. \A s, t : s \in statuses /\ t \in statuses /\ s # t => ~ one
  BY <1>4, FS_Singleton
<1>6. "failed" \notin statuses
  BY <1>1
<1>7. /\ "succeeded" \in statuses <=> ran # {}
      /\ "unavailable" \in statuses <=> \E x \in all : x.status = "unavailable"
      /\ (\E s \in statuses : s # "succeeded") <=> ran # all
      /\ statuses \subseteq {"succeeded", "planned_only", "unavailable"} /\ statuses # {}
  BY <1>1
<1> DEFINE missing == \E x \in all : x.status = "unavailable"
<1> HIDE DEF statuses, one, ran, all, missing
<1>8. CASE ran = all
  <2>1. statuses = {"succeeded"}
    BY <1>7, <1>8
  <2>2. (CHOOSE s \in statuses : TRUE) = "succeeded"
    BY <2>1
  <2>3. AggregateStatus(done) = "succeeded"
    BY <1>2, <1>3, <1>6, <2>1, <2>2
  <2> QED
    BY <1>8, <2>3 DEF ran, all, HonestStatus
<1>9. CASE ran # all /\ ran # {}
  <2>1. ~ one
    BY <1>5, <1>7, <1>9
  <2>2. AggregateStatus(done) = "partial"
    BY <1>3, <1>7, <1>9, <2>1
  <2> QED
    BY <1>9, <2>2 DEF ran, all, HonestStatus
<1>10. CASE ran = {} /\ missing
  <2>1. "unavailable" \in statuses /\ statuses \intersect {"failed", "succeeded"} = {}
    BY <1>6, <1>7, <1>10 DEF missing
  <2>2. one => statuses = {"unavailable"}
    BY <1>5, <2>1
  <2>3. statuses = {"unavailable"} => (CHOOSE s \in statuses : TRUE) = "unavailable"
    OBVIOUS
  <2>4. AggregateStatus(done) = "unavailable"
    BY <1>3, <1>6, <2>1, <2>2, <2>3
  <2>5. ran # all
    BY <1>10 DEF all, ran
  <2> QED
    BY <1>10, <2>4, <2>5 DEF ran, all, missing, HonestStatus
<1>11. CASE ran = {} /\ ~ missing
  <2>1. statuses = {"planned_only"}
    BY <1>7, <1>11 DEF missing
  <2>2. (CHOOSE s \in statuses : TRUE) = "planned_only"
    BY <2>1
  <2>3. AggregateStatus(done) = "planned_only"
    BY <1>2, <1>3, <1>6, <2>1, <2>2
  <2>4. ran # all
    BY <1>11 DEF all, ran
  <2> QED
    BY <1>11, <2>3, <2>4 DEF ran, all, missing, HonestStatus
<1> QED
  BY <1>8, <1>9, <1>10, <1>11

\* No file was written by the dry run that is under way.
DryInvariant ==
  \A h \in Running : run[h].dry => \A p \in DOMAIN files : files[p] # run[h].id

LEMMA StepDry ==
  ASSUME TypeInvariant, DryInvariant, [Next]_vars
  PROVE  DryInvariant'
<1>1. ASSUME NEW p \in DOMAIN files'
      PROVE  \/ p \in DOMAIN files /\ files'[p] = files[p]
             \/ \E x \in Running : files'[p] = run[x].id /\ ~ run[x].dry
  <2>1. ASSUME NEW x \in Handlers, Store(x)
        PROVE  \/ p \in DOMAIN files /\ files'[p] = files[p]
               \/ x \in Running /\ files'[p] = run[x].id /\ ~ run[x].dry
    <3>1. /\ x \in Running /\ ~ run[x].dry
          /\ \E path : files' = Put(path, run[x].id)
      BY <2>1, StoreIs DEF Elsewhere, Called
    <3> QED
      BY <1>1, <3>1 DEF Put
  <2>2. CASE UNCHANGED files
    BY <1>1, <2>2
  <2>3. UNCHANGED files \/ \E x \in Handlers : Store(x)
    <3>1. ASSUME Crash \/ \E x \in Handlers : Raise(x) \/ AnswerDry(x) PROVE UNCHANGED files
      BY <3>1, QuietEnds
    <3> QED
      BY <3>1, StartIs, SkipIs, WriteIs DEF Next, Finish, vars
  <2> QED
    BY <2>1, <2>2, <2>3
<1> SUFFICES ASSUME NEW h \in Running', run'[h].dry, NEW p \in DOMAIN files'
             PROVE  files'[p] # run'[h].id
  BY DEF DryInvariant
<1>2. CASE h \in Running /\ SameRun(h)
  <2>1. \A x \in Running : ~ run[x].dry => run[x].id # run[h].id
    BY <1>2 DEF SameRun, TypeInvariant, RunsTyped
  <2> QED
    BY <1>1, <1>2, <2>1 DEF DryInvariant, SameRun
<1>3. CASE Start(h)
  <2>1. run'[h].id = runs + 1 /\ runs \in Nat
    <3>1. h \in Handlers
      BY DEF Running
    <3>2. PICK r : Started(r) /\ run' = [run EXCEPT ![h] = r]
      BY <1>3, <3>1, StartIs
    <3> QED
      BY <3>1, <3>2 DEF Started, TypeInvariant, RunsTyped, HistoryTyped
  <2>2. files'[p] \in 1..runs
    BY <1>1, RunIs DEF TypeInvariant, FilesTyped, RunTyped
  <2> QED
    BY <2>1, <2>2
<1> QED
  BY <1>2, <1>3, StepIs

\* A client is told what happened: the status says "succeeded" only if every tool
\* left artifacts and "partial" only if some did, and a dry run leaves no file,
\* whatever other handlers store meanwhile.
THEOREM StatusIsHonest == Spec => []RunsAreHonest
<1>1. Init => DryInvariant
  BY DEF Init, Running, DryInvariant
<1>2. TypeInvariant /\ ResultInvariant => StatusHonest
  <2>1. ASSUME TypeInvariant, ResultInvariant, NEW h \in Running, run[h].done # <<>>
        PROVE  HonestStatus(run[h].done, AggregateStatus(run[h].done))
    <3> DEFINE done == run[h].done
    <3>1. \A e \in ToSet(done) :
            \/ e.artifacts # {} /\ e.status = "succeeded"
            \/ e.artifacts = {} /\ e.status \in {"planned_only", "unavailable"}
      <4>1. \A e \in ToSet(done) : ResultOf(Called(h, e.tool), e)
        BY <2>1 DEF ToSet, ResultInvariant
      <4> QED
        BY <4>1, ArtifactsLeft DEF ResultOf, Called
    <3>2. ToSet(done) # {}
      <4>1. Sequence(done) /\ done # <<>>
        BY <2>1, RunIs
      <4>2. 1 \in DOMAIN done
        BY <4>1 DEF Sequence
      <4> QED
        BY <4>2 DEF ToSet
    <3> HIDE DEF done
    <3> QED
      BY <2>1, <3>1, <3>2, AggregateIs DEF done
  <2>2. ASSUME TypeInvariant, ResultInvariant, NEW e \in UnderWay, e.executions # <<>>
        PROVE  HonestStatus(e.executions, e.status)
    <3>1. PICK h \in Running : e = Execution(h)
      BY <2>2 DEF UnderWay, Running
    <3>2. e.executions = run[h].done /\ e.status = AggregateStatus(run[h].done)
      BY <3>1 DEF Execution
    <3> QED
      BY <2>1, <2>2, <3>2
  <2> QED
    BY <2>2 DEF StatusHonest, HonestStatus
<1>3. DryInvariant => DryRunsLeaveNoFile
  BY DEF DryInvariant, DryRunsLeaveNoFile, Running
<1>4. Spec => []DryInvariant
  BY <1>1, InitTyped, StepTyped, StepDry, PTL DEF Spec
<1> QED
  BY <1>2, <1>3, <1>4, AlwaysFed, PTL DEF RunsAreHonest

-----------------------------------------------------------------------------
(* OutputsAreSound *)

\* The report passes if no margin is negative: the least one decides, and the
\* deflection margin is never negative.
LEMMA ReportIs ==
  ASSUME NEW facts, facts.torque \in Int, facts.physics \in SUBSET Int, IsFiniteSet(facts.physics)
  PROVE  MarginReport(facts).status = "pass"
           <=> \A m \in facts.physics \union {facts.torque} : m >= 0
<1>1. PICK margins : margins = facts.physics \union {facts.torque}
  OBVIOUS
<1>2. /\ margins \subseteq Int /\ margins # {}
      /\ IsFiniteSet(margins)
  BY <1>1, FS_AddElement
<1>3. Min(margins) \in margins /\ \A m \in margins : Min(margins) <= m
  BY <1>2, FiniteHasLeast, MinIs DEF HasLeast
<1>4. PICK torque, hundred, zero \in Int : torque = facts.torque /\ hundred = 100 /\ zero = 0
  OBVIOUS
<1>5. PICK capped \in Int : capped = Min({hundred, torque})
  BY MinOfTwo
<1>6. Max({zero, capped}) >= zero
  BY MaxOfTwo
<1>7. DeflectionMargin(facts) >= 0
  <2>1. DeflectionMargin(facts) = Max({zero, capped})
    BY <1>4, <1>5 DEF DeflectionMargin
  <2> QED
    BY <1>4, <1>6, <2>1
<1>8. MarginReport(facts).status = IF Min(margins) >= 0 /\ DeflectionMargin(facts) >= 0
                                   THEN "pass" ELSE "review"
  BY <1>1 DEF MarginReport
<1>9. Min(margins) >= 0 <=> \A m \in margins : m >= 0
  <2>1. PICK least \in Int : least = Min(margins)
    BY <1>2, <1>3
  <2> QED
    BY <1>2, <1>3, <2>1
<1> QED
  BY <1>1, <1>7, <1>8, <1>9

\* None of the three points is as good as another in both speed and mass.
LEMMA FrontIs ==
  ASSUME NEW facts, facts.speed \in Nat \ {0}, facts.mass \in Nat \ {0}
  PROVE  ParetoFront(facts) = {SweepPoint(facts, f) : f \in SweepFactors}
<1>1. PICK speed, mass \in Nat \ {0} : speed = facts.speed /\ mass = facts.mass
  OBVIOUS
<1>2. \A f \in SweepFactors : /\ SweepPoint(facts, f).speed = speed * f
                              /\ SweepPoint(facts, f).mass = mass * (10000 + (f - 100) * 35)
  BY <1>1 DEF SweepPoint
<1>3. ASSUME NEW f \in SweepFactors, NEW g \in SweepFactors,
             NoWorse(SweepPoint(facts, f), SweepPoint(facts, g))
      PROVE  f = g
  <2>1. /\ speed * f >= speed * g
        /\ mass * (10000 + (f - 100) * 35) <= mass * (10000 + (g - 100) * 35)
    BY <1>2, <1>3 DEF NoWorse
  <2>2. /\ f = 85 \/ f = 100 \/ f = 115
        /\ g = 85 \/ g = 100 \/ g = 115
    BY DEF SweepFactors
  <2>3. /\ mass * (10000 + (85 - 100) * 35) = 9475 * mass
        /\ mass * (10000 + (100 - 100) * 35) = 10000 * mass
        /\ mass * (10000 + (115 - 100) * 35) = 10525 * mass
    OBVIOUS
  <2> QED
    BY <2>1, <2>2, <2>3
<1>4. ASSUME NEW f \in SweepFactors, NEW g \in SweepFactors
      PROVE  ~ Dominates(SweepPoint(facts, f), SweepPoint(facts, g))
  BY <1>3 DEF Dominates
<1> QED
  BY <1>4 DEF ParetoFront

LEMMA FrontSound ==
  ASSUME NEW facts, facts.speed \in Nat \ {0}, facts.mass \in Nat \ {0},
         NEW points, points = {SweepPoint(facts, f) : f \in SweepFactors},
         NEW front, front = ParetoFront(facts)
  PROVE  /\ {85, 100, 115} \subseteq {p.factor : p \in front}
         /\ \A p \in points \ front : \E q \in front : NoWorse(q, p)
<1>1. front = points
  BY FrontIs
<1>2. \A f \in SweepFactors : SweepPoint(facts, f).factor = f
  BY DEF SweepPoint
<1> QED
  BY <1>1, <1>2 DEF SweepFactors

\* The pads of a block of any mass.
LEMMA PadsSound ==
  ASSUME NEW facts, facts.mass \in Nat
  PROVE  LET pads == Placeholder(facts).pads
             envelope == Placeholder(facts).envelope IN
         /\ \A i \in DOMAIN pads : /\ 2 * pads[i].center >= pads[i].size
                                   /\ 2 * pads[i].center + pads[i].size <= 2 * envelope.length
         /\ \A i, j \in DOMAIN pads :
              i < j => 2 * pads[i].center + pads[i].size <= 2 * pads[j].center - pads[j].size
<1>1. PICK scale \in 100 .. 300 : scale = Max({100, Min({300, facts.mass \div 2})})
  <2>1. PICK half \in Int : half = facts.mass \div 2
    OBVIOUS
  <2>2. PICK low, high \in Int : low = 100 /\ high = 300
    OBVIOUS
  <2>3. PICK capped \in Int : capped = Min({high, half}) /\ capped <= high
    BY MinOfTwo
  <2>4. Max({low, capped}) \in {low, capped} /\ Max({low, capped}) >= low
    BY MaxOfTwo
  <2>5. Max({low, capped}) \in 100 .. 300
    BY <2>2, <2>3, <2>4
  <2> QED
    BY <2>1, <2>2, <2>3, <2>5
<1>2. Envelope(facts.mass).length = 120 * scale
  BY <1>1 DEF Envelope
<1>3. PICK length \in Nat : length = 120 * scale
  BY <1>1
<1>4. length \div 4 = 30 * scale /\ length \div 5 = 24 * scale
  BY <1>3
<1>5. PICK size \in Int : size = Min({2800, length \div 5}) /\ size <= 24 * scale
  <2>1. PICK cap, fifth \in Int : cap = 2800 /\ fifth = length \div 5
    BY <1>4
  <2>2. Min({cap, fifth}) \in {cap, fifth} /\ Min({cap, fifth}) <= fifth
    BY MinOfTwo
  <2> QED
    BY <1>4, <2>1, <2>2
<1>6. PICK pads : pads = [i \in 1 .. 3 |-> [center |-> i * (length \div 4), size |-> size]]
  OBVIOUS
<1>7. Placeholder(facts).pads = pads /\ Placeholder(facts).envelope.length = length
  <2>1. Len(Components) = 3
    BY DEF Components
  <2>2. /\ Placeholder(facts).envelope.length = length
        /\ Placeholder(facts).pads = Pads(Envelope(facts.mass))
    BY <1>2, <1>3 DEF Placeholder
  <2>3. Pads(Envelope(facts.mass)) =
          [i \in 1 .. 3 |-> [center |-> i * (length \div (3 + 1)),
                             size |-> Min({2800, length \div (3 + 2)})]]
    BY <1>2, <1>3, <2>1 DEF Pads
  <2>4. length \div (3 + 1) = length \div 4 /\ length \div (3 + 2) = length \div 5
    OBVIOUS
  <2> QED
    BY <1>5, <1>6, <2>2, <2>3, <2>4
<1>8. /\ DOMAIN pads = 1 .. 3
      /\ \A i \in 1 .. 3 : pads[i].center = i * (30 * scale) /\ pads[i].size = size
  BY <1>4, <1>6
<1>9. \A i \in 1 .. 3 : i = 1 \/ i = 2 \/ i = 3
  OBVIOUS
<1> QED
  BY <1>1, <1>3, <1>5, <1>7, <1>8, <1>9

\* The edges of a facet, and the facets that have an edge.
EdgesOf(t) == {<<t[1], t[2]>>, <<t[2], t[3]>>, <<t[3], t[1]>>}

OwnersOf(edge) == {k \in DOMAIN Triangles : edge \in EdgesOf(Triangles[k])}

\* Facet k runs from corner a to corner b.
Along(k, a, b) ==
  \/ k = 1 /\ ((a = 0 /\ b = 1) \/ (a = 1 /\ b = 2) \/ (a = 2 /\ b = 0))
  \/ k = 2 /\ ((a = 0 /\ b = 2) \/ (a = 2 /\ b = 3) \/ (a = 3 /\ b = 0))
  \/ k = 3 /\ ((a = 4 /\ b = 6) \/ (a = 6 /\ b = 5) \/ (a = 5 /\ b = 4))
  \/ k = 4 /\ ((a = 4 /\ b = 7) \/ (a = 7 /\ b = 6) \/ (a = 6 /\ b = 4))
  \/ k = 5 /\ ((a = 0 /\ b = 4) \/ (a = 4 /\ b = 5) \/ (a = 5 /\ b = 0))
  \/ k = 6 /\ ((a = 0 /\ b = 5) \/ (a = 5 /\ b = 1) \/ (a = 1 /\ b = 0))
  \/ k = 7 /\ ((a = 1 /\ b = 5) \/ (a = 5 /\ b = 6) \/ (a = 6 /\ b = 1))
  \/ k = 8 /\ ((a = 1 /\ b = 6) \/ (a = 6 /\ b = 2) \/ (a = 2 /\ b = 1))
  \/ k = 9 /\ ((a = 2 /\ b = 6) \/ (a = 6 /\ b = 7) \/ (a = 7 /\ b = 2))
  \/ k = 10 /\ ((a = 2 /\ b = 7) \/ (a = 7 /\ b = 3) \/ (a = 3 /\ b = 2))
  \/ k = 11 /\ ((a = 3 /\ b = 7) \/ (a = 7 /\ b = 4) \/ (a = 4 /\ b = 3))
  \/ k = 12 /\ ((a = 3 /\ b = 4) \/ (a = 4 /\ b = 0) \/ (a = 0 /\ b = 3))

LEMMA AlongIs ==
  /\ DOMAIN Triangles = 1 .. 12
  /\ \A k \in 1 .. 12 : \A edge :
       edge \in EdgesOf(Triangles[k]) <=> \E a, b \in 0 .. 7 : edge = <<a, b>> /\ Along(k, a, b)
<1>1. /\ DOMAIN Triangles = 1 .. 12
      /\ Triangles[1] = <<0, 1, 2>>
      /\ Triangles[2] = <<0, 2, 3>>
      /\ Triangles[3] = <<4, 6, 5>>
      /\ Triangles[4] = <<4, 7, 6>>
      /\ Triangles[5] = <<0, 4, 5>>
      /\ Triangles[6] = <<0, 5, 1>>
      /\ Triangles[7] = <<1, 5, 6>>
      /\ Triangles[8] = <<1, 6, 2>>
      /\ Triangles[9] = <<2, 6, 7>>
      /\ Triangles[10] = <<2, 7, 3>>
      /\ Triangles[11] = <<3, 7, 4>>
      /\ Triangles[12] = <<3, 4, 0>>
  BY DEF Triangles
<1>2. ASSUME NEW k \in 1 .. 12, NEW edge
      PROVE  edge \in EdgesOf(Triangles[k])
               <=> \E a, b \in 0 .. 7 : edge = <<a, b>> /\ Along(k, a, b)
  <2>1. CASE k = 1
    BY <1>1, <2>1 DEF EdgesOf, Along
  <2>2. CASE k = 2
    BY <1>1, <2>2 DEF EdgesOf, Along
  <2>3. CASE k = 3
    BY <1>1, <2>3 DEF EdgesOf, Along
  <2>4. CASE k = 4
    BY <1>1, <2>4 DEF EdgesOf, Along
  <2>5. CASE k = 5
    BY <1>1, <2>5 DEF EdgesOf, Along
  <2>6. CASE k = 6
    BY <1>1, <2>6 DEF EdgesOf, Along
  <2>7. CASE k = 7
    BY <1>1, <2>7 DEF EdgesOf, Along
  <2>8. CASE k = 8
    BY <1>1, <2>8 DEF EdgesOf, Along
  <2>9. CASE k = 9
    BY <1>1, <2>9 DEF EdgesOf, Along
  <2>10. CASE k = 10
    BY <1>1, <2>10 DEF EdgesOf, Along
  <2>11. CASE k = 11
    BY <1>1, <2>11 DEF EdgesOf, Along
  <2>12. CASE k = 12
    BY <1>1, <2>12 DEF EdgesOf, Along
  <2> QED
    BY <2>1, <2>2, <2>3, <2>4, <2>5, <2>6, <2>7, <2>8, <2>9, <2>10, <2>11, <2>12
<1> QED
  BY <1>1, <1>2

\* No two facets run through an edge in the same direction, and the one beside
\* it runs through it in the other.
LEMMA AlongOnce ==
  ASSUME NEW a \in 0 .. 7, NEW b \in 0 .. 7, NEW k \in 1 .. 12, Along(k, a, b)
  PROVE  /\ \A j \in 1 .. 12 : Along(j, a, b) => j = k
         /\ \E j \in 1 .. 12 : Along(j, b, a)
<1>1. \A j \in 1 .. 12 : Along(j, a, b) => j = k
  BY DEF Along
<1>2. \/ Along(1, b, a) \/ Along(2, b, a) \/ Along(3, b, a) \/ Along(4, b, a)
      \/ Along(5, b, a) \/ Along(6, b, a) \/ Along(7, b, a) \/ Along(8, b, a)
      \/ Along(9, b, a) \/ Along(10, b, a) \/ Along(11, b, a) \/ Along(12, b, a)
  BY DEF Along
<1>3. /\ 1 \in 1 .. 12 /\ 2 \in 1 .. 12 /\ 3 \in 1 .. 12 /\ 4 \in 1 .. 12
      /\ 5 \in 1 .. 12 /\ 6 \in 1 .. 12 /\ 7 \in 1 .. 12 /\ 8 \in 1 .. 12
      /\ 9 \in 1 .. 12 /\ 10 \in 1 .. 12 /\ 11 \in 1 .. 12 /\ 12 \in 1 .. 12
  OBVIOUS
<1> QED
  BY <1>1, <1>2, <1>3

LEMMA OneOwner ==
  ASSUME NEW a \in 0 .. 7, NEW b \in 0 .. 7, NEW k \in 1 .. 12, Along(k, a, b)
  PROVE  Cardinality(OwnersOf(<<a, b>>)) = 1
<1>1. \A j \in 1 .. 12 : <<a, b>> \in EdgesOf(Triangles[j]) <=> Along(j, a, b)
  <2>1. \A c, d : <<a, b>> = <<c, d>> <=> a = c /\ b = d
    OBVIOUS
  <2> QED
    BY <2>1, AlongIs
<1>2. OwnersOf(<<a, b>>) = {k}
  BY <1>1, AlongIs, AlongOnce DEF OwnersOf
<1> QED
  BY <1>2, FS_Singleton

\* The triangles close.
LEMMA TrianglesClose ==
  \A edge \in UNION {EdgesOf(Triangles[k]) : k \in DOMAIN Triangles} :
    Cardinality(OwnersOf(edge)) = 1 /\ Cardinality(OwnersOf(<<edge[2], edge[1]>>)) = 1
<1> SUFFICES ASSUME NEW k \in DOMAIN Triangles, NEW edge, edge \in EdgesOf(Triangles[k])
             PROVE  /\ Cardinality(OwnersOf(edge)) = 1
                    /\ Cardinality(OwnersOf(<<edge[2], edge[1]>>)) = 1
  OBVIOUS
<1>0. k \in 1 .. 12
  BY AlongIs
<1>1. PICK a, b \in 0 .. 7 : edge = <<a, b>> /\ Along(k, a, b)
  BY <1>0, AlongIs
<1>2. PICK j \in 1 .. 12 : Along(j, b, a)
  BY <1>0, <1>1, AlongOnce
<1>3. Cardinality(OwnersOf(<<a, b>>)) = 1 /\ Cardinality(OwnersOf(<<b, a>>)) = 1
  BY <1>0, <1>1, <1>2, OneOwner
<1>4. edge[1] = a /\ edge[2] = b
  BY <1>1
<1> QED
  BY <1>1, <1>3, <1>4

\* What a run holds of its executions: the output its tool computes for the candidate.
MadeOf(x, facts) ==
  x.artifacts # {} =>
    /\ x.tool = "CadQuery" => x.output = Placeholder(facts)
    /\ x.tool = "CalculiX" => x.output.margins = MarginReport(facts)
    /\ x.tool = "OpenMDAO" => x.output.points = ParetoFront(facts)

OutputInvariant ==
  \A h \in Running : \A i \in DOMAIN run[h].done :
    MadeOf(run[h].done[i], FactsOf[run[h].candidate])

\* What a runner returns is what its tool computes.
LEMMA ReturnedMade ==
  ASSUME NEW h
  PROVE  MadeOf(Returned(h), FactsOf[run[h].candidate])
<1> DEFINE e == Returned(h)
           facts == FactsOf[run[h].candidate]
<1>1. PICK up : up = Upstream(run[h].done)
  OBVIOUS
<1>2. e.tool = NextTool(h) /\ e.output = Output(e.tool, facts, up)
  BY <1>1 DEF Returned
<1> HIDE DEF e, facts
<1>3. e.tool = "CadQuery" => e.output = Placeholder(facts)
  BY <1>2 DEF Output
<1>4. e.tool = "CalculiX" => e.output.margins = MarginReport(facts)
  <2>1. e.tool = "CalculiX" =>
          e.output = [geometry |-> SolverGeometry(up), margins |-> MarginReport(facts)]
    BY <1>2 DEF Output
  <2> QED
    BY <2>1
<1>5. e.tool = "OpenMDAO" => e.output.points = ParetoFront(facts)
  <2>1. e.tool = "OpenMDAO" => e.output = [points |-> ParetoFront(facts)]
    BY <1>2 DEF Output
  <2> QED
    BY <2>1
<1> QED
  BY <1>3, <1>4, <1>5 DEF MadeOf, e, facts

LEMMA StepMade ==
  ASSUME TypeInvariant, OutputInvariant, [Next]_vars
  PROVE  OutputInvariant'
<1> SUFFICES ASSUME NEW h \in Running', NEW i \in DOMAIN run'[h].done
             PROVE  MadeOf(run'[h].done[i], FactsOf[run'[h].candidate])
  BY DEF OutputInvariant, MadeOf
<1>1. CASE Start(h)
  <2>1. run'[h].done = <<>>
    BY <1>1, WorkIs, StartIs DEF Started, TypeInvariant, RunsTyped
  <2> QED
    BY <2>1, NothingYet
<1>2. ASSUME h \in Running, run'[h].done = run[h].done, run'[h].candidate = run[h].candidate
      PROVE  MadeOf(run'[h].done[i], FactsOf[run'[h].candidate])
  BY <1>2 DEF OutputInvariant
<1>3. ASSUME h \in Running, run'[h].candidate = run[h].candidate,
             NEW e, run'[h].done = Append(run[h].done, e),
             MadeOf(e, FactsOf[run[h].candidate])
      PROVE  MadeOf(run'[h].done[i], FactsOf[run'[h].candidate])
  <2>1. /\ Sequence(run[h].done)
        /\ i \in 1..(Len(run[h].done) + 1)
        /\ \A k \in 1..Len(run[h].done) :
             k \in DOMAIN run[h].done /\ run'[h].done[k] = run[h].done[k]
        /\ run'[h].done[Len(run[h].done) + 1] = e
        /\ Len(run[h].done) \in Nat
    BY <1>3, RunIs, Appended
  <2>2. CASE i \in 1..Len(run[h].done)
    BY <1>3, <2>1, <2>2 DEF OutputInvariant
  <2>3. CASE i = Len(run[h].done) + 1
    BY <1>3, <2>1, <2>3
  <2> QED
    BY <2>1, <2>2, <2>3
<1>4. CASE Skip(h) \/ Store(h)
  <2>1. h \in Handlers
    BY WorkIs
  <2>2. h \in Running /\ run'[h].candidate = run[h].candidate
    BY <1>4, <2>1, GoOnIs DEF SameRun
  <2>3. MadeOf(Skipped(h), FactsOf[run[h].candidate])
    <3>1. Skipped(h).artifacts = {}
      BY DEF Skipped, NotExecuted, NoExecution
    <3> QED
      BY <3>1 DEF MadeOf
  <2> QED
    BY <1>2, <1>3, <1>4, <2>1, <2>2, <2>3, ReturnedMade, GoOnIs
<1> QED
  BY <1>1, <1>2, <1>4, WorkIs

\* What the runners hand over is sound, whatever the candidate: the margin report says
\* "pass" only if no margin is negative, the placeholder is a closed solid with its pads
\* on it and apart, and the Pareto front keeps the three points of the sweep.
THEOREM RunnersAreSound == Spec => []OutputsAreSound
<1>1. Init => OutputInvariant
  BY DEF Init, Running, OutputInvariant
<1>2. Spec => [](TypeInvariant /\ OutputInvariant)
  BY <1>1, InitTyped, StepTyped, StepMade, PTL DEF Spec
<1>3. ASSUME TypeInvariant, OutputInvariant, NEW tool, NEW o \in Outputs(tool)
      PROVE  \E c \in Candidates : \E x :
               /\ o[1] = c /\ o[2] = x.output
               /\ x.tool = tool /\ x.artifacts # {} /\ MadeOf(x, FactsOf[c])
  <2>1. PICK h \in Running :
          /\ run[h].done # <<>>
          /\ o = <<run[h].candidate, Last(run[h].done).output>>
          /\ Last(run[h].done).tool = tool /\ Last(run[h].done).artifacts # {}
    BY <1>3 DEF Outputs, UnderWay, Execution, Running
  <2>2. run[h].candidate \in Candidates /\ Sequence(run[h].done)
    BY <1>3, RunIs DEF RunTyped
  <2>3. Last(run[h].done) = run[h].done[Len(run[h].done)]
    BY DEF Last
  <2>4. Len(run[h].done) \in DOMAIN run[h].done
    BY <2>1, <2>2 DEF Sequence
  <2>5. MadeOf(Last(run[h].done), FactsOf[run[h].candidate])
    BY <1>3, <2>3, <2>4 DEF OutputInvariant
  <2> QED
    BY <2>1, <2>2, <2>5
<1>4. \A c \in Candidates :
        /\ FactsOf[c].torque \in Int /\ FactsOf[c].physics \in SUBSET Int
        /\ IsFiniteSet(FactsOf[c].physics)
        /\ FactsOf[c].mass \in Nat \ {0} /\ FactsOf[c].speed \in Nat \ {0}
  BY ToolchainAssumption
<1>5. TypeInvariant /\ OutputInvariant => PassNeedsEveryMargin
  <2> SUFFICES ASSUME TypeInvariant, OutputInvariant, NEW o \in Outputs("CalculiX")
               PROVE  o[2].margins.status = "pass"
                        <=> \A m \in FactsOf[o[1]].physics \union {FactsOf[o[1]].torque} : m >= 0
    BY DEF PassNeedsEveryMargin
  <2>1. o[1] \in Candidates /\ o[2].margins = MarginReport(FactsOf[o[1]])
    BY <1>3 DEF MadeOf
  <2> QED
    BY <1>4, <2>1, ReportIs
<1>6. TypeInvariant /\ OutputInvariant => PlaceholderIsSolid
  <2> SUFFICES ASSUME TypeInvariant, OutputInvariant, NEW o \in Outputs("CadQuery")
               PROVE  LET pads == o[2].pads
                          Edges(t) == {<<t[1], t[2]>>, <<t[2], t[3]>>, <<t[3], t[1]>>}
                          Owners(edge) == {k \in DOMAIN Triangles : edge \in Edges(Triangles[k])}
                      IN /\ \A i \in DOMAIN pads :
                              /\ 2 * pads[i].center >= pads[i].size
                              /\ 2 * pads[i].center + pads[i].size <= 2 * o[2].envelope.length
                         /\ \A i, j \in DOMAIN pads :
                              i < j => 2 * pads[i].center + pads[i].size
                                         <= 2 * pads[j].center - pads[j].size
                         /\ \A edge \in UNION {Edges(Triangles[k]) : k \in DOMAIN Triangles} :
                              /\ Cardinality(Owners(edge)) = 1
                              /\ Cardinality(Owners(<<edge[2], edge[1]>>)) = 1
    BY DEF PlaceholderIsSolid
  <2>1. o[1] \in Candidates /\ o[2] = Placeholder(FactsOf[o[1]])
    BY <1>3 DEF MadeOf
  <2>2. PICK facts : facts = FactsOf[o[1]] /\ facts.mass \in Nat
    BY <1>4, <2>1
  <2>3. /\ \A i \in DOMAIN o[2].pads :
             /\ 2 * o[2].pads[i].center >= o[2].pads[i].size
             /\ 2 * o[2].pads[i].center + o[2].pads[i].size <= 2 * o[2].envelope.length
        /\ \A i, j \in DOMAIN o[2].pads :
             i < j => 2 * o[2].pads[i].center + o[2].pads[i].size
                        <= 2 * o[2].pads[j].center - o[2].pads[j].size
    BY <2>1, <2>2, PadsSound
  <2> QED
    BY <2>3, TrianglesClose DEF EdgesOf, OwnersOf
<1>7. TypeInvariant /\ OutputInvariant => FrontIsSound
  <2> SUFFICES ASSUME TypeInvariant, OutputInvariant, NEW o \in Outputs("OpenMDAO")
               PROVE  LET points == {SweepPoint(FactsOf[o[1]], f) : f \in SweepFactors}
                          front == o[2].points
                      IN /\ {85, 100, 115} \subseteq {p.factor : p \in front}
                         /\ \A p \in points \ front : \E q \in front : NoWorse(q, p)
    BY DEF FrontIsSound
  <2>1. o[1] \in Candidates /\ o[2].points = ParetoFront(FactsOf[o[1]])
    BY <1>3 DEF MadeOf
  <2> QED
    BY <1>4, <2>1, FrontSound
<1> QED
  BY <1>2, <1>5, <1>6, <1>7, PTL DEF OutputsAreSound
=============================================================================
