------------------------ MODULE PhysicsExportProofs -------------------------
(***************************************************************************)
(* Theorems about PhysicsExport and the checks of Physics, for any designs *)
(* and requirements of their types and any number of starts.               *)
(***************************************************************************)
EXTENDS PhysicsExport, NumberLemmas, SequenceTheorems, FiniteSetTheorems

-----------------------------------------------------------------------------
(***************************************************************************)
(* The order of the files                                                  *)
(***************************************************************************)
LEMMA FilesAre ==
  /\ DOMAIN Files = 1..11 /\ Len(Files) = 11
  /\ Files[1] = "a/request" /\ Files[2] = "a/response" /\ Files[3] = "a/summary"
  /\ Files[4] = "b/request" /\ Files[5] = "b/response" /\ Files[6] = "b/summary"
  /\ Files[7] = "COMPARE.json" /\ Files[8] = "PHYSICS_COMPARE.json"
  /\ Files[9] = "COMPARE.md" /\ Files[10] = "PHYSICS_COMPARE.md"
  /\ Files[11] = "HOW_WE_RAN_IT.md"
BY DEF Files

\* A file has one place, and the words for the other places of the script are
\* no files.
LEMMA FilesDiffer ==
  /\ \A i, j \in 1..11 : Files[i] = Files[j] => i = j
  /\ \A i \in 1..11 : Files[i] # "case" /\ Files[i] # "done"
<1>1. ASSUME NEW i \in 1..11
      PROVE  /\ i = 1 \/ i = 2 \/ i = 3 \/ i = 4 \/ i = 5 \/ i = 6 \/ i = 7 \/ i = 8 \/ i = 9
                  \/ i = 10 \/ i = 11
  OBVIOUS
<1> QED
  BY <1>1, FilesAre

LEMMA PositionIs ==
  ASSUME NEW p \in 1..11
  PROVE  Position(Files[p]) = p
<1>1. DOMAIN Files = 1..11
  BY FilesAre
<1>2. \A i \in DOMAIN Files : Files[i] = Files[p] <=> i = p
  BY <1>1, FilesDiffer
<1> QED
  BY <1>1, <1>2 DEF Position

\* After the summaries of the cases comes the next case or the comparison,
\* after the last file the end, and the next file after every other.
LEMMA AfterIs ==
  ASSUME NEW p \in 1..11
  PROVE  After(Files[p]) = IF p = 3 THEN "case" ELSE IF p = 11 THEN "done" ELSE Files[p + 1]
<1>1. Files[p] = "a/summary" <=> p = 3
  BY FilesAre, FilesDiffer
<1>2. Files[p] = "HOW_WE_RAN_IT.md" <=> p = 11
  BY FilesAre, FilesDiffer
<1> QED
  BY <1>1, <1>2, PositionIs DEF After

\* What the run under way has written so far: the first n files, and no other.
WrittenUpTo(n) ==
  /\ \A i \in 1..n : files[Files[i]] = runs
  /\ \A i \in 1..11 : i > n => files[Files[i]] < runs

\* Where the script is tells how many cases it holds and which files it wrote.
PlaceInvariant ==
  \/ pc = "done"
  \/ pc = "case" /\ Len(summaries) <= 1 /\ WrittenUpTo(3 * Len(summaries)) /\ runs >= 1
  \/ \E p \in 1..11 : /\ pc = Files[p] /\ runs >= 1
                      /\ Len(summaries) = IF p <= 3 THEN 1 ELSE 2
                      /\ WrittenUpTo(p - 1)

\* The cases of the script, summarised.
HeldInvariant ==
  /\ summaries \in Seq({Summary(PowerA), Summary(PowerB)})
  /\ Len(summaries) <= 2
  /\ \A k \in 1..Len(summaries) : /\ summaries[k] = Summary(Power(Cases[k]))
                                  /\ DOMAIN Rows(Power(Cases[k])) # {}

FileInvariant ==
  /\ runs \in 0..MaxRuns
  /\ files \in [ToSet(Files) -> Int]
  /\ \A i \in 1..11 : -runs <= files[Files[i]] /\ files[Files[i]] <= runs
  /\ FilesInOrder

ScriptInvariant == HeldInvariant /\ PlaceInvariant /\ FileInvariant

LEMMA FileNames == ToSet(Files) = {Files[i] : i \in 1..11}
BY FilesAre DEF ToSet

\* Every file has its place.
LEMMA PlaceOf ==
  ASSUME NEW f \in ToSet(Files)
  PROVE  \E p \in 1..11 : f = Files[p]
BY FileNames

\* One write, complete or torn, keeps the order: the files before it are of this
\* run, and none after it is.
LEMMA OneWriteInOrder ==
  ASSUME FileInvariant, NEW p \in 1..11, WrittenUpTo(p - 1), runs >= 1,
         NEW stamp \in {runs, -runs}, files' = [files EXCEPT ![Files[p]] = stamp], runs' = runs
  PROVE  FileInvariant'
<1>1. runs \in Nat /\ stamp \in Int /\ -runs <= stamp /\ stamp <= runs
  BY ExportAssumption DEF FileInvariant
<1>2. files' \in [ToSet(Files) -> Int]
  BY <1>1 DEF FileInvariant
<1>3. \A i \in 1..11 : files'[Files[i]] = IF i = p THEN stamp ELSE files[Files[i]]
  BY FilesDiffer, FileNames DEF FileInvariant
<1>4. \A i \in 1..11 : files[Files[i]] \in Int
  BY FileNames DEF FileInvariant
<1>5. ASSUME NEW i \in 1..11, NEW j \in 1..11, i < j
      PROVE  /\ files'[Files[j]] <= IF files'[Files[i]] < 0 THEN -files'[Files[i]]
                                    ELSE files'[Files[i]]
             /\ files'[Files[j]] = runs => files'[Files[i]] = runs
  <2>1. CASE i = p
    <3>1. j # p /\ files'[Files[j]] \in Int /\ files'[Files[j]] < runs
      BY <1>3, <1>4, <1>5, <2>1 DEF WrittenUpTo
    <3>2. files'[Files[i]] = runs \/ files'[Files[i]] = -runs
      BY <1>3, <2>1
    <3> QED
      BY <1>1, <3>1, <3>2
  <2>2. CASE j = p
    <3>1. files'[Files[i]] = runs
      BY <1>3, <1>5, <2>2 DEF WrittenUpTo
    <3> QED
      BY <1>1, <1>3, <2>2, <3>1
  <2>3. CASE i # p /\ j # p
    <3>1. i \in DOMAIN Files /\ j \in DOMAIN Files
      BY FilesAre
    <3>2. files'[Files[i]] = files[Files[i]] /\ files'[Files[j]] = files[Files[j]]
      BY <1>3, <2>3
    <3> QED
      BY <1>5, <3>1, <3>2 DEF FileInvariant, FilesInOrder
  <2> QED
    BY <2>1, <2>2, <2>3
<1>6. FilesInOrder'
  BY <1>5, FilesAre DEF FilesInOrder
<1>7. \A i \in 1..11 : -runs <= files'[Files[i]] /\ files'[Files[i]] <= runs
  BY <1>1, <1>3 DEF FileInvariant
<1> QED
  BY <1>2, <1>6, <1>7 DEF FileInvariant

\* A run that begins is newer than every file.
LEMMA StartKeeps ==
  ASSUME ScriptInvariant, Start
  PROVE  ScriptInvariant'
<1>1. /\ runs' = runs + 1 /\ runs < MaxRuns /\ summaries' = <<>> /\ pc' = "case"
      /\ UNCHANGED <<catalog, req, files>>
  BY DEF Start
<1>2. runs \in Nat /\ runs' \in 0..MaxRuns /\ runs' >= 1
  BY <1>1, ExportAssumption DEF ScriptInvariant, FileInvariant
<1>3. Len(summaries') = 0 /\ HeldInvariant'
  BY <1>1 DEF HeldInvariant
<1>4. WrittenUpTo(0)'
  <2>1. ASSUME NEW i \in 1..11 PROVE files[Files[i]] < runs + 1
    <3>1. files[Files[i]] \in Int /\ files[Files[i]] <= runs
      BY FileNames DEF ScriptInvariant, FileInvariant
    <3> QED
      BY <1>2, <3>1
  <2> QED
    BY <1>1, <2>1 DEF WrittenUpTo
<1>5. PlaceInvariant'
  BY <1>1, <1>2, <1>3, <1>4 DEF PlaceInvariant
<1>6. \A i \in 1..11 : files[Files[i]] \in Int
  BY FileNames DEF ScriptInvariant, FileInvariant
<1>7. ASSUME NEW i \in 1..11
      PROVE  -runs' <= files[Files[i]] /\ files[Files[i]] <= runs'
  <2>1. PICK f \in Int, r \in Nat : f = files[Files[i]] /\ r = runs
    BY <1>2, <1>6
  <2>2. -r <= f /\ f <= r
    BY <2>1 DEF ScriptInvariant, FileInvariant
  <2>3. -(r + 1) <= f /\ f <= r + 1
    BY <2>2
  <2> QED
    BY <1>1, <2>1, <2>3
<1>8. FilesInOrder'
  <2>1. ASSUME NEW j \in 1..11 PROVE files[Files[j]] # runs'
    <3>1. files[Files[j]] \in Int /\ files[Files[j]] <= runs
      BY <1>6 DEF ScriptInvariant, FileInvariant
    <3> QED
      BY <1>1, <1>2, <3>1
  <2> QED
    BY <1>1, <2>1, FilesAre DEF ScriptInvariant, FileInvariant, FilesInOrder
<1>9. FileInvariant'
  BY <1>1, <1>2, <1>7, <1>8 DEF ScriptInvariant, FileInvariant
<1> QED
  BY <1>3, <1>5, <1>9 DEF ScriptInvariant

\* The summaries tell of the catalog and the requirement alone.
LEMMA SameSummaries ==
  ASSUME UNCHANGED <<catalog, req>>
  PROVE  \A p : Rows(p)' = Rows(p) /\ Summary(p)' = Summary(p)
<1>1. \A d, p : Feasible(d, p)' <=> Feasible(d, p)
  BY DEF Feasible, WithinPower
<1>2. \A d : SimulationOk(d)' = SimulationOk(d)
  BY DEF SimulationOk
<1>3. \A d, p : Row(d, p)' = Row(d, p)
  BY <1>2 DEF Row, RowOf, CasePhysics
<1>4. \A p : Rows(p)' = Rows(p)
  BY <1>1, <1>3 DEF Rows
<1>5. \A row, type : PassesCheck(row, type)' = PassesCheck(row, type)
  BY DEF PassesCheck
<1>6. \A p : Summary(p)' = Summary(p)
  BY <1>4, <1>5 DEF Summary, Summarized
<1> QED
  BY <1>4, <1>6

LEMMA HeldStays ==
  ASSUME HeldInvariant, UNCHANGED <<catalog, req, summaries>>
  PROVE  HeldInvariant'
<1>1. /\ Summary(PowerA)' = Summary(PowerA) /\ Summary(PowerB)' = Summary(PowerB)
      /\ \A k : /\ Summary(Power(Cases[k]))' = Summary(Power(Cases[k]))
                /\ Rows(Power(Cases[k]))' = Rows(Power(Cases[k]))
  BY SameSummaries
<1> QED
  BY <1>1 DEF HeldInvariant

\* The script holds one case more, and goes on with its first file.
LEMMA RunCaseKeeps ==
  ASSUME ScriptInvariant, RunCase
  PROVE  ScriptInvariant'
<1> DEFINE n == Len(summaries)
           held == {Summary(PowerA), Summary(PowerB)}
<1>1. PICK k \in {0, 1} : k = n
  <2>1. n = 0 \/ n = 1
    <3>1. pc = "case"
      BY DEF RunCase
    <3>2. n <= 1
      BY <3>1, FilesDiffer DEF ScriptInvariant, PlaceInvariant
    <3>3. summaries \in Seq(held)
      BY DEF ScriptInvariant, HeldInvariant
    <3>4. n \in Nat
      BY <3>3, LenProperties
    <3> HIDE DEF n
    <3> QED
      BY <3>2, <3>4
  <2> QED
    BY <2>1
<1>2. /\ summaries' = Append(summaries, Summary(Power(Cases[k + 1])))
      /\ pc' = Files[3 * k + 1]
      /\ DOMAIN Rows(Power(Cases[k + 1])) # {}
      /\ UNCHANGED <<catalog, req, files, runs>>
  BY <1>1 DEF RunCase
<1>3. WrittenUpTo(3 * k) /\ runs >= 1
  <2>1. pc = "case"
    BY DEF RunCase
  <2> QED
    BY <1>1, <2>1, FilesDiffer DEF ScriptInvariant, PlaceInvariant
<1>4. Summary(Power(Cases[k + 1])) \in held
  BY DEF Power
<1>5. summaries \in Seq(held)
  BY DEF ScriptInvariant, HeldInvariant
<1> HIDE DEF held
<1>6. /\ summaries' \in Seq(held) /\ Len(summaries') = k + 1
      /\ \A i \in 1..k : summaries'[i] = summaries[i]
      /\ summaries'[k + 1] = Summary(Power(Cases[k + 1]))
  BY <1>1, <1>2, <1>4, <1>5, AppendProperties
<1>7. /\ Summary(PowerA)' = Summary(PowerA) /\ Summary(PowerB)' = Summary(PowerB)
      /\ \A i : /\ Summary(Power(Cases[i]))' = Summary(Power(Cases[i]))
                /\ Rows(Power(Cases[i]))' = Rows(Power(Cases[i]))
  BY <1>2, SameSummaries
<1>8. HeldInvariant'
  <2>1. \A i \in 1..k : /\ summaries[i] = Summary(Power(Cases[i]))
                        /\ DOMAIN Rows(Power(Cases[i])) # {}
    BY <1>1 DEF ScriptInvariant, HeldInvariant
  <2>2. \A i \in 1..(k + 1) : /\ summaries'[i] = Summary(Power(Cases[i]))
                              /\ DOMAIN Rows(Power(Cases[i])) # {}
    BY <1>1, <1>2, <1>6, <2>1
  <2> QED
    BY <1>6, <1>7, <2>2 DEF HeldInvariant, held
<1>9. PlaceInvariant'
  <2>1. WrittenUpTo(3 * k)'
    BY <1>2, <1>3 DEF WrittenUpTo
  <2>2. 3 * k + 1 \in 1..11 /\ (3 * k + 1) - 1 = 3 * k /\ k + 1 = IF 3 * k + 1 <= 3 THEN 1 ELSE 2
    BY <1>1
  <2> QED
    BY <1>2, <1>3, <1>6, <2>1, <2>2 DEF PlaceInvariant
<1>10. FileInvariant'
  BY <1>2 DEF ScriptInvariant, FileInvariant, FilesInOrder
<1> QED
  BY <1>8, <1>9, <1>10 DEF ScriptInvariant

\* A file complete: the run has written one more.
LEMMA WriteFileKeeps ==
  ASSUME ScriptInvariant, WriteFile
  PROVE  ScriptInvariant'
<1>1. PICK p \in 1..11 : /\ pc = Files[p] /\ runs >= 1
                         /\ Len(summaries) = IF p <= 3 THEN 1 ELSE 2
                         /\ WrittenUpTo(p - 1)
  BY PlaceOf, FilesDiffer DEF WriteFile, ScriptInvariant, PlaceInvariant
<1>2. /\ files' = [files EXCEPT ![Files[p]] = runs]
      /\ pc' = IF p = 3 THEN "case" ELSE IF p = 11 THEN "done" ELSE Files[p + 1]
      /\ UNCHANGED <<catalog, req, summaries, runs>>
  BY <1>1, AfterIs DEF WriteFile
<1>3. HeldInvariant'
  BY <1>2, HeldStays DEF ScriptInvariant
<1>4. FileInvariant'
  BY <1>1, <1>2, OneWriteInOrder DEF ScriptInvariant
<1>5. WrittenUpTo(p)'
  <2>1. \A i \in 1..11 : files'[Files[i]] = IF i = p THEN runs ELSE files[Files[i]]
    BY <1>2, FilesDiffer, FileNames DEF ScriptInvariant, FileInvariant
  <2>2. /\ \A i \in 1..p : i \in 1..11 /\ (i = p \/ i \in 1..(p - 1))
        /\ \A i \in 1..11 : i > p => i # p /\ i > p - 1
    OBVIOUS
  <2> QED
    BY <1>1, <1>2, <2>1, <2>2 DEF WrittenUpTo
<1>6. PlaceInvariant'
  <2>1. CASE p = 3
    <3>1. pc' = "case" /\ Len(summaries') = 1 /\ 3 * 1 = 3 /\ runs' >= 1
      BY <1>1, <1>2, <2>1
    <3>2. WrittenUpTo(3)'
      BY <1>5, <2>1
    <3> QED
      BY <3>1, <3>2 DEF PlaceInvariant
  <2>2. CASE p = 11
    BY <1>2, <2>2 DEF PlaceInvariant
  <2>3. CASE p # 3 /\ p # 11
    <3>1. p + 1 \in 1..11 /\ (p + 1) - 1 = p /\ (p + 1 <= 3 <=> p <= 3)
      BY <2>3
    <3> QED
      BY <1>1, <1>2, <1>5, <2>3, <3>1 DEF PlaceInvariant
  <2> QED
    BY <2>1, <2>2, <2>3
<1> QED
  BY <1>3, <1>4, <1>6 DEF ScriptInvariant

\* A death leaves at most the file that was being written torn.
LEMMA DieKeeps ==
  ASSUME ScriptInvariant, Die
  PROVE  ScriptInvariant'
<1>1. /\ pc' = "done" /\ summaries' = <<>> /\ UNCHANGED <<catalog, req, runs>>
      /\ \/ files' = files
         \/ \E f \in ToSet(Files) : f = pc /\ files' = [files EXCEPT ![f] = -runs]
  BY DEF Die
<1>2. HeldInvariant' /\ PlaceInvariant'
  BY <1>1 DEF HeldInvariant, PlaceInvariant
<1>3. CASE files' = files
  BY <1>1, <1>2, <1>3 DEF ScriptInvariant, FileInvariant, FilesInOrder
<1>4. CASE \E f \in ToSet(Files) : f = pc /\ files' = [files EXCEPT ![f] = -runs]
  <2>1. PICK p \in 1..11 : pc = Files[p] /\ runs >= 1 /\ WrittenUpTo(p - 1)
    BY <1>4, PlaceOf, FilesDiffer DEF ScriptInvariant, PlaceInvariant
  <2>2. files' = [files EXCEPT ![Files[p]] = -runs]
    BY <1>4, <2>1
  <2> QED
    BY <1>1, <1>2, <2>1, <2>2, OneWriteInOrder DEF ScriptInvariant
<1> QED
  BY <1>1, <1>3, <1>4

LEMMA AlwaysScript == Spec => []ScriptInvariant
<1>1. ASSUME Init PROVE ScriptInvariant
  <2>1. \A i \in 1..11 : files[Files[i]] = 0
    BY <1>1, FileNames DEF Init
  <2>2. FileInvariant
    BY <1>1, <2>1, FilesAre, ExportAssumption DEF Init, FileInvariant, FilesInOrder
  <2> QED
    BY <1>1, <2>2 DEF Init, ScriptInvariant, HeldInvariant, PlaceInvariant
<1>2. ASSUME ScriptInvariant, [Next]_vars PROVE ScriptInvariant'
  <2>1. CASE NoCandidate
    BY <1>2, <2>1 DEF NoCandidate, ScriptInvariant, HeldInvariant, PlaceInvariant, FileInvariant,
                      FilesInOrder
  <2>2. CASE UNCHANGED vars
    BY <1>2, <2>2, HeldStays DEF vars, ScriptInvariant, PlaceInvariant, WrittenUpTo, FileInvariant,
                                 FilesInOrder
  <2> QED
    BY <1>2, <2>1, <2>2, StartKeeps, RunCaseKeeps, WriteFileKeeps, DieKeeps DEF Next
<1> QED
  BY <1>1, <1>2, PTL DEF Spec

\* PhysicsExport.FilesInOrder: whatever kills the script and however often it
\* starts again, no file on the disk is of an older run than one that comes after
\* it in the order of writing, and those before a file of the latest run are
\* whole and of the latest run too.
THEOREM FilesStayInOrder == Spec => []FilesInOrder
<1>1. ScriptInvariant => FilesInOrder
  BY DEF ScriptInvariant, FileInvariant
<1> QED
  BY <1>1, AlwaysScript, PTL

-----------------------------------------------------------------------------
(***************************************************************************)
(* What the checks say                                                     *)
(***************************************************************************)
\* The headroom of the drivetrain and the margin of the motion profile are
\* negative for the same designs: those slower than the requirement.
LEMMA SlowIsSlow ==
  ASSUME NEW d, DesignTyped(d), NEW r, RequirementTyped(r)
  PROVE  /\ SpeedHeadroom(d, r) \in Int
         /\ SpeedHeadroom(d, r) < 0 <=> d.speed < r.speed
         /\ ((d.speed - r.speed) * 100) \div Max({1, d.speed}) \in Int
         /\ ((d.speed - r.speed) * 100) \div Max({1, d.speed}) < 0 <=> d.speed < r.speed
<1>1. PICK s, t \in Nat : s = d.speed /\ t = r.speed
  BY DEF DesignTyped, RequirementTyped
<1>2. (s - t) * 100 \in Int /\ ((s - t) * 100 < 0 <=> s < t)
  BY <1>1
<1>3. PICK m \in Nat \ {0} : m = Max({1, s})
  BY MaxOfTwo
<1>4. ((s - t) * 100) \div m \in Int /\ (((s - t) * 100) \div m < 0 <=> s < t)
  BY <1>2, QuotientSign
<1>5. CASE t > 0
  <2>1. ((s - t) * 100) \div t \in Int /\ (((s - t) * 100) \div t < 0 <=> s < t)
    BY <1>2, <1>5, QuotientSign
  <2> QED
    BY <1>1, <1>3, <1>4, <1>5, <2>1 DEF SpeedHeadroom
<1>6. CASE t = 0
  BY <1>1, <1>3, <1>4, <1>6 DEF SpeedHeadroom
<1> QED
  BY <1>5, <1>6

\* The controls fail exactly for a design that is too slow or too weak, with one
\* of two warnings.
LEMMA ControlsAre ==
  ASSUME NEW d, DesignTyped(d), NEW r, RequirementTyped(r)
  PROVE  /\ Controls(d, r).name = "controls"
         /\ ~Controls(d, r).passed <=> HasHigh(Controls(d, r).warnings)
         /\ HasHigh(Controls(d, r).warnings) <=> d.speed < r.speed \/ d.torque < 0
         /\ HasHigh(Controls(d, r).warnings) =>
              \E w \in Controls(d, r).warnings :
                w.code \in {"PHYS_CONTROL_MOTION_PROFILE_INFEASIBLE", "PHYS_CONTROL_TORQUE_SPEED_INVALID"}
<1> DEFINE profile == ((d.speed - r.speed) * 100) \div Max({1, d.speed})
           warnings == Warn(profile < 0, "PHYS_CONTROL_MOTION_PROFILE_INFEASIBLE", "high")
                       \union Warn(profile \in 0..4, "PHYS_CONTROL_MOTION_PROFILE_TIGHT", "medium")
                       \union Warn(d.torque < 0, "PHYS_CONTROL_TORQUE_SPEED_INVALID", "high")
                       \union Warn(DutyAbove(r, 90), "PHYS_CONTROL_HIGH_DUTY_CYCLE", "medium")
<1>1. /\ Controls(d, r).name = "controls" /\ Controls(d, r).warnings = warnings
      /\ Controls(d, r).passed = ~HasHigh(warnings)
  BY DEF Controls, Check
<1>2. profile < 0 <=> d.speed < r.speed
  BY SlowIsSlow
<1> HIDE DEF profile
<1>3. /\ profile < 0 => [code |-> "PHYS_CONTROL_MOTION_PROFILE_INFEASIBLE", severity |-> "high"] \in warnings
      /\ d.torque < 0 => [code |-> "PHYS_CONTROL_TORQUE_SPEED_INVALID", severity |-> "high"] \in warnings
  BY DEF Warn
<1>4. ASSUME NEW w \in warnings, w.severity = "high"
      PROVE  profile < 0 \/ d.torque < 0
  BY <1>4 DEF Warn
<1> HIDE DEF warnings
<1>5. HasHigh(warnings) <=> profile < 0 \/ d.torque < 0
  BY <1>3, <1>4 DEF HasHigh
<1> QED
  BY <1>1, <1>2, <1>3, <1>5

\* The drivetrain fails by a warning of its own or for what the controls warn of.
LEMMA DrivetrainIs ==
  ASSUME NEW d, DesignTyped(d), NEW r, RequirementTyped(r)
  PROVE  /\ Drivetrain(d, r).name = "drivetrain"
         /\ ~Drivetrain(d, r).passed <=>
              HasHigh(Drivetrain(d, r).warnings) \/ d.speed < r.speed \/ d.torque < 0
<1>1. /\ Drivetrain(d, r).name = "drivetrain"
      /\ Drivetrain(d, r).passed =
           (SpeedHeadroom(d, r) >= 0 /\ d.torque >= 0 /\ ~HasHigh(Drivetrain(d, r).warnings))
  BY DEF Drivetrain, Check
<1>2. d.torque \in Int /\ SpeedHeadroom(d, r) \in Int /\ (SpeedHeadroom(d, r) < 0 <=> d.speed < r.speed)
  BY SlowIsSlow DEF DesignTyped
<1>3. (SpeedHeadroom(d, r) >= 0 <=> ~(d.speed < r.speed)) /\ (d.torque >= 0 <=> ~(d.torque < 0))
  BY <1>2
<1> QED
  BY <1>1, <1>3

\* The other two checks fail by their warnings alone.
LEMMA OthersAre ==
  ASSUME NEW d, NEW r
  PROVE  /\ Thermal(d, r).name = "thermal" /\ Structural(d, r).name = "structural"
         /\ ~Thermal(d, r).passed <=> HasHigh(Thermal(d, r).warnings)
         /\ ~Structural(d, r).passed <=> HasHigh(Structural(d, r).warnings)
BY DEF Thermal, ThermalCheck, Structural, BeamCheck, Check

ChecksOf(d, r) == {Drivetrain(d, r), Thermal(d, r), Structural(d, r), Controls(d, r)}

LEMMA MergedIs ==
  ASSUME NEW checks, NEW p, p = MergeChecks(checks)
  PROVE  /\ p.checks = checks
         /\ p.status = "fail" <=> \E c \in checks : ~c.passed
         /\ p.flags \subseteq p.warnings
         /\ \A c \in checks : /\ c.warnings \subseteq p.warnings
                              /\ HasHigh(c.warnings) => p.flags # {}
<1>1. /\ p.checks = checks /\ p.warnings = UNION {c.warnings : c \in checks}
      /\ p.flags = RiskFlags(p.warnings)
      /\ p.status = "fail" <=> \E c \in checks : ~c.passed
  BY DEF MergeChecks, Merged
<1>2. p.flags \subseteq p.warnings
  BY <1>1 DEF RiskFlags
<1>3. ASSUME NEW c \in checks
      PROVE  c.warnings \subseteq p.warnings /\ (HasHigh(c.warnings) => p.flags # {})
  <2>1. c.warnings \subseteq p.warnings
    BY <1>1
  <2>2. ASSUME NEW w \in c.warnings, w.severity = "high" PROVE w \in p.flags
    BY <1>1, <2>1, <2>2 DEF RiskFlags
  <2> QED
    BY <2>1, <2>2 DEF HasHigh
<1> QED
  BY <1>1, <1>2, <1>3

\* A verdict of "fail" comes with a flag, and the controls never fail alone.
LEMMA VerdictIs ==
  ASSUME NEW d, DesignTyped(d), NEW r, RequirementTyped(r)
  PROVE  LET p == Evaluate(d, r)
         IN /\ p.status = "fail" => p.flags # {}
            /\ p.flags \subseteq p.warnings
            /\ p.status = "fail" <=> \E c \in p.checks : ~c.passed
            /\ ~Controls(d, r).passed => ~Drivetrain(d, r).passed
<1>1. Evaluate(d, r) = MergeChecks(ChecksOf(d, r))
  BY DEF Evaluate, ChecksOf
<1>2. ASSUME NEW c \in ChecksOf(d, r), ~c.passed
      PROVE  \E k \in ChecksOf(d, r) : HasHigh(k.warnings)
  BY <1>2, ControlsAre, DrivetrainIs, OthersAre DEF ChecksOf
<1>3. ~Controls(d, r).passed => ~Drivetrain(d, r).passed
  BY ControlsAre, DrivetrainIs
<1> QED
  BY <1>1, <1>2, <1>3, MergedIs

\* The catalog and the requirement are of their types, and stay what they were.
CatalogInvariant ==
  /\ DOMAIN catalog = 1..2 /\ Len(catalog) = 2
  /\ \A i \in 1..2 : catalog[i] \in Designs
  /\ req \in Requirements

LEMMA AlwaysCatalog == Spec => []CatalogInvariant
<1>1. ASSUME Init PROVE CatalogInvariant
  <2>1. PICK d \in Designs, e \in Companions : catalog = <<d, e>>
    BY <1>1 DEF Init
  <2>2. e \in Designs
    BY ExportAssumption
  <2> QED
    BY <1>1, <2>1, <2>2 DEF Init, CatalogInvariant
<1>2. ASSUME CatalogInvariant, [Next]_vars PROVE CatalogInvariant'
  <2>1. UNCHANGED <<catalog, req>>
    BY <1>2 DEF Next, vars, Start, RunCase, NoCandidate, WriteFile, Die
  <2> QED
    BY <1>2, <2>1 DEF CatalogInvariant
<1> QED
  BY <1>1, <1>2, PTL DEF Spec

\* The designs of the catalog and the requirement are as the checks take them.
LEMMA Inputs ==
  ASSUME CatalogInvariant
  PROVE  /\ RequirementTyped(req) /\ \A i \in 1..2 : DesignTyped(catalog[i])
         /\ ToSet(catalog) = {catalog[i] : i \in 1..2}
BY ExportAssumption DEF CatalogInvariant, ToSet

\* For all designs and requirements: a reader who sees the verdict "fail" sees a
\* flag of it, and the controls fail only with the drivetrain (merge_physics_checks,
\* evaluate_controls, evaluate_drivetrain).
THEOREM VerdictsAlwaysAgree == Spec => []VerdictsAgree
<1>1. CatalogInvariant => VerdictsAgree
  <2> SUFFICES ASSUME CatalogInvariant, NEW d \in Designed
               PROVE  LET p == Evaluate(d, req)
                      IN /\ p.status = "fail" => p.flags # {}
                         /\ p.flags \subseteq p.warnings
                         /\ p.status = "fail" <=> \E c \in p.checks : ~c.passed
                         /\ ~Controls(d, req).passed => ~Drivetrain(d, req).passed
    BY DEF VerdictsAgree, FailureIsFlagged, ControlsFailWithDrivetrain
  <2>1. DesignTyped(d) /\ RequirementTyped(req)
    BY Inputs DEF Designed
  <2> QED
    BY <2>1, VerdictIs
<1> QED
  BY <1>1, AlwaysCatalog, PTL

-----------------------------------------------------------------------------
(***************************************************************************)
(* What the tables show                                                    *)
(***************************************************************************)
-----------------------------------------------------------------------------
(***************************************************************************)
(* The heat, taken apart: what it is made of depends on the design and the *)
(* required speed, and on the duty cycle only through its root             *)
(***************************************************************************)
SpeedRatioOf(d, v) == Min({150, (v * 100) \div Max({1, d.speed})})

OutputOf(d, v) == (d.demand * ((d.radians * SpeedRatioOf(d, v)) \div 100)) \div 1000

RatedLossOf(d, v) ==
  Max({(d.power * d.loss) \div 100, (OutputOf(d, v) * (100 - d.efficiency)) \div d.efficiency})

DriveOutputOf(d, v) == (OutputOf(d, v) * 100) \div d.efficiency

DriveFactorOf(d, v) ==
  ((DriveOutputOf(d, v) * (100 - d.driveEfficiency) * 1000) \div d.driveEfficiency + d.quiescent)

DriveMarginOf(d, v) == ((d.drivePower - DriveOutputOf(d, v)) * 100) \div d.drivePower

IntermittentOf(d) == ((d.intermittent - d.demand) * 100) \div d.intermittent

LoadOf(d, r) == (RmsTorque(d, r) * 100) \div d.continuous

ContinuousOf(d, r) == ((d.continuous - RmsTorque(d, r)) * 100) \div d.continuous

MotorLossOf(d, r) ==
  (RatedLossOf(d, r.speed) * 65 * LoadOf(d, r) * LoadOf(d, r)) \div 1000
    + (RatedLossOf(d, r.speed) * 35 * SpeedRatioOf(d, r.speed) * Duty(r)) \div 1000

DriveLossOf(d, r) == (DriveFactorOf(d, r.speed) * Duty(r)) \div 100

RiseOf(d, r) ==
  Max({MotorLossOf(d, r) * d.resistance, DriveLossOf(d, r) * d.driveResistance})

RiseMarginOf(d, r) == (Degrees(d.allowable) - RiseOf(d, r)) \div (1000 * d.allowable)

LEMMA ThermalIs ==
  ASSUME NEW d, NEW r
  PROVE  LET t == ThermalResponse(d, r)
         IN /\ t.rise = RiseOf(d, r)
            /\ t.drive = DriveMarginOf(d, r.speed)
            /\ t.margin = Min({ContinuousOf(d, r), IntermittentOf(d), RiseMarginOf(d, r),
                               DriveMarginOf(d, r.speed)})
            /\ t.margins = {ContinuousOf(d, r), IntermittentOf(d)}
BY DEF ThermalResponse, SpeedRatioOf, OutputOf, RatedLossOf, DriveOutputOf, DriveFactorOf,
       DriveMarginOf, IntermittentOf, LoadOf, ContinuousOf, MotorLossOf, DriveLossOf, RiseOf,
       RiseMarginOf

LEMMA CappedTyped ==
  ASSUME NEW a \in Nat
  PROVE  Min({150, a}) \in Nat
<1>1. 150 \in Int /\ a \in Int
  OBVIOUS
<1>2. Min({150, a}) \in {150, a}
  BY <1>1, MinOfTwo
<1> QED
  BY <1>2

\* Everything that heats is natural, every margin an integer.
LEMMA PartsTyped ==
  ASSUME NEW d, DesignTyped(d), NEW r, RequirementTyped(r)
  PROVE  /\ SpeedRatioOf(d, r.speed) \in Nat /\ RatedLossOf(d, r.speed) \in Nat
         /\ DriveFactorOf(d, r.speed) \in Nat
         /\ DriveMarginOf(d, r.speed) \in Int /\ IntermittentOf(d) \in Int
         /\ RmsTorque(d, r) \in Nat /\ Duty(r) \in Nat
<1>1. PICK speed, demand, radians, power, loss, quiescent, v \in Nat, eff, driveEff \in 1..100,
           intermittent, drivePower \in Nat \ {0}, root \in 0..100 :
        /\ d.speed = speed /\ d.demand = demand /\ d.radians = radians /\ d.power = power
        /\ d.loss = loss /\ d.quiescent = quiescent /\ d.efficiency = eff
        /\ d.driveEfficiency = driveEff /\ d.intermittent = intermittent
        /\ d.drivePower = drivePower /\ r.speed = v /\ r.root = root
  <2>1. {d.speed, d.demand, d.radians, d.power, d.loss, d.quiescent} \subseteq Nat
    BY DEF DesignTyped
  <2>2. /\ d.efficiency \in 1..100 /\ d.driveEfficiency \in 1..100
        /\ d.intermittent \in Nat \ {0} /\ d.drivePower \in Nat \ {0}
    BY DEF DesignTyped
  <2>3. r.speed \in Nat /\ r.root \in 0..100
    BY DEF RequirementTyped
  <2> QED
    BY <2>1, <2>2, <2>3
<1>2. PICK ratio \in Nat : ratio = SpeedRatioOf(d, r.speed)
  <2>1. PICK m \in Nat \ {0} : m = Max({1, speed})
    BY ONLY AtLeastOne, speed \in Nat
  <2>2. PICK q \in Nat : q = (v * 100) \div m
    BY QuotientTyped
  <2>3. Min({150, q}) \in Nat
    BY ONLY CappedTyped, q \in Nat
  <2> QED
    BY <1>1, <2>1, <2>2, <2>3 DEF SpeedRatioOf
<1>3. PICK output \in Nat : output = OutputOf(d, r.speed)
  <2>1. (radians * ratio) \div 100 \in Nat
    BY ProductTyped, QuotientTyped
  <2>2. (demand * ((radians * ratio) \div 100)) \div 1000 \in Nat
    BY <2>1, ProductTyped, QuotientTyped
  <2> QED
    BY <1>1, <1>2, <2>2 DEF OutputOf
<1>4. RatedLossOf(d, r.speed) \in Nat
  <2>1. PICK a \in Nat : a = (power * loss) \div 100
    BY ProductTyped, QuotientTyped
  <2>2. 100 - eff \in Nat /\ eff \in Nat \ {0}
    OBVIOUS
  <2>3. PICK b \in Nat : b = (output * (100 - eff)) \div eff
    BY <2>2, ProductTyped, QuotientTyped
  <2>4. Max({a, b}) \in Nat
    BY MaxOfTwo
  <2> QED
    BY <1>1, <1>3, <2>1, <2>3, <2>4 DEF RatedLossOf
<1>5. PICK driveOutput \in Nat : driveOutput = DriveOutputOf(d, r.speed)
  <2>1. (output * 100) \div eff \in Nat
    BY QuotientTyped
  <2> QED
    BY <1>1, <1>3, <2>1 DEF DriveOutputOf
<1>6. DriveFactorOf(d, r.speed) \in Nat
  <2>1. 100 - driveEff \in Nat /\ driveEff \in Nat \ {0}
    OBVIOUS
  <2>2. driveOutput * (100 - driveEff) * 1000 \in Nat
    BY <2>1, ProductTyped
  <2>3. (driveOutput * (100 - driveEff) * 1000) \div driveEff + quiescent \in Nat
    BY <2>1, <2>2, QuotientTyped
  <2> QED
    BY <1>1, <1>5, <2>3 DEF DriveFactorOf
<1>7. DriveMarginOf(d, r.speed) \in Int /\ IntermittentOf(d) \in Int
  <2>1. /\ ((drivePower - driveOutput) * 100) \div drivePower \in Int
        /\ ((intermittent - demand) * 100) \div intermittent \in Int
    BY QuotientSign
  <2> QED
    BY <1>1, <1>5, <2>1 DEF DriveMarginOf, IntermittentOf
<1>8. RmsTorque(d, r) \in Nat /\ Duty(r) \in Nat
  <2>1. root \in Nat
    OBVIOUS
  <2>2. (demand * root) \div 100 \in Nat /\ (root * root) \div 100 \in Nat
    BY <2>1, ProductTyped, QuotientTyped
  <2> QED
    BY <1>1, <2>2 DEF RmsTorque, Duty
<1> QED
  BY <1>2, <1>4, <1>6, <1>7, <1>8

\* A product grows with its first factor, a quotient with what is divided.
LEMMA ProductGrows ==
  ASSUME NEW a \in Nat, NEW b \in Nat, a <= b, NEW c \in Nat
  PROVE  a * c \in Nat /\ b * c \in Nat /\ a * c <= b * c
OBVIOUS

LEMMA QuotientGrows ==
  ASSUME NEW a \in Int, NEW b \in Int, a <= b, NEW c \in Nat \ {0}
  PROVE  a \div c \in Int /\ b \div c \in Int /\ a \div c <= b \div c
OBVIOUS

LEMMA MaxGrows ==
  ASSUME NEW a \in Int, NEW b \in Int, NEW c \in Int, NEW e \in Int, a <= c, b <= e
  PROVE  Max({a, b}) \in Int /\ Max({c, e}) \in Int /\ Max({a, b}) <= Max({c, e})
<1>1. PICK m, n \in Int : m = Max({a, b}) /\ n = Max({c, e})
  BY MaxOfTwo
<1>2. (m = a \/ m = b) /\ n >= c /\ n >= e
  BY <1>1, MaxOfTwo
<1> QED
  BY <1>1, <1>2

\* With the duty cycle grow the RMS torque and the load it puts on the motor,
\* and the time the losses last.
LEMMA DutyGrows ==
  ASSUME NEW d, DesignTyped(d), NEW r, RequirementTyped(r), NEW s, RequirementTyped(s),
         r.root <= s.root
  PROVE  /\ RmsTorque(d, r) <= RmsTorque(d, s) /\ Duty(r) <= Duty(s)
         /\ LoadOf(d, r) \in Nat /\ LoadOf(d, s) \in Nat /\ LoadOf(d, r) <= LoadOf(d, s)
<1>1. PICK demand \in Nat, continuous \in Nat \ {0}, q, t \in Nat :
        d.demand = demand /\ d.continuous = continuous /\ r.root = q /\ s.root = t /\ q <= t
  <2>1. d.demand \in Nat /\ d.continuous \in Nat \ {0}
    BY DEF DesignTyped
  <2>2. r.root \in Nat /\ s.root \in Nat
    BY DEF RequirementTyped
  <2> QED
    BY <2>1, <2>2
<1>2. demand * q <= demand * t /\ q * q <= t * t
  <2>1. q * demand <= t * demand /\ q * q <= t * q /\ q * t <= t * t
    BY <1>1, ProductGrows
  <2> QED
    BY <2>1
<1>3. PICK low, high \in Nat : low = (demand * q) \div 100 /\ high = (demand * t) \div 100
  BY ProductTyped, QuotientTyped
<1>4. low <= high /\ (q * q) \div 100 <= (t * t) \div 100
  BY <1>2, <1>3, ProductTyped, QuotientGrows
<1>5. /\ (low * 100) \div continuous \in Nat /\ (high * 100) \div continuous \in Nat
      /\ (low * 100) \div continuous <= (high * 100) \div continuous
  <2>1. low * 100 <= high * 100
    BY <1>4
  <2> QED
    BY <2>1, QuotientTyped, QuotientGrows
<1> QED
  BY <1>1, <1>3, <1>4, <1>5 DEF RmsTorque, Duty, LoadOf

LEMMA LossesGrow ==
  ASSUME NEW d, DesignTyped(d), NEW r, RequirementTyped(r), NEW s, RequirementTyped(s),
         r.root <= s.root, r.speed = s.speed
  PROVE  /\ MotorLossOf(d, r) \in Nat /\ MotorLossOf(d, s) \in Nat
         /\ MotorLossOf(d, r) <= MotorLossOf(d, s)
         /\ DriveLossOf(d, r) \in Nat /\ DriveLossOf(d, s) \in Nat
         /\ DriveLossOf(d, r) <= DriveLossOf(d, s)
<1>1. PICK rated, ratio, factor, x, y, p, q \in Nat :
        /\ rated = RatedLossOf(d, r.speed) /\ ratio = SpeedRatioOf(d, r.speed)
        /\ factor = DriveFactorOf(d, r.speed)
        /\ x = LoadOf(d, r) /\ y = LoadOf(d, s) /\ p = Duty(r) /\ q = Duty(s)
  BY PartsTyped, DutyGrows
<1>2. x <= y /\ p <= q
  BY <1>1, DutyGrows
<1>3. /\ rated * 65 * x * x \in Nat /\ rated * 65 * y * y \in Nat
      /\ rated * 65 * x * x <= rated * 65 * y * y
  <2>1. PICK k \in Nat : k = rated * 65
    BY ProductTyped
  <2>2. PICK m, n \in Nat : m = k * x /\ n = k * y
    BY ProductTyped
  <2>3. m <= n
    BY <1>2, <2>2, ProductGrows
  <2>4. m * x <= n * x /\ n * x <= n * y /\ m * x \in Nat /\ n * x \in Nat /\ n * y \in Nat
    BY <1>2, <2>3, ProductGrows, ProductTyped
  <2> QED
    BY <2>1, <2>2, <2>4
<1>4. /\ rated * 35 * ratio * p \in Nat /\ rated * 35 * ratio * q \in Nat
      /\ rated * 35 * ratio * p <= rated * 35 * ratio * q
  <2>1. PICK k \in Nat : k = rated * 35 * ratio
    BY ProductTyped
  <2>2. k * p \in Nat /\ k * q \in Nat /\ k * p <= k * q
    BY <1>2, ProductGrows
  <2> QED
    BY <2>1, <2>2
<1>5. factor * p \in Nat /\ factor * q \in Nat /\ factor * p <= factor * q
  BY <1>2, ProductGrows
<1>6. PICK a, b, e, f \in Nat :
        /\ a = (rated * 65 * x * x) \div 1000 /\ b = (rated * 65 * y * y) \div 1000
        /\ e = (rated * 35 * ratio * p) \div 1000 /\ f = (rated * 35 * ratio * q) \div 1000
        /\ a <= b /\ e <= f
  BY <1>3, <1>4, QuotientTyped, QuotientGrows
<1>7. MotorLossOf(d, r) = a + e /\ MotorLossOf(d, s) = b + f
  BY <1>1, <1>6 DEF MotorLossOf
<1>8. /\ DriveLossOf(d, r) = (factor * p) \div 100 /\ DriveLossOf(d, s) = (factor * q) \div 100
  BY <1>1 DEF DriveLossOf
<1>9. /\ (factor * p) \div 100 \in Nat /\ (factor * q) \div 100 \in Nat
      /\ (factor * p) \div 100 <= (factor * q) \div 100
  BY <1>5, QuotientTyped, QuotientGrows
<1> QED
  BY <1>6, <1>7, <1>8, <1>9

\* A longer duty cycle heats more, and leaves less of every margin.
LEMMA HeatGrows ==
  ASSUME NEW d, DesignTyped(d), NEW r, RequirementTyped(r), NEW s, RequirementTyped(s),
         r.root <= s.root, r.speed = s.speed
  PROVE  LET now == ThermalResponse(d, r)
             longer == ThermalResponse(d, s)
         IN longer.margin <= now.margin /\ longer.rise >= now.rise
<1>1. PICK rise, hotter \in Int : rise = RiseOf(d, r) /\ hotter = RiseOf(d, s) /\ rise <= hotter
  <2>1. PICK a, b, e, f, resistance, driveResistance \in Nat :
          /\ a = MotorLossOf(d, r) /\ b = MotorLossOf(d, s) /\ a <= b
          /\ e = DriveLossOf(d, r) /\ f = DriveLossOf(d, s) /\ e <= f
          /\ resistance = d.resistance /\ driveResistance = d.driveResistance
    BY LossesGrow DEF DesignTyped
  <2>3. PICK h, i \in Nat : h = a * resistance /\ i = b * resistance /\ h <= i
    BY <2>1, ProductGrows
  <2>4. PICK j, k \in Nat : j = e * driveResistance /\ k = f * driveResistance /\ j <= k
    BY <2>1, ProductGrows
  <2>5. PICK x, y \in Int : x = Max({h, j}) /\ y = Max({i, k}) /\ x <= y
    <3>1. h \in Int /\ i \in Int /\ j \in Int /\ k \in Int /\ h <= i /\ j <= k
      BY <2>3, <2>4
    <3> QED
      BY <3>1, MaxGrows
  <2> QED
    BY <2>1, <2>3, <2>4, <2>5 DEF RiseOf
<1>2. PICK c, lessC \in Int : c = ContinuousOf(d, r) /\ lessC = ContinuousOf(d, s) /\ lessC <= c
  <2>1. PICK continuous \in Nat \ {0}, x, y \in Nat :
          continuous = d.continuous /\ x = RmsTorque(d, r) /\ y = RmsTorque(d, s) /\ x <= y
    BY PartsTyped, DutyGrows DEF DesignTyped
  <2>2. (continuous - y) * 100 <= (continuous - x) * 100
    BY <2>1
  <2>3. /\ ((continuous - y) * 100) \div continuous \in Int
        /\ ((continuous - x) * 100) \div continuous \in Int
        /\ ((continuous - y) * 100) \div continuous <= ((continuous - x) * 100) \div continuous
    BY <2>2, QuotientGrows
  <2> QED
    BY <2>1, <2>3 DEF ContinuousOf
<1>3. PICK m, lessM \in Int : m = RiseMarginOf(d, r) /\ lessM = RiseMarginOf(d, s) /\ lessM <= m
  <2>1. PICK allowable \in Nat \ {0} : allowable = d.allowable
    BY DEF DesignTyped
  <2>2. PICK full \in Nat, scale \in Nat \ {0} : full = 100000 * allowable /\ scale = 1000 * allowable
    BY <2>1
  <2>3. /\ (full - hotter) \div scale \in Int /\ (full - rise) \div scale \in Int
        /\ (full - hotter) \div scale <= (full - rise) \div scale
    <3>1. full - hotter \in Int /\ full - rise \in Int /\ full - hotter <= full - rise
      BY <1>1, <2>2
    <3> QED
      BY <2>2, <3>1, QuotientGrows
  <2> QED
    BY <1>1, <2>1, <2>2, <2>3 DEF RiseMarginOf, Degrees
<1>4. PICK i, q \in Int : i = IntermittentOf(d) /\ q = DriveMarginOf(d, r.speed)
  BY PartsTyped
<1>5. PICK now, longer \in Int : now = Min({c, i, m, q}) /\ longer = Min({lessC, i, lessM, q})
  <2>1. Min({c, i, m, q}) \in {c, i, m, q} /\ Min({lessC, i, lessM, q}) \in {lessC, i, lessM, q}
    BY MinOfFour
  <2> QED
    BY <2>1
<1>6. longer <= now
  <2>1. longer <= lessC /\ longer <= i /\ longer <= lessM /\ longer <= q
    BY <1>5, MinOfFour
  <2>2. now = c \/ now = i \/ now = m \/ now = q
    <3>1. Min({c, i, m, q}) \in {c, i, m, q}
      BY MinOfFour
    <3> QED
      BY <1>5, <3>1
  <2> QED
    BY <1>2, <1>3, <2>1, <2>2
<1>7. /\ ThermalResponse(d, r).margin = now /\ ThermalResponse(d, s).margin = longer
      /\ ThermalResponse(d, r).rise = rise /\ ThermalResponse(d, s).rise = hotter
  BY <1>1, <1>2, <1>3, <1>4, <1>5, ThermalIs
<1> QED
  BY <1>1, <1>6, <1>7

\* For all designs and requirements, through every clamp and minimum of the
\* estimate: a longer duty cycle leaves no greater thermal margin and no lower
\* temperature rise (estimate_thermal_response).
THEOREM HeatAlwaysGrows == Spec => []HeatGrowsWithDuty
<1>1. CatalogInvariant => HeatGrowsWithDuty
  <2> SUFFICES ASSUME CatalogInvariant, NEW d \in Designed, NEW r \in Requirements,
                      r.root >= req.root
               PROVE  LET now == ThermalResponse(d, req)
                          longer == ThermalResponse(d, [req EXCEPT !.root = r.root])
                      IN longer.margin <= now.margin /\ longer.rise >= now.rise
    BY DEF HeatGrowsWithDuty
  <2>1. DesignTyped(d) /\ RequirementTyped(req) /\ RequirementTyped(r)
    BY Inputs, ExportAssumption DEF Designed
  <2>2. PICK s : s = [req EXCEPT !.root = r.root]
    OBVIOUS
  <2>3. RequirementTyped(s) /\ s.speed = req.speed /\ s.root = r.root
    BY <2>1, <2>2 DEF RequirementTyped
  <2>4. req.root <= s.root
    BY <2>1, <2>3 DEF RequirementTyped
  <2> QED
    BY <2>1, <2>2, <2>3, <2>4, HeatGrows
<1> QED
  BY <1>1, AlwaysCatalog, PTL

-----------------------------------------------------------------------------
(***************************************************************************)
(* The rows and the tables                                                 *)
(***************************************************************************)
LEMMA CodesAre ==
  /\ {"PHYS_THERMAL_TEMP_RISE_HIGH", "risk_thermal_margin_low"} \subseteq TableCodes("thermal")
  /\ {"PHYS_CONTROL_MOTION_PROFILE_INFEASIBLE", "PHYS_CONTROL_TORQUE_SPEED_INVALID"}
       \subseteq TableCodes("controls")
BY DEF TableCodes

\* The thermal margin is the least of four, the one of the drive among them.
LEMMA ThermalTyped ==
  ASSUME NEW d, DesignTyped(d), NEW r, RequirementTyped(r), NEW t, t = ThermalResponse(d, r)
  PROVE  t.rise \in Int /\ t.margin \in Int /\ t.drive \in Int /\ t.margin <= t.drive
<1>1. PICK rise \in Int : rise = RiseOf(d, r)
  <2>1. PICK a, e, resistance, driveResistance \in Nat :
          /\ a = MotorLossOf(d, r) /\ e = DriveLossOf(d, r)
          /\ resistance = d.resistance /\ driveResistance = d.driveResistance
    <3>1. r.root <= r.root
      BY DEF RequirementTyped
    <3> QED
      BY <3>1, LossesGrow DEF DesignTyped
  <2>2. PICK h, j \in Nat : h = a * resistance /\ j = e * driveResistance
    BY ProductTyped
  <2>3. Max({h, j}) \in Int
    <3>1. h \in Int /\ j \in Int /\ h <= h /\ j <= j
      OBVIOUS
    <3> QED
      BY <3>1, MaxGrows
  <2> QED
    BY <2>1, <2>2, <2>3 DEF RiseOf
<1>2. PICK c \in Int : c = ContinuousOf(d, r)
  <2>1. PICK continuous \in Nat \ {0}, x \in Nat : continuous = d.continuous /\ x = RmsTorque(d, r)
    BY PartsTyped DEF DesignTyped
  <2>2. ((continuous - x) * 100) \div continuous \in Int
    BY QuotientSign
  <2> QED
    BY <2>1, <2>2 DEF ContinuousOf
<1>3. PICK m \in Int : m = RiseMarginOf(d, r)
  <2>1. PICK allowable \in Nat \ {0} : allowable = d.allowable
    BY DEF DesignTyped
  <2>2. PICK full \in Nat, scale \in Nat \ {0} : full = 100000 * allowable /\ scale = 1000 * allowable
    BY <2>1
  <2>3. (full - rise) \div scale \in Int
    BY QuotientSign
  <2> QED
    BY <1>1, <2>1, <2>2, <2>3 DEF RiseMarginOf, Degrees
<1>4. PICK i, q \in Int : i = IntermittentOf(d) /\ q = DriveMarginOf(d, r.speed)
  BY PartsTyped
<1>5. PICK least \in Int : least = Min({c, i, m, q}) /\ least <= q
  <2>1. Min({c, i, m, q}) \in {c, i, m, q} /\ Min({c, i, m, q}) <= q
    BY MinOfFour
  <2> QED
    BY <2>1
<1> QED
  BY <1>1, <1>2, <1>3, <1>4, <1>5, ThermalIs

\* The heat fails with one of two warnings: a drive over its power is one case of
\* a thermal margin below zero.
LEMMA ThermalFails ==
  ASSUME NEW d, DesignTyped(d), NEW r, RequirementTyped(r), HasHigh(Thermal(d, r).warnings)
  PROVE  \E w \in Thermal(d, r).warnings :
           w.code \in {"PHYS_THERMAL_TEMP_RISE_HIGH", "risk_thermal_margin_low"}
<1>1. PICK t : t = ThermalResponse(d, r)
  OBVIOUS
<1>2. t.rise \in Int /\ t.margin \in Int /\ t.drive \in Int /\ t.margin <= t.drive
  BY <1>1, ThermalTyped
<1> DEFINE grade == IF t.margin < 0 THEN "high" ELSE "medium"
           driven == IF t.drive < 0 THEN "high" ELSE "medium"
           warnings == Warn(t.rise > Degrees(55), "PHYS_THERMAL_TEMP_RISE_HIGH", "high")
             \union Warn(t.rise > Degrees(45) /\ t.rise <= Degrees(55), "risk_thermal_temp_rise_near_limit", "medium")
             \union Warn(t.margin < 10, "risk_thermal_margin_low", grade)
             \union Warn(t.margin \in 10..19, "risk_thermal_margin_near_limit", "medium")
             \union Warn(t.drive < 5, "risk_drive_thermal_power_margin_low", driven)
<1>3. Thermal(d, r).warnings = warnings
  BY <1>1 DEF Thermal, ThermalCheck, Check
<1>4. PICK w \in warnings : w.severity = "high"
  BY <1>3 DEF HasHigh
<1>5. CASE w \in Warn(t.rise > Degrees(55), "PHYS_THERMAL_TEMP_RISE_HIGH", "high")
  <2>1. w.code = "PHYS_THERMAL_TEMP_RISE_HIGH"
    BY <1>5 DEF Warn
  <2> QED
    BY <1>3, <2>1
<1>6. CASE w \in Warn(t.margin < 10, "risk_thermal_margin_low", grade)
  <2>1. w.code = "risk_thermal_margin_low"
    BY <1>6 DEF Warn
  <2> QED
    BY <1>3, <2>1
<1>7. CASE w \in Warn(t.drive < 5, "risk_drive_thermal_power_margin_low", driven)
  <2>1. t.drive < 0
    BY <1>4, <1>7 DEF Warn
  <2>2. t.margin < 10
    BY <1>2, <2>1
  <2>3. [code |-> "risk_thermal_margin_low", severity |-> grade] \in warnings
    BY <2>2 DEF Warn
  <2> HIDE DEF warnings, grade
  <2> QED
    BY <1>3, <2>3
<1>8. CASE w \in Warn(t.rise > Degrees(45) /\ t.rise <= Degrees(55), "risk_thermal_temp_rise_near_limit", "medium")
              \union Warn(t.margin \in 10..19, "risk_thermal_margin_near_limit", "medium")
  BY <1>4, <1>8 DEF Warn
<1> QED
  BY <1>4, <1>5, <1>6, <1>7, <1>8

\* A row tells of a design of the catalog.
LEMMA RowIs ==
  ASSUME CatalogInvariant, NEW power, NEW i \in DOMAIN Rows(power)
  PROVE  /\ i \in 1..2 /\ Feasible(catalog[i], power)
         /\ Rows(power)[i] = RowOf(catalog[i], Evaluate(catalog[i], req))
BY DEF Rows, Row, CasePhysics, CatalogInvariant

\* A failed check of the heat or of the controls leaves a code of its table among
\* the warnings of the row.
LEMMA FailureHasCode ==
  ASSUME NEW d, DesignTyped(d), RequirementTyped(req), NEW row,
         row = RowOf(d, Evaluate(d, req)),
         NEW type \in row.failed \intersect {"thermal", "controls"}
  PROVE  \E w \in row.warnings : w.code \in TableCodes(type)
<1>1. PICK p : p = Evaluate(d, req) /\ p = MergeChecks(ChecksOf(d, req))
  BY DEF Evaluate, ChecksOf
<1>2. row.failed = {c.name : c \in {k \in p.checks : ~k.passed}} /\ row.warnings = p.warnings
  BY <1>1 DEF RowOf
<1>3. p.checks = ChecksOf(d, req) /\ \A c \in ChecksOf(d, req) : c.warnings \subseteq p.warnings
  BY <1>1, MergedIs
<1>4. PICK c \in ChecksOf(d, req) : ~c.passed /\ c.name = type
  BY <1>2, <1>3
<1>5. CASE type = "thermal"
  <2>1. c = Thermal(d, req)
    BY <1>4, <1>5, ControlsAre, DrivetrainIs, OthersAre DEF ChecksOf
  <2>2. PICK w \in Thermal(d, req).warnings :
          w.code \in {"PHYS_THERMAL_TEMP_RISE_HIGH", "risk_thermal_margin_low"}
    BY <1>4, <2>1, OthersAre, ThermalFails
  <2> QED
    BY <1>2, <1>3, <1>5, <2>1, <2>2, CodesAre
<1>6. CASE type = "controls"
  <2>1. c = Controls(d, req)
    BY <1>4, <1>6, ControlsAre, DrivetrainIs, OthersAre DEF ChecksOf
  <2>2. PICK w \in Controls(d, req).warnings :
          w.code \in {"PHYS_CONTROL_MOTION_PROFILE_INFEASIBLE", "PHYS_CONTROL_TORQUE_SPEED_INVALID"}
    BY <1>4, <2>1, ControlsAre
  <2> QED
    BY <1>2, <1>3, <1>6, <2>1, <2>2, CodesAre
<1> QED
  BY <1>5, <1>6

LEMMA HeldSummary ==
  ASSUME HeldInvariant, NEW s \in ToSet(summaries)
  PROVE  \E power \in {PowerA, PowerB} : s = Summary(power) /\ DOMAIN Rows(power) # {}
<1>1. summaries \in Seq({Summary(PowerA), Summary(PowerB)})
  BY DEF HeldInvariant
<1>2. DOMAIN summaries = 1..Len(summaries)
  BY <1>1, LenProperties
<1>3. PICK k \in 1..Len(summaries) : s = summaries[k]
  BY <1>2 DEF ToSet
<1>4. s = Summary(Power(Cases[k])) /\ DOMAIN Rows(Power(Cases[k])) # {}
  BY <1>3 DEF HeldInvariant
<1>5. Power(Cases[k]) \in {PowerA, PowerB}
  BY DEF Power
<1> QED
  BY <1>4, <1>5

\* A candidate whose thermal or controls check failed never has "pass" in the
\* table of that check, although the tables look for some codes only
\* (CHECK_TYPES, _passes_check).
THEOREM TablesAlwaysShowFailure == Spec => []TablesShowFailure
<1>1. CatalogInvariant /\ HeldInvariant => TablesShowFailure
  <2> SUFFICES ASSUME CatalogInvariant, HeldInvariant,
                      NEW s \in ToSet(summaries), NEW i \in DOMAIN s.rows,
                      NEW type \in s.rows[i].failed \intersect {"thermal", "controls"}
               PROVE  ~s.tables[i][type]
    BY DEF TablesShowFailure
  <2>1. PICK power : s = Summary(power)
    BY HeldSummary
  <2>2. PICK rows : rows = Rows(power) /\ s = Summarized(rows)
    BY <2>1 DEF Summary
  <2>3. s.rows = rows /\ i \in DOMAIN rows
    BY <2>2 DEF Summarized
  <2>4. type \in ToSet(Categories)
    <3>1. /\ DOMAIN Categories = 1..4 /\ Categories[2] = "thermal" /\ Categories[4] = "controls"
      BY DEF Categories
    <3> QED
      BY <3>1 DEF ToSet
  <2>5. s.tables[i][type] = PassesCheck(rows[i], type)
    BY <2>2, <2>3, <2>4 DEF Summarized
  <2>6. \E w \in rows[i].warnings : w.code \in TableCodes(type)
    <3>1. i \in 1..2 /\ rows[i] = RowOf(catalog[i], Evaluate(catalog[i], req))
      BY <2>2, <2>3, RowIs
    <3>2. DesignTyped(catalog[i]) /\ RequirementTyped(req)
      BY <3>1, Inputs
    <3> QED
      BY <2>3, <3>1, <3>2, FailureHasCode
  <2> QED
    BY <2>5, <2>6 DEF PassesCheck
<1>2. ScriptInvariant => HeldInvariant
  BY DEF ScriptInvariant
<1> QED
  BY <1>1, <1>2, AlwaysCatalog, AlwaysScript, PTL

-----------------------------------------------------------------------------
(***************************************************************************)
(* The ranks are made of integers                                          *)
(***************************************************************************)
LEMMA BeltLeast ==
  ASSUME NEW d, DesignTyped(d), NEW r, RequirementTyped(r)
  PROVE  HasLeast(Belt(d, r).margins)
<1>1. PICK travel, payload \in Nat, ratio \in Nat \ {0} :
        travel = r.travel /\ payload = r.payload /\ ratio = d.ratio
  BY DEF DesignTyped, RequirementTyped
<1>2. PICK stretch \in Int : stretch = (Max({1, (payload * 981) \div 100}) * 1000) \div 25
  <2>1. Max({1, (payload * 981) \div 100}) \in Nat
    BY AtLeastOne
  <2> QED
    BY <2>1
<1>3. PICK inertia \in Int : inertia = (payload * 1800000) \div (ratio * ratio)
  <2>1. ratio * ratio \in Nat \ {0}
    OBVIOUS
  <2> QED
    BY <2>1, QuotientSign, SMT
<1>4. PICK allowed \in Nat \ {0} : allowed = Max({1, 2 * travel})
  BY AtLeastOne
<1>5. PICK a, b \in Int : /\ a = ((2 * travel - stretch) * 100) \div allowed
                          /\ b = ((800 - inertia) * 100) \div 800
  BY QuotientSign
<1>6. Belt(d, r).margins = {a, b}
  BY <1>1, <1>2, <1>3, <1>4, <1>5, SMT DEF Belt
<1> QED
  BY <1>6, LeastOfTwo

LEMMA ScrewLeast ==
  ASSUME NEW d, DesignTyped(d), NEW r, RequirementTyped(r)
  PROVE  HasLeast(Screw(d, r).margins)
<1>1. PICK travel, payload, speed, rpm, eff \in Nat, lead \in Nat \ {0} :
        /\ travel = r.travel /\ payload = r.payload /\ speed = r.speed /\ rpm = d.rpm
        /\ eff = d.efficiency /\ lead = d.lead
  <2>1. /\ r.travel \in Nat /\ r.payload \in Nat /\ r.speed \in Nat
    BY DEF RequirementTyped
  <2>2. d.rpm \in Nat /\ d.efficiency \in Nat /\ d.lead \in Nat \ {0}
    BY DEF DesignTyped
  <2> QED
    BY <2>1, <2>2
<1>2. PICK critical \in Int : critical = CriticalSpeed \div Max({100, travel})
  <2>1. PICK bound \in Int : bound = 100
    OBVIOUS
  <2>2. PICK m \in Nat \ {0} : m = Max({bound, travel})
    BY <2>1, MaxOfTwo
  <2>3. CriticalSpeed \div m \in Int
    BY SMT DEF CriticalSpeed, BucklingLoad
  <2> QED
    BY <2>1, <2>2, <2>3
<1>3. PICK operating \in Int : operating = Min({(speed * 60) \div lead, rpm})
  <2>1. PICK q \in Int : q = (speed * 60) \div lead
    BY QuotientSign
  <2>2. Min({q, rpm}) \in Int
    BY LeastOfTwo, MinTyped
  <2> QED
    BY <2>1, <2>2
<1>4. PICK euler \in Int : euler = BucklingLoad \div Max({1, (travel \div 10) * (travel \div 10)})
  <2>1. PICK m \in Nat \ {0} : m = Max({1, (travel \div 10) * (travel \div 10)})
    <3>1. (travel \div 10) * (travel \div 10) \in Int
      OBVIOUS
    <3> QED
      BY <3>1, AtLeastOne
  <2>2. BucklingLoad \div m \in Int
    BY SMT DEF CriticalSpeed, BucklingLoad
  <2> QED
    BY <2>1, <2>2, SMT
<1>5. PICK axial \in Int : axial = Max({100, payload * 981})
  <2>1. PICK bound, weight \in Int : bound = 100 /\ weight = payload * 981
    OBVIOUS
  <2>2. Max({bound, weight}) \in Int
    BY MaxTyped
  <2> QED
    BY <2>1, <2>2
<1>6. PICK m, n \in Nat \ {0} : m = Max({1, critical}) /\ n = Max({1, euler})
  BY AtLeastOne
<1>7. PICK a, b, c \in Int : /\ a = ((critical - operating) * 100) \div m
                             /\ b = ((euler - axial) * 100) \div n
                             /\ c = ((eff - 75) * 100) \div 75
  BY QuotientSign
<1> DEFINE Critical == CriticalSpeed \div Max({100, r.travel})
           Operating == Min({(r.speed * 60) \div d.lead, d.rpm})
           Euler == BucklingLoad \div Max({1, (r.travel \div 10) * (r.travel \div 10)})
           Axial == Max({100, r.payload * 981})
<1>8. Screw(d, r).margins =
        {((Critical - Operating) * 100) \div Max({1, Critical}),
         ((Euler - Axial) * 100) \div Max({1, Euler}), ((d.efficiency - 75) * 100) \div 75}
  BY DEF Screw
<1>9. Critical = critical /\ Operating = operating /\ Euler = euler /\ Axial = axial
  BY <1>1, <1>2, <1>3, <1>4, <1>5
<1> HIDE DEF Critical, Operating, Euler, Axial
<1>10. Screw(d, r).margins = {a, b, c}
  BY <1>1, <1>6, <1>7, <1>8, <1>9
<1> QED
  BY <1>10, LeastOfThree

LEMMA DirectLeast ==
  ASSUME NEW d, DesignTyped(d), NEW r, RequirementTyped(r)
  PROVE  HasLeast(Direct(d, r).margins)
<1>1. PICK speed, v, duty \in Nat, torque \in Int :
        speed = d.speed /\ v = r.speed /\ duty = Duty(r) /\ torque = d.torque
  BY PartsTyped DEF DesignTyped, RequirementTyped
<1>2. PICK m \in Nat \ {0} : m = Max({1, v})
  BY AtLeastOne
<1>3. PICK a \in Int : a = ((speed - v) * 100) \div m
  BY QuotientSign
<1>4. PICK b \in Int : b = (60 * torque + 40 * a - 20 * duty) \div 100
  OBVIOUS
<1>5. Direct(d, r).margins = {a, torque, b}
  BY <1>1, <1>2, <1>3, <1>4 DEF Direct
<1> QED
  BY <1>5, LeastOfThree

LEMMA DrivetrainLeast ==
  ASSUME NEW d, DesignTyped(d), NEW r, RequirementTyped(r)
  PROVE  HasLeast(Drivetrain(d, r).margins)
<1>1. HasLeast(TopologyCheck(d, r).margins)
  BY BeltLeast, ScrewLeast, DirectLeast DEF TopologyCheck, DesignTyped
<1>2. HasLeast({SpeedHeadroom(d, r), d.torque, d.efficiency - 75})
  <2>1. PICK eff \in Nat : eff = d.efficiency
    BY DEF DesignTyped
  <2>2. SpeedHeadroom(d, r) \in Int
    BY SlowIsSlow
  <2>3. d.torque \in Int /\ eff - 75 \in Int
    BY DEF DesignTyped
  <2> QED
    BY <2>1, <2>2, <2>3, LeastOfThree
<1>3. Drivetrain(d, r).margins =
        {SpeedHeadroom(d, r), d.torque, d.efficiency - 75} \union TopologyCheck(d, r).margins
  BY DEF Drivetrain, Check
<1> QED
  BY <1>1, <1>2, <1>3, LeastOfUnion

LEMMA ThermalLeast ==
  ASSUME NEW d, DesignTyped(d), NEW r, RequirementTyped(r)
  PROVE  HasLeast(Thermal(d, r).margins)
<1> DEFINE t == ThermalResponse(d, r)
<1>1. PICK m \in Int : m = t.margin
  BY ThermalTyped
<1>2. PICK c \in Int : c = ContinuousOf(d, r)
  <2>1. PICK continuous \in Nat \ {0}, x \in Nat : continuous = d.continuous /\ x = RmsTorque(d, r)
    BY PartsTyped DEF DesignTyped
  <2>2. ((continuous - x) * 100) \div continuous \in Int
    BY QuotientSign
  <2> QED
    BY <2>1, <2>2 DEF ContinuousOf
<1>3. PICK i \in Int : i = IntermittentOf(d)
  BY PartsTyped
<1>4. t.margins = {c, i}
  BY <1>2, <1>3, ThermalIs
<1>5. Thermal(d, r).margins = {t.margin} \union t.margins
  BY DEF Thermal, ThermalCheck, Check
<1>6. Thermal(d, r).margins = {m} \union {c, i}
  BY <1>1, <1>4, <1>5
<1>7. HasLeast({m}) /\ HasLeast({c, i})
  BY LeastOfOne, LeastOfTwo
<1> QED
  BY <1>6, <1>7, LeastOfUnion

\* The factors of a support are positive, whatever it is.
LEMMA SupportTyped ==
  ASSUME NEW condition
  PROVE  /\ Support(condition).stiffness \in Nat \ {0}
         /\ Support(condition).moment \in Nat \ {0}
BY DEF Support

LEMMA StructuralLeast ==
  ASSUME NEW d, DesignTyped(d), NEW r, RequirementTyped(r)
  PROVE  HasLeast(Structural(d, r).margins)
<1> DEFINE b == BeamResponse(d, r)
<1>1. PICK travel, payload, mass \in Nat :
        travel = r.travel /\ payload = r.payload /\ mass = d.mass
  BY DEF DesignTyped, RequirementTyped
<1>2. PICK span \in Nat \ {0} : span = Max({1, travel \div 10})
  BY AtLeastOne
<1>3. PICK load \in Nat : load = ((10 * payload + mass) * 11772) \div 10000
  BY QuotientTyped
<1>4. PICK s, m \in Nat \ {0} :
        s = Support(d.support).stiffness /\ m = Support(d.support).moment
  BY SupportTyped
<1>5. PICK deflection \in Int : deflection = RoundedUp(load * span * span * span, s * 5520)
  <2>1. PICK value \in Int : value = load * span * span * span
    OBVIOUS
  <2>2. PICK divisor \in Nat \ {0} : divisor = s * 5520
    OBVIOUS
  <2>3. (value + divisor - 1) \div divisor \in Int
    BY QuotientSign
  <2> QED
    BY <2>1, <2>2, <2>3 DEF RoundedUp
<1>6. PICK stress \in Int : stress = RoundedUp(load * span * 100, 140 * m)
  <2>1. PICK value \in Int : value = load * span * 100
    OBVIOUS
  <2>2. PICK divisor \in Nat \ {0} : divisor = 140 * m
    OBVIOUS
  <2>3. (value + divisor - 1) \div divisor \in Int
    BY QuotientSign
  <2> QED
    BY <2>1, <2>2, <2>3 DEF RoundedUp
<1> DEFINE Span == Max({1, r.travel \div 10})
           Load == ((10 * r.payload + d.mass) * 11772) \div 10000
           Deflection == RoundedUp(Load * Span * Span * Span, Support(d.support).stiffness * 5520)
           Stress == RoundedUp(Load * Span * 100, 140 * Support(d.support).moment)
<1>7. /\ b.deflectionMargin = ((500 - Deflection) * 100) \div 500
      /\ b.stressMargin = ((12000 - Stress) * 100) \div 12000
  BY DEF BeamResponse
<1>8. Span = span /\ Load = load
  BY <1>1, <1>2, <1>3
<1> HIDE DEF Span, Load
<1>9. Deflection = deflection /\ Stress = stress
  BY <1>4, <1>5, <1>6, <1>8
<1> HIDE DEF Deflection, Stress
<1>10. PICK x, y \in Int : x = b.deflectionMargin /\ y = b.stressMargin
  BY <1>7, <1>9
<1>11. Min({x, y}) \in Int
  BY LeastOfTwo, MinTyped
<1>12. Structural(d, r).margins = {Min({x, y}), x, y}
  BY <1>10 DEF Structural, BeamCheck, Check
<1> QED
  BY <1>11, <1>12, LeastOfThree

LEMMA ControlsLeast ==
  ASSUME NEW d, DesignTyped(d), NEW r, RequirementTyped(r)
  PROVE  HasLeast(Controls(d, r).margins)
<1>1. PICK speed, v, duty \in Nat, torque \in Int :
        speed = d.speed /\ v = r.speed /\ duty = Duty(r) /\ torque = d.torque
  BY PartsTyped DEF DesignTyped, RequirementTyped
<1>2. PICK m \in Nat \ {0} : m = Max({1, speed})
  BY AtLeastOne
<1>3. PICK profile \in Int : profile = ((speed - v) * 100) \div m
  BY QuotientSign
<1>4. Min({torque, profile}) \in Int
  BY LeastOfTwo, MinTyped
<1> DEFINE Profile == ((d.speed - r.speed) * 100) \div Max({1, d.speed})
<1>5. Controls(d, r).margins = {Profile, Min({d.torque, Profile}), 100 - Duty(r)}
  BY DEF Controls, Check
<1>6. Profile = profile
  BY <1>1, <1>2, <1>3
<1> HIDE DEF Profile
<1>7. Controls(d, r).margins = {profile, Min({torque, profile}), 100 - duty}
  BY <1>1, <1>5, <1>6
<1>8. HasLeast({profile, Min({torque, profile}), 100 - duty})
  <2>1. PICK rest \in Int : rest = 100 - duty
    OBVIOUS
  <2> QED
    BY <1>4, <2>1, LeastOfThree
<1> QED
  BY <1>7, <1>8

\* The margins of a row, by the name of the check.
LEMMA MarginIs ==
  ASSUME NEW d, DesignTyped(d), NEW r, RequirementTyped(r), NEW k \in 1..4
  PROVE  MarginOf(Evaluate(d, r), Categories[k]) \in Int
<1>1. Evaluate(d, r).checks = ChecksOf(d, r)
  <2>1. Evaluate(d, r) = MergeChecks(ChecksOf(d, r))
    BY DEF Evaluate, ChecksOf
  <2> QED
    BY <2>1, MergedIs
<1>2. PICK c \in ChecksOf(d, r) : c.name = Categories[k]
  BY ControlsAre, DrivetrainIs, OthersAre DEF ChecksOf, Categories
<1>3. \A e \in ChecksOf(d, r) : e.name = c.name => e = c
  BY ControlsAre, DrivetrainIs, OthersAre DEF ChecksOf
<1>4. (CHOOSE e \in ChecksOf(d, r) : e.name = Categories[k]) = c
  BY <1>2, <1>3
<1>5. HasLeast(c.margins)
  BY <1>2, ThermalLeast, StructuralLeast, DrivetrainLeast, ControlsLeast DEF ChecksOf
<1> QED
  BY <1>1, <1>4, <1>5, MinTyped DEF MarginOf

LEMMA WarnFinite ==
  ASSUME NEW condition, NEW code, NEW severity
  PROVE  IsFiniteSet(Warn(condition, code, severity))
BY FS_EmptySet, FS_Singleton DEF Warn

LEMMA FiveFinite ==
  ASSUME NEW A, NEW B, NEW C, NEW D, NEW E, IsFiniteSet(A), IsFiniteSet(B), IsFiniteSet(C),
         IsFiniteSet(D), IsFiniteSet(E)
  PROVE  IsFiniteSet(A \union B \union C \union D \union E)
<1>1. IsFiniteSet(A \union B \union C)
  BY FS_Union
<1> QED
  BY <1>1, FS_Union

\* A check has finitely many warnings.
LEMMA WarningsFinite ==
  ASSUME NEW d, DesignTyped(d), NEW r
  PROVE  /\ IsFiniteSet(Drivetrain(d, r).warnings) /\ IsFiniteSet(Thermal(d, r).warnings)
         /\ IsFiniteSet(Structural(d, r).warnings) /\ IsFiniteSet(Controls(d, r).warnings)
<1>1. IsFiniteSet(TopologyCheck(d, r).warnings)
  <2>1. IsFiniteSet(Belt(d, r).warnings)
    <3>1. PICK p, q : Belt(d, r).warnings = Warn(p, "risk_belt_stretch_margin_low", "high")
                         \union Warn(q, "risk_belt_reflected_inertia_high", "medium")
      BY DEF Belt
    <3> QED
      BY <3>1, WarnFinite, FS_Union
  <2>2. IsFiniteSet(Screw(d, r).warnings)
    <3>1. PICK p, q, o : Screw(d, r).warnings = Warn(p, "risk_screw_critical_speed_low", "high")
                         \union Warn(q, "risk_screw_buckling_margin_low", "high")
                         \union Warn(o, "risk_screw_efficiency_low", "medium")
      BY DEF Screw
    <3> QED
      BY <3>1, WarnFinite, FS_Union
  <2>3. IsFiniteSet(Direct(d, r).warnings)
    BY WarnFinite, FS_Union DEF Direct
  <2> QED
    BY <2>1, <2>2, <2>3 DEF TopologyCheck, DesignTyped
<1>2. IsFiniteSet(Drivetrain(d, r).warnings)
  <2>1. PICK a, b, c, e :
          Drivetrain(d, r).warnings =
            Warn(a, "PHYS_SPEED_HEADROOM_LOW", "medium")
            \union Warn(b, "PHYS_TORQUE_MARGIN_LOW", "medium")
            \union Warn(c, "PHYS_EFFICIENCY_LOW", "medium")
            \union Warn(e, "PHYS_MASS_OVER_BUDGET", "high")
            \union TopologyCheck(d, r).warnings
    BY DEF Drivetrain, Check
  <2> QED
    BY <1>1, <2>1, WarnFinite, FiveFinite
<1>3. IsFiniteSet(Thermal(d, r).warnings)
  <2>1. PICK a, b, c, e, f, x, y :
          Thermal(d, r).warnings =
            Warn(a, "PHYS_THERMAL_TEMP_RISE_HIGH", "high")
            \union Warn(b, "risk_thermal_temp_rise_near_limit", "medium")
            \union Warn(c, "risk_thermal_margin_low", x)
            \union Warn(e, "risk_thermal_margin_near_limit", "medium")
            \union Warn(f, "risk_drive_thermal_power_margin_low", y)
    BY DEF Thermal, ThermalCheck, Check
  <2> QED
    BY <2>1, WarnFinite, FiveFinite
<1>4. IsFiniteSet(Structural(d, r).warnings)
  <2>1. PICK a, b, c, x :
          Structural(d, r).warnings =
            Warn(a, "PHYS_STRUCTURAL_DEFLECTION_HIGH", "high")
            \union Warn(b, "risk_structural_margin_low", x)
            \union Warn(c, "risk_structural_safety_low", "high")
    BY DEF Structural, BeamCheck, Check
  <2> QED
    BY <2>1, WarnFinite, FS_Union
<1>5. IsFiniteSet(Controls(d, r).warnings)
  <2>1. PICK a, b, c, e :
          Controls(d, r).warnings =
            Warn(a, "PHYS_CONTROL_MOTION_PROFILE_INFEASIBLE", "high")
            \union Warn(b, "PHYS_CONTROL_MOTION_PROFILE_TIGHT", "medium")
            \union Warn(c, "PHYS_CONTROL_TORQUE_SPEED_INVALID", "high")
            \union Warn(e, "PHYS_CONTROL_HIGH_DUTY_CYCLE", "medium")
    BY DEF Controls, Check
  <2>2. IsFiniteSet(Warn(a, "PHYS_CONTROL_MOTION_PROFILE_INFEASIBLE", "high")
            \union Warn(b, "PHYS_CONTROL_MOTION_PROFILE_TIGHT", "medium"))
    BY WarnFinite, FS_Union
  <2>3. IsFiniteSet(Controls(d, r).warnings)
    BY <2>1, <2>2, WarnFinite, FS_Union
  <2> QED
    BY <2>3
<1> QED
  BY <1>2, <1>3, <1>4, <1>5

LEMMA AllWarningsFinite ==
  ASSUME NEW d, DesignTyped(d), NEW r
  PROVE  Cardinality(Evaluate(d, r).warnings) \in Nat
<1>1. Evaluate(d, r).warnings = UNION {c.warnings : c \in ChecksOf(d, r)}
  BY DEF Evaluate, MergeChecks, Merged, ChecksOf
<1>2. UNION {c.warnings : c \in ChecksOf(d, r)} =
        (Drivetrain(d, r).warnings \union Thermal(d, r).warnings)
          \union (Structural(d, r).warnings \union Controls(d, r).warnings)
  BY DEF ChecksOf
<1>3. /\ IsFiniteSet(Drivetrain(d, r).warnings \union Thermal(d, r).warnings)
      /\ IsFiniteSet(Structural(d, r).warnings \union Controls(d, r).warnings)
  BY WarningsFinite, FS_Union
<1>4. IsFiniteSet((Drivetrain(d, r).warnings \union Thermal(d, r).warnings)
                   \union (Structural(d, r).warnings \union Controls(d, r).warnings))
  BY <1>3, FS_Union
<1>5. IsFiniteSet(Evaluate(d, r).warnings)
  BY <1>1, <1>2, <1>4
<1> QED
  BY <1>5, FS_CardinalityType

\* What the ranks are: one for a candidate that passed, first, then integers.
IsRank(q) == DOMAIN q = 1..7 /\ \A i \in 1..7 : q[i] \in Int

LEMMA RankIs ==
  ASSUME NEW d, DesignTyped(d), RequirementTyped(req), NEW row,
         row = RowOf(d, Evaluate(d, req))
  PROVE  /\ IsRank(SafetyRank(row)) /\ row.passed \in BOOLEAN
         /\ SafetyRank(row)[1] = IF row.passed THEN 1 ELSE 0
<1>1. /\ row.passed \in BOOLEAN /\ row.warnings = Evaluate(d, req).warnings
      /\ row.margins = [k \in DOMAIN Categories |-> MarginOf(Evaluate(d, req), Categories[k])]
  BY DEF RowOf
<1>2. DOMAIN Categories = 1..4
  BY DEF Categories
<1>3. row.margins \in [1..4 -> Int]
  BY <1>1, <1>2, MarginIs
<1>4. row.margins \in Seq(Int) /\ Len(row.margins) = 4
  <2>1. row.margins \in Seq(Int)
    BY <1>3, SeqDef
  <2>2. Len(row.margins) \in Nat /\ DOMAIN row.margins = 1..Len(row.margins)
    BY <2>1, LenProperties
  <2>3. 1..Len(row.margins) = 1..4
    BY <1>3, <2>2
  <2>4. \A n \in Nat : 1..n = 1..4 => n = 4
    <3> SUFFICES ASSUME NEW n \in Nat, 1..n = 1..4 PROVE n = 4
      OBVIOUS
    <3>1. 4 \in 1..n /\ (n >= 1 => n \in 1..4)
      OBVIOUS
    <3> QED
      BY <3>1
  <2> QED
    BY <2>1, <2>2, <2>3, <2>4
<1>5. Min(ToSet(row.margins)) \in Int
  <2>1. PICK a, b, c, e \in Int : /\ a = row.margins[1] /\ b = row.margins[2]
                                  /\ c = row.margins[3] /\ e = row.margins[4]
    BY <1>3
  <2>2. ToSet(row.margins) = {a, b} \union {c, e}
    BY <1>3, <2>1 DEF ToSet
  <2>3. HasLeast({a, b}) /\ HasLeast({c, e})
    BY LeastOfTwo
  <2> QED
    BY <2>2, <2>3, LeastOfUnion, MinTyped
<1>6. PICK first, second, third \in Int :
        /\ first = (IF row.passed THEN 1 ELSE 0) /\ second = -Cardinality(row.warnings)
        /\ third = Min(ToSet(row.margins))
  <2>1. PICK n \in Nat : n = Cardinality(row.warnings)
    BY <1>1, AllWarningsFinite
  <2>2. -n \in Int /\ (IF row.passed THEN 1 ELSE 0) \in Int
    OBVIOUS
  <2> QED
    BY <1>5, <2>1, <2>2
<1>7. SafetyRank(row) = <<first, second, third>> \o row.margins
  BY <1>6 DEF SafetyRank
<1>8. <<first, second, third>> \in Seq(Int) /\ Len(<<first, second, third>>) = 3
  OBVIOUS
<1>9. /\ SafetyRank(row) \in Seq(Int) /\ Len(SafetyRank(row)) = 7
      /\ SafetyRank(row)[1] = first
  <2> DEFINE front == <<first, second, third>>
  <2>1. front \in Seq(Int) /\ Len(front) = 3 /\ front[1] = first
    BY <1>8
  <2> HIDE DEF front
  <2>2. /\ front \o row.margins \in Seq(Int) /\ Len(front \o row.margins) = Len(front) + Len(row.margins)
        /\ \A i \in 1..Len(front) + Len(row.margins) :
             (front \o row.margins)[i] = IF i <= Len(front) THEN front[i] ELSE row.margins[i - Len(front)]
    BY <1>4, <2>1, ConcatProperties
  <2>3. SafetyRank(row) = front \o row.margins
    BY <1>7 DEF front
  <2> QED
    BY <1>4, <2>1, <2>2, <2>3
<1>10. IsRank(SafetyRank(row))
  BY <1>9, LenProperties, ElementOfSeq DEF IsRank
<1> QED
  BY <1>1, <1>6, <1>9, <1>10

LEMMA BelowIsStrict ==
  ASSUME NEW q, NEW s, IsRank(q), IsRank(s), Below(q, s)
  PROVE  ~Below(s, q)
<1>1. PICK k \in 1..7 : q[k] < s[k] /\ \A i \in 1..(k - 1) : q[i] = s[i]
  BY DEF Below, IsRank
<1>2. ASSUME NEW j \in 1..7, s[j] < q[j], \A i \in 1..(j - 1) : s[i] = q[i]
      PROVE  FALSE
  <2>1. CASE j < k
    <3>1. j \in 1..(k - 1)
      BY <2>1
    <3> QED
      BY <1>1, <1>2, <3>1 DEF IsRank
  <2>2. CASE k < j
    <3>1. k \in 1..(j - 1)
      BY <2>2
    <3> QED
      BY <1>1, <1>2, <3>1 DEF IsRank
  <2>3. CASE j = k
    BY <1>1, <1>2, <2>3 DEF IsRank
  <2> QED
    BY <2>1, <2>2, <2>3
<1> QED
  BY <1>2 DEF Below, IsRank

LEMMA NotBelowItself ==
  ASSUME NEW q, IsRank(q)
  PROVE  ~Below(q, q)
BY BelowIsStrict

\* Of one or two rows with such ranks there is a safest one.
LEMMA SafestIs ==
  ASSUME NEW rows, DOMAIN rows \subseteq 1..2, DOMAIN rows # {},
         \A i \in DOMAIN rows : IsRank(SafetyRank(rows[i]))
  PROVE  /\ Safest(rows) \in DOMAIN rows
         /\ \A j \in DOMAIN rows : ~Below(SafetyRank(rows[Safest(rows)]), SafetyRank(rows[j]))
<1> DEFINE IsSafest(i) ==
      /\ \A j \in DOMAIN rows : ~Below(SafetyRank(rows[i]), SafetyRank(rows[j]))
      /\ \A j \in DOMAIN rows : j < i => Below(SafetyRank(rows[j]), SafetyRank(rows[i]))
<1>1. \A i \in DOMAIN rows : ~Below(SafetyRank(rows[i]), SafetyRank(rows[i]))
  BY NotBelowItself
<1>2. \E i \in DOMAIN rows : IsSafest(i)
  <2>1. CASE \E k \in 1..2 : DOMAIN rows = {k}
    BY <1>1, <2>1
  <2>2. CASE DOMAIN rows = {1, 2} /\ Below(SafetyRank(rows[1]), SafetyRank(rows[2]))
    BY <1>1, <2>2, BelowIsStrict
  <2>3. CASE DOMAIN rows = {1, 2} /\ ~Below(SafetyRank(rows[1]), SafetyRank(rows[2]))
    BY <1>1, <2>3
  <2>4. DOMAIN rows = {1} \/ DOMAIN rows = {2} \/ DOMAIN rows = {1, 2}
    OBVIOUS
  <2> QED
    BY <2>1, <2>2, <2>3, <2>4
<1>3. Safest(rows) = CHOOSE i \in DOMAIN rows : IsSafest(i)
  BY DEF Safest
<1>4. Safest(rows) \in DOMAIN rows /\ IsSafest(Safest(rows))
  <2> HIDE DEF IsSafest
  <2> QED
    BY <1>2, <1>3
<1> QED
  BY <1>4

-----------------------------------------------------------------------------
(***************************************************************************)
(* What the comparison says of its cases                                   *)
(***************************************************************************)
\* The rows of a case have ranks, and the safest of them is one.
LEMMA RowsRanked ==
  ASSUME CatalogInvariant, NEW power, DOMAIN Rows(power) # {}
  PROVE  /\ DOMAIN Rows(power) \subseteq 1..2
         /\ \A i \in DOMAIN Rows(power) :
              /\ IsRank(SafetyRank(Rows(power)[i])) /\ Rows(power)[i].passed \in BOOLEAN
              /\ SafetyRank(Rows(power)[i])[1] = IF Rows(power)[i].passed THEN 1 ELSE 0
         /\ Safest(Rows(power)) \in DOMAIN Rows(power)
         /\ \A j \in DOMAIN Rows(power) :
              ~Below(SafetyRank(Rows(power)[Safest(Rows(power))]), SafetyRank(Rows(power)[j]))
<1>1. ASSUME NEW i \in DOMAIN Rows(power)
      PROVE  /\ i \in 1..2
             /\ IsRank(SafetyRank(Rows(power)[i])) /\ Rows(power)[i].passed \in BOOLEAN
             /\ SafetyRank(Rows(power)[i])[1] = IF Rows(power)[i].passed THEN 1 ELSE 0
  <2>1. i \in 1..2 /\ Rows(power)[i] = RowOf(catalog[i], Evaluate(catalog[i], req))
    BY RowIs
  <2>2. DesignTyped(catalog[i]) /\ RequirementTyped(req)
    BY <2>1, Inputs
  <2> QED
    BY <2>1, <2>2, RankIs
<1>2. PICK rows : rows = Rows(power)
  OBVIOUS
<1>3. /\ Safest(rows) \in DOMAIN rows
      /\ \A j \in DOMAIN rows : ~Below(SafetyRank(rows[Safest(rows)]), SafetyRank(rows[j]))
  BY <1>1, <1>2, SafestIs
<1> QED
  BY <1>1, <1>2, <1>3

\* A case with less power has no other candidates and no other rows.
LEMMA LessPowerLessRows ==
  ASSUME CatalogInvariant
  PROVE  /\ DOMAIN Rows(PowerB) \subseteq DOMAIN Rows(PowerA)
         /\ \A i \in DOMAIN Rows(PowerB) : Rows(PowerB)[i] = Rows(PowerA)[i]
<1>1. ASSUME NEW i \in DOMAIN Rows(PowerB)
      PROVE  i \in DOMAIN Rows(PowerA)
  <2>1. i \in 1..2 /\ Feasible(catalog[i], PowerB)
    BY RowIs
  <2>2. PICK p \in Nat : p = catalog[i].power
    BY <2>1, Inputs DEF DesignTyped
  <2>3. p <= PowerB => p <= PowerA
    BY ExportAssumption
  <2>4. Feasible(catalog[i], PowerA)
    BY <2>1, <2>2, <2>3 DEF Feasible, WithinPower
  <2> QED
    BY <2>1, <2>4 DEF Rows, CatalogInvariant
<1>2. ASSUME NEW i \in DOMAIN Rows(PowerB)
      PROVE  Rows(PowerB)[i] = Rows(PowerA)[i]
  BY <1>1, <1>2, RowIs
<1> QED
  BY <1>1, <1>2

\* The safest of the rows of a case passes if any of them does.
LEMMA SafestPasses ==
  ASSUME CatalogInvariant, NEW power, DOMAIN Rows(power) # {},
         Summary(power).passed > 0
  PROVE  SafestRow(Summary(power)).passed
<1>1. PICK rows : rows = Rows(power)
  OBVIOUS
<1>2. /\ Summary(power).passed = Cardinality({i \in DOMAIN rows : rows[i].passed})
      /\ SafestRow(Summary(power)) = rows[Safest(rows)]
  BY <1>1 DEF Summary, Summarized, SafestRow
<1>3. PICK i \in DOMAIN rows : rows[i].passed
  <2>1. {i \in DOMAIN rows : rows[i].passed} # {}
    BY <1>2, FS_EmptySet
  <2> QED
    BY <2>1
<1>4. PICK s \in DOMAIN rows : s = Safest(rows)
  BY <1>1, RowsRanked
<1>5. ~Below(SafetyRank(rows[s]), SafetyRank(rows[i]))
  BY <1>1, <1>3, <1>4, RowsRanked
<1>6. /\ DOMAIN SafetyRank(rows[s]) = 1..7 /\ SafetyRank(rows[i])[1] = 1
      /\ SafetyRank(rows[s])[1] = IF rows[s].passed THEN 1 ELSE 0
  BY <1>1, <1>3, <1>4, RowsRanked DEF IsRank
<1>7. CASE ~rows[s].passed
  <2>1. /\ 1 \in DOMAIN SafetyRank(rows[s]) /\ SafetyRank(rows[s])[1] < SafetyRank(rows[i])[1]
        /\ 1..(1 - 1) = {}
    BY <1>6, <1>7
  <2>2. Below(SafetyRank(rows[s]), SafetyRank(rows[i]))
    BY <2>1 DEF Below
  <2> QED
    BY <1>5, <2>2
<1> QED
  BY <1>2, <1>4, <1>7

\* The summaries that the script holds are those of its cases, in order.
LEMMA BothHeld ==
  ASSUME HeldInvariant, Len(summaries) = 2
  PROVE  /\ summaries[1] = Summary(PowerA) /\ DOMAIN Rows(PowerA) # {}
         /\ summaries[2] = Summary(PowerB) /\ DOMAIN Rows(PowerB) # {}
<1>1. 1 \in 1..Len(summaries) /\ 2 \in 1..Len(summaries)
  OBVIOUS
<1>2. Power(Cases[1]) = PowerA /\ Power(Cases[2]) = PowerB
  BY DEF Power, Cases
<1> QED
  BY <1>1, <1>2 DEF HeldInvariant

\* For any catalog and requirement: the candidate that the comparison calls the
\* safest passes the physics if any candidate of its case does, the safest one of
\* the tightened case is no safer, and a candidate that both cases know has the same
\* physics in both (summarize_case, _safest_candidate, compare_cases).
THEOREM ComparisonAlwaysSound == Spec => []ComparisonIsSound
<1>1. CatalogInvariant /\ HeldInvariant => ComparisonIsSound
  <2> SUFFICES ASSUME CatalogInvariant, HeldInvariant PROVE ComparisonIsSound
    OBVIOUS
  <2>1. ASSUME NEW s \in ToSet(summaries), s.passed > 0 PROVE SafestRow(s).passed
    <3>1. PICK power : s = Summary(power) /\ DOMAIN Rows(power) # {}
      BY HeldSummary
    <3> QED
      BY <2>1, <3>1, SafestPasses
  <2>2. ASSUME Len(summaries) = 2
        PROVE  ~Below(SafetyRank(SafestRow(summaries[1])), SafetyRank(SafestRow(summaries[2])))
    <3>1. PICK a, b : a = Rows(PowerA) /\ b = Rows(PowerB)
      OBVIOUS
    <3>2. SafestRow(summaries[1]) = a[Safest(a)] /\ SafestRow(summaries[2]) = b[Safest(b)]
      BY <2>2, <3>1, BothHeld DEF Summary, Summarized, SafestRow
    <3>3. Safest(b) \in DOMAIN b
      BY <2>2, <3>1, BothHeld, RowsRanked
    <3>4. Safest(b) \in DOMAIN a /\ b[Safest(b)] = a[Safest(b)]
      BY <3>1, <3>3, LessPowerLessRows
    <3>5. ~Below(SafetyRank(a[Safest(a)]), SafetyRank(a[Safest(b)]))
      BY <2>2, <3>1, <3>4, BothHeld, RowsRanked
    <3> QED
      BY <3>2, <3>4, <3>5
  <2>3. ASSUME Len(summaries) = 2
        PROVE  \A r \in ToSet(summaries[2].rows) : r \in ToSet(summaries[1].rows)
    <3>1. summaries[1].rows = Rows(PowerA) /\ summaries[2].rows = Rows(PowerB)
      BY <2>3, BothHeld DEF Summary, Summarized
    <3> QED
      BY <3>1, LessPowerLessRows DEF ToSet
  <2> QED
    BY <2>1, <2>2, <2>3 DEF ComparisonIsSound, SafestIsSafe, SharedPhysicsUnchanged
<1>2. ScriptInvariant => HeldInvariant
  BY DEF ScriptInvariant
<1> QED
  BY <1>1, <1>2, AlwaysCatalog, AlwaysScript, PTL

\* The variables keep their types: the script holds no more summaries than the
\* cases it ran, each with a safest candidate of its own rows.
THEOREM TypeCorrect == Spec => []TypeOK
<1>1. CatalogInvariant /\ ScriptInvariant => TypeOK
  <2> SUFFICES ASSUME CatalogInvariant, ScriptInvariant PROVE TypeOK
    OBVIOUS
  <2>1. ToSet(catalog) \subseteq Designs /\ Len(catalog) = 2 /\ req \in Requirements
    BY DEF CatalogInvariant, ToSet
  <2>2. pc \in {"done", "case"} \union ToSet(Files)
    BY FileNames DEF ScriptInvariant, PlaceInvariant
  <2>3. Len(summaries) <= IF pc = "case" THEN 1 ELSE 2
    BY FilesDiffer DEF ScriptInvariant, PlaceInvariant, HeldInvariant
  <2>4. ASSUME NEW s \in ToSet(summaries) PROVE s.safest \in DOMAIN s.rows
    <3>1. PICK power : s = Summary(power) /\ DOMAIN Rows(power) # {}
      BY HeldSummary DEF ScriptInvariant
    <3>2. s.safest = Safest(Rows(power)) /\ s.rows = Rows(power)
      BY <3>1 DEF Summary, Summarized
    <3> QED
      BY <3>1, <3>2, RowsRanked
  <2>5. files \in [ToSet(Files) -> (-MaxRuns)..MaxRuns]
    <3>1. PICK r, m \in Nat : r = runs /\ m = MaxRuns /\ r <= m
      BY ExportAssumption DEF ScriptInvariant, FileInvariant
    <3>2. ASSUME NEW i \in 1..11 PROVE files[Files[i]] \in (-m)..m
      <4>1. PICK f \in Int : f = files[Files[i]]
        BY FileNames DEF ScriptInvariant, FileInvariant
      <4>2. -r <= f /\ f <= r
        BY <3>1, <4>1 DEF ScriptInvariant, FileInvariant
      <4>3. f \in (-m)..m
        BY <3>1, <4>2
      <4> QED
        BY <4>1, <4>3
    <3>3. \A f \in ToSet(Files) : files[f] \in (-MaxRuns)..MaxRuns
      BY <3>1, <3>2, FileNames
    <3> QED
      BY <3>3 DEF ScriptInvariant, FileInvariant
  <2>6. runs \in 0..MaxRuns
    BY DEF ScriptInvariant, FileInvariant
  <2> QED
    BY <2>1, <2>2, <2>3, <2>4, <2>5, <2>6 DEF TypeOK
<1> QED
  BY <1>1, AlwaysCatalog, AlwaysScript, PTL
=============================================================================
