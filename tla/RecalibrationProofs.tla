------------------------ MODULE RecalibrationProofs -------------------------
(***************************************************************************)
(* Theorems about Recalibration, for any number of scheduled runs and      *)
(* approvers, any telemetry and any bounds.                                *)
(***************************************************************************)
EXTENDS Recalibration, TLAPS

Policy == [high : Int, medium : Int, speed : Int, efficiency : Int, samples : Int]

\* A policy whose thresholds are in order, and within the clamps as far as a
\* reader of a proposal rests on them.
Ordered == {policy \in Policy :
              /\ policy.high + 200 <= policy.medium
              /\ 500 <= policy.high
              /\ 7000 <= policy.efficiency /\ policy.efficiency <= 9500
              /\ 5 <= policy.samples /\ policy.samples <= 500}

\* What recalibrate_policy makes: a candidate only of enough telemetry.
Proper == {p \in [id : Nat \ {0}, gate : {"pending", "approved"}, evidence : Telemetry,
                  candidate : Ordered \cup {None}] :
              p.candidate # None => Enough(p.evidence)}


----------------------------------------------------------------------------
(* The clamps *)

\* The least of two integers.
LEMMA MinOfTwo ==
    ASSUME NEW a \in Int, NEW b \in Int
    PROVE  Min({a, b}) \in {a, b} /\ Min({a, b}) <= a /\ Min({a, b}) <= b
  <1>1. \E x \in {a, b} : \A y \in {a, b} : x <= y
    OBVIOUS
  <1> QED
    BY <1>1 DEF Min

\* The greatest of two integers.
LEMMA MaxOfTwo ==
    ASSUME NEW a \in Int, NEW b \in Int
    PROVE  Max({a, b}) \in {a, b} /\ Max({a, b}) >= a /\ Max({a, b}) >= b
  <1>1. \E x \in {a, b} : \A y \in {a, b} : x >= y
    OBVIOUS
  <1> QED
    BY <1>1 DEF Max

\* A clamp yields an integer between its bounds, and not below any bound that
\* its argument respects and that lies below the upper one.
LEMMA Clamped ==
    ASSUME NEW value \in Int, NEW low \in Int, NEW high \in Int, low <= high
    PROVE  /\ Clamp(value, low, high) \in Int
           /\ low <= Clamp(value, low, high) /\ Clamp(value, low, high) <= high
           /\ \A floor \in Int : floor <= value /\ floor <= high => floor <= Clamp(value, low, high)
  <1>1. /\ Min({high, value}) \in Int
        /\ Min({high, value}) <= high
        /\ Min({high, value}) \in {high, value}
    BY MinOfTwo
  <1>2. /\ Max({low, Min({high, value})}) \in {low, Min({high, value})}
        /\ Max({low, Min({high, value})}) >= low
        /\ Max({low, Min({high, value})}) >= Min({high, value})
    BY <1>1, MaxOfTwo
  <1> QED
    BY <1>1, <1>2 DEF Clamp

\* The gap between the two margins survives the clamping of both: the lower
\* one stays 800 below the bound of the upper one.
LEMMA GapKept ==
    ASSUME NEW high \in Int, high <= 4000, NEW margin \in Int
    PROVE  Medium(V1, high, margin) \in Int /\ high + 200 <= Medium(V1, high, margin)
  <1> DEFINE blend == (V1.medium * 85 + margin * 15) \div 100
             raised == Max({high + 200, blend})
  <1>1. blend \in Int
    BY DEF V1
  <1> HIDE DEF blend
  <1>2. raised \in Int /\ raised >= high + 200
    BY <1>1, MaxOfTwo
  <1> HIDE DEF raised
  <1>3. /\ Clamp(raised, 800, 5000) \in Int
        /\ \A floor \in Int : floor <= raised /\ floor <= 5000 => floor <= Clamp(raised, 800, 5000)
    BY <1>2, Clamped
  <1>4. high + 200 <= Clamp(raised, 800, 5000)
    BY <1>2, <1>3
  <1> QED
    BY <1>3, <1>4 DEF Medium, raised, blend

LEMMA ProposedIsOrdered ==
    ASSUME NEW t \in Telemetry
    PROVE  Propose(V1, t) \in Ordered
  <1> DEFINE rawHigh == (V1.high * 8 + t.margin * 2) \div 10 + t.risk \div 20
             rawSpeed == V1.speed + 50 * t.lead
             rawEfficiency == (V1.efficiency * 7 + t.efficiency * 3) \div 10 - (t.risk * 2) \div 275
             rawSamples == V1.samples + t.samples \div 10
             high == Clamp(rawHigh, 500, 4000)
             speed == Clamp(rawSpeed, 10000, 12000)
             efficiency == Clamp(rawEfficiency, 7000, 9500)
             samples == Clamp(rawSamples, 5, 500)
  <1>1. /\ t.lead \in Int /\ t.risk \in Int /\ t.margin \in Int
        /\ t.efficiency \in Int /\ t.samples \in Int
    BY RecalibrationAssumption
  <1>2. rawHigh \in Int /\ rawSpeed \in Int /\ rawEfficiency \in Int /\ rawSamples \in Int
    BY <1>1 DEF V1
  <1> HIDE DEF rawHigh, rawSpeed, rawEfficiency, rawSamples
  <1>3. high \in Int /\ 500 <= high /\ high <= 4000
    BY <1>2, Clamped
  <1>4. speed \in Int
    BY <1>2, Clamped
  <1>5. efficiency \in Int /\ 7000 <= efficiency /\ efficiency <= 9500
    BY <1>2, Clamped
  <1>6. samples \in Int /\ 5 <= samples /\ samples <= 500
    BY <1>2, Clamped
  <1> HIDE DEF high, speed, efficiency, samples
  <1> DEFINE medium == Medium(V1, high, t.margin)
  <1>7. medium \in Int /\ high + 200 <= medium
    BY <1>1, <1>3, GapKept
  <1>8. Propose(V1, t) = [high |-> high, medium |-> medium, speed |-> speed,
                          efficiency |-> efficiency, samples |-> samples]
    BY DEF Propose, high, speed, efficiency, samples, rawHigh, rawSpeed, rawEfficiency, rawSamples
  <1> HIDE DEF medium
  <1> QED
    BY <1>3, <1>4, <1>5, <1>6, <1>7, <1>8 DEF Ordered, Policy
----------------------------------------------------------------------------
(* The inductive invariant *)

\* A process that is not idle holds a proper proposal.
Types ==
    /\ scheduler \in [Schedulers -> [pc : {"idle", "truncate", "fill"}, proposal : Proper \cup {None}]]
    /\ \A s \in Schedulers : scheduler[s].pc # "idle" => scheduler[s].proposal \in Proper
    /\ approver \in [Approvers -> [pc : {"idle", "open_gate", "write_gate", "policy", "fill_policy"},
                                   proposal : Proper \cup {None}]]
    /\ \A a \in Approvers : approver[a].pc # "idle" => approver[a].proposal \in Proper
    /\ Written(latest) => latest \in Proper
    /\ generated \in Nat

\* Everybody's identifiers were handed out.
Named ==
    /\ \A s \in Schedulers : scheduler[s].pc # "idle" => scheduler[s].proposal.id <= generated
    /\ \A a \in Approvers : approver[a].pc # "idle" => approver[a].proposal.id <= generated
    /\ Written(latest) => latest.id <= generated
    /\ approvals \subseteq 1 .. generated

\* A proposal is a scheduled run's alone until it is in the file.
Fresh ==
    \A s \in Schedulers : scheduler[s].pc # "idle" =>
        /\ scheduler[s].proposal.id \notin approvals
        /\ Written(latest) => latest.id # scheduler[s].proposal.id
        /\ \A a \in Approvers :
              approver[a].pc # "idle" => approver[a].proposal.id # scheduler[s].proposal.id
        /\ \A r \in Schedulers :
              r # s /\ scheduler[r].pc # "idle" => scheduler[r].proposal.id # scheduler[s].proposal.id

\* An approved proposal is read, carried and shown as approved.
Gates ==
    /\ \A a \in Approvers : approver[a].pc # "idle" => approver[a].proposal.gate = "approved"
    /\ Written(latest) /\ latest.id \in approvals => latest.gate = "approved"

\* Who writes the policy has a candidate and has written the gate.
Promoted ==
    /\ \A a \in Approvers : approver[a].pc \in {"policy", "fill_policy"} =>
          approver[a].proposal.id \in approvals /\ approver[a].proposal.candidate # None
    /\ ActiveWasApproved

Inv == Types /\ Named /\ Fresh /\ Gates /\ Promoted

\* At first nobody holds anything and no file is there.
LEMMA InitInv ==
    ASSUME Init PROVE Inv
  <1>1. Idle \in [pc : {"idle", "truncate", "fill"}, proposal : Proper \cup {None}]
    BY DEF Idle
  <1>2. Idle \in [pc : {"idle", "open_gate", "write_gate", "policy", "fill_policy"},
                  proposal : Proper \cup {None}]
    BY DEF Idle
  <1> QED
    BY <1>1, <1>2 DEF Init, Inv, Types, Named, Fresh, Gates, Promoted, ActiveWasApproved, Idle, Written

\* What a scheduled run generates is proper.
LEMMA ProposalIsProper ==
    ASSUME NEW id \in Nat \ {0}, NEW t \in Telemetry
    PROVE  /\ Proposal(id, t) \in Proper
           /\ Proposal(id, t).id = id
  <1>1. (IF Enough(t) THEN Propose(Base, t) ELSE None) \in Ordered \cup {None}
    BY ProposedIsOrdered DEF Base
  <1> DEFINE candidate == IF Enough(t) THEN Propose(Base, t) ELSE None
  <1>2. candidate # None => Enough(t)
    OBVIOUS
  <1>3. Proposal(id, t) = [id |-> id, gate |-> "pending", evidence |-> t, candidate |-> candidate]
    BY DEF Proposal
  <1>4. candidate \in Ordered \cup {None}
    BY <1>1
  <1> HIDE DEF candidate
  <1> QED
    BY <1>2, <1>3, <1>4 DEF Proper

\* A new identifier is above all those handed out.
LEMMA GenerateInv ==
    ASSUME Inv, NEW s \in Schedulers, Generate(s) PROVE Inv'
  <1>1. PICK t \in Telemetry : scheduler' = [scheduler EXCEPT ![s] = At("truncate", Proposal(generated + 1, t))]
    BY DEF Generate
  <1> DEFINE q == Proposal(generated + 1, t)
  <1>2. q \in Proper /\ q.id = generated + 1
    BY ProposalIsProper DEF Inv, Types
  <1> HIDE DEF q
  <1>3. /\ generated' = generated + 1 /\ generated \in Nat
        /\ UNCHANGED <<latest, active, approver, approvals>>
    BY DEF Generate, Inv, Types
  <1>4. \A r \in Schedulers :
           scheduler'[r] = IF r = s THEN [pc |-> "truncate", proposal |-> q] ELSE scheduler[r]
    BY <1>1 DEF q, At, Inv, Types
  <1>5. Types'
    <2>1. scheduler' \in [Schedulers -> [pc : {"idle", "truncate", "fill"}, proposal : Proper \cup {None}]]
      BY <1>1, <1>2 DEF q, At, Inv, Types
    <2> QED
      BY <2>1, <1>2, <1>3, <1>4 DEF Inv, Types, Written
  <1>6. Named'
    BY <1>2, <1>3, <1>4 DEF Inv, Types, Named, Written, Proper
  <1>7. Fresh'
    BY <1>2, <1>3, <1>4 DEF Inv, Types, Named, Fresh, Written, Proper
  <1>8. Gates' /\ Promoted'
    BY <1>3 DEF Inv, Gates, Promoted, ActiveWasApproved, Written
  <1> QED
    BY <1>5, <1>6, <1>7, <1>8 DEF Inv

\* A torn file is none, and what fills it is nobody's approved proposal.
LEMMA WriteLatestInv ==
    ASSUME Inv, NEW s \in Schedulers, WriteLatest(s) PROVE Inv'
  <1> DEFINE q == scheduler[s].proposal
  <1>1. q \in Proper /\ scheduler[s].pc # "idle"
    BY DEF Inv, Types, WriteLatest
  <1>2. UNCHANGED <<active, approver, generated, approvals>>
    BY DEF WriteLatest
  <1>3. CASE latest' = Torn /\ scheduler' = [scheduler EXCEPT ![s].pc = "fill"]
    <2>1. ~ Written(latest)'
      BY <1>3 DEF Written
    <2>2. \A r \in Schedulers : /\ scheduler'[r].proposal = scheduler[r].proposal
                                /\ scheduler'[r].pc # "idle" <=> scheduler[r].pc # "idle"
      BY <1>1, <1>3 DEF Inv, Types
    <2>3. Types'
      <3>1. scheduler' \in [Schedulers -> [pc : {"idle", "truncate", "fill"}, proposal : Proper \cup {None}]]
        BY <1>3 DEF Inv, Types
      <3> QED
        BY <3>1, <2>1, <2>2, <1>2 DEF Inv, Types
    <2>4. Named' /\ Fresh' /\ Gates' /\ Promoted'
      BY <2>1, <2>2, <1>2 DEF Inv, Named, Fresh, Gates, Promoted, ActiveWasApproved, Written
    <2> QED
      BY <2>3, <2>4 DEF Inv
  <1>4. CASE latest' = scheduler[s].proposal /\ scheduler' = [scheduler EXCEPT ![s] = Idle]
    <2>1. latest' = q
      BY <1>4
    <2>2. \A r \in Schedulers : scheduler'[r] = IF r = s THEN Idle ELSE scheduler[r]
      BY <1>4 DEF Inv, Types
    <2>3. /\ q.id <= generated /\ q.id \notin approvals
          /\ \A r \in Schedulers :
                r # s /\ scheduler[r].pc # "idle" => scheduler[r].proposal.id # q.id
      BY <1>1 DEF Inv, Named, Fresh
    <2>4. Types'
      <3>1. scheduler' \in [Schedulers -> [pc : {"idle", "truncate", "fill"}, proposal : Proper \cup {None}]]
        BY <1>4 DEF Inv, Types, Idle
      <3> QED
        BY <3>1, <2>1, <2>2, <1>1, <1>2 DEF Inv, Types, Idle
    <2> HIDE DEF q
    <2>5. Named'
      BY <2>1, <2>2, <2>3, <1>2 DEF Inv, Named, Idle
    <2>6. Fresh'
      BY <2>1, <2>2, <2>3, <1>2 DEF Inv, Fresh, Idle
    <2>7. Gates' /\ Promoted'
      BY <2>1, <2>3, <1>2 DEF Inv, Gates, Promoted, ActiveWasApproved, Written
    <2> QED
      BY <2>4, <2>5, <2>6, <2>7 DEF Inv
  <1>5. CASE latest' = Torn /\ scheduler' = [scheduler EXCEPT ![s] = Idle]
    <2>1. ~ Written(latest)'
      BY <1>5 DEF Written
    <2>2. \A r \in Schedulers : scheduler'[r].pc # "idle" => scheduler'[r] = scheduler[r]
      BY <1>5 DEF Inv, Types, Idle
    <2>3. Types'
      <3>1. scheduler' \in [Schedulers -> [pc : {"idle", "truncate", "fill"}, proposal : Proper \cup {None}]]
        BY <1>5 DEF Inv, Types, Idle
      <3> QED
        BY <3>1, <2>1, <2>2, <1>2 DEF Inv, Types
    <2>4. Named' /\ Fresh' /\ Gates' /\ Promoted'
      BY <2>1, <2>2, <1>2 DEF Inv, Named, Fresh, Gates, Promoted, ActiveWasApproved, Written
    <2> QED
      BY <2>3, <2>4 DEF Inv
  <1>6. \/ latest' = Torn /\ scheduler' = [scheduler EXCEPT ![s].pc = "fill"]
        \/ latest' = scheduler[s].proposal /\ scheduler' = [scheduler EXCEPT ![s] = Idle]
        \/ latest' = Torn /\ scheduler' = [scheduler EXCEPT ![s] = Idle]
    BY DEF WriteLatest, Filled
  <1> QED
    BY <1>3, <1>4, <1>5, <1>6

\* The proposal that is read is no scheduled run's any more.
LEMMA ReadInv ==
    ASSUME Inv, NEW a \in Approvers, Read(a) PROVE Inv'
  <1> DEFINE q == [latest EXCEPT !.gate = "approved"]
  <1>1. /\ Written(latest) /\ latest \in Proper
        /\ UNCHANGED <<latest, active, scheduler, generated, approvals>>
    BY DEF Inv, Types, Read
  <1>2. q \in Proper /\ q.id = latest.id /\ q.gate = "approved"
    BY <1>1 DEF Proper
  <1>3. approver' = [approver EXCEPT ![a] = [pc |-> "open_gate", proposal |-> q]]
    BY DEF Read, Move, At
  <1> HIDE DEF q
  <1>4. \A b \in Approvers :
           approver'[b] = IF b = a THEN [pc |-> "open_gate", proposal |-> q] ELSE approver[b]
    BY <1>3 DEF Inv, Types
  <1>5. Types'
    <2>1. approver' \in [Approvers -> [pc : {"idle", "open_gate", "write_gate", "policy", "fill_policy"},
                                       proposal : Proper \cup {None}]]
      BY <1>2, <1>3 DEF Inv, Types
    <2> QED
      BY <2>1, <1>1, <1>2, <1>4 DEF Inv, Types, Written
  <1>6. Named' /\ Fresh'
    BY <1>1, <1>2, <1>4 DEF Inv, Named, Fresh, Written
  <1>7. Gates' /\ Promoted'
    BY <1>1, <1>2, <1>4 DEF Inv, Gates, Promoted, ActiveWasApproved, Written
  <1> QED
    BY <1>5, <1>6, <1>7 DEF Inv

\* Who opens the file tears it.
LEMMA OpenGateInv ==
    ASSUME Inv, NEW a \in Approvers, OpenGate(a) PROVE Inv'
  <1>1. /\ approver[a].pc = "open_gate"
        /\ ~ Written(latest)'
        /\ UNCHANGED <<active, scheduler, generated, approvals>>
    BY DEF OpenGate, Written
  <1>2. approver' = [approver EXCEPT ![a] = [approver[a] EXCEPT !.pc = "write_gate"]]
    BY DEF OpenGate, Move
  <1>3. \A b \in Approvers :
           approver'[b] = IF b = a THEN [approver[a] EXCEPT !.pc = "write_gate"] ELSE approver[b]
    BY <1>2 DEF Inv, Types
  <1>4. \A b \in Approvers : /\ approver'[b].proposal = approver[b].proposal
                             /\ approver'[b].pc # "idle" <=> approver[b].pc # "idle"
                             /\ approver'[b].pc \in {"policy", "fill_policy"} =>
                                   approver[b].pc \in {"policy", "fill_policy"}
    BY <1>1, <1>3 DEF Inv, Types
  <1>5. Types'
    <2>1. approver' \in [Approvers -> [pc : {"idle", "open_gate", "write_gate", "policy", "fill_policy"},
                                       proposal : Proper \cup {None}]]
      BY <1>2 DEF Inv, Types
    <2> QED
      BY <2>1, <1>1, <1>4 DEF Inv, Types
  <1>6. Named' /\ Fresh' /\ Gates' /\ Promoted'
    BY <1>1, <1>4 DEF Inv, Named, Fresh, Gates, Promoted, ActiveWasApproved, Written
  <1> QED
    BY <1>5, <1>6 DEF Inv

\* The gate is shown as approved from the moment it counts as approved.
LEMMA WriteGateInv ==
    ASSUME Inv, NEW a \in Approvers, WriteGate(a) PROVE Inv'
  <1> DEFINE p == approver[a].proposal
             st == IF p.candidate = None THEN Idle ELSE At("policy", p)
  <1>1. approver[a].pc # "idle" /\ p \in Proper /\ p.gate = "approved" /\ p.id \in 1 .. generated
    BY DEF WriteGate, Inv, Types, Gates, Named, Proper
  <1>2. /\ Written(latest)' => latest' = p
        /\ approvals' = approvals \cup {p.id}
        /\ approver' = [approver EXCEPT ![a] = st]
        /\ UNCHANGED <<active, scheduler, generated>>
    BY DEF WriteGate, Move, Filled, Written
  <1>3. /\ st \in [pc : {"idle", "policy"}, proposal : Proper \cup {None}]
        /\ st.pc # "idle" => st.proposal = p /\ p.candidate # None
    BY <1>1 DEF Idle, At
  <1>4. \A s \in Schedulers : scheduler[s].pc # "idle" => scheduler[s].proposal.id # p.id
    BY <1>1 DEF Inv, Fresh
  <1> HIDE DEF p, st
  <1>5. \A b \in Approvers : approver'[b] = IF b = a THEN st ELSE approver[b]
    BY <1>2 DEF Inv, Types
  <1>6. Types'
    <2>1. approver' \in [Approvers -> [pc : {"idle", "open_gate", "write_gate", "policy", "fill_policy"},
                                       proposal : Proper \cup {None}]]
      BY <1>2, <1>3 DEF Inv, Types
    <2> QED
      BY <2>1, <1>1, <1>2, <1>3, <1>5 DEF Inv, Types
  <1>7. Named'
    <2>1. approvals' \subseteq 1 .. generated'
      BY <1>1, <1>2 DEF Inv, Named
    <2>2. p.id <= generated
      BY <1>1 DEF Inv, Types
    <2> QED
      BY <2>1, <2>2, <1>2, <1>3, <1>5 DEF Inv, Named
  <1>8. Fresh'
    BY <1>1, <1>2, <1>3, <1>4, <1>5 DEF Inv, Fresh
  <1>9. Gates'
    BY <1>1, <1>2, <1>3, <1>5 DEF Inv, Gates
  <1>10. Promoted'
    BY <1>1, <1>2, <1>3, <1>5 DEF Inv, Promoted, ActiveWasApproved, Written
  <1> QED
    BY <1>6, <1>7, <1>8, <1>9, <1>10 DEF Inv

\* What becomes the policy in force was approved, of enough telemetry.
LEMMA WritePolicyInv ==
    ASSUME Inv, NEW a \in Approvers, WritePolicy(a) PROVE Inv'
  <1> DEFINE p == approver[a].proposal
  <1>1. /\ approver[a].pc \in {"policy", "fill_policy"}
        /\ UNCHANGED <<latest, scheduler, generated, approvals>>
    BY DEF WritePolicy
  <1>2. p \in Proper /\ p.id \in approvals /\ p.candidate # None
    BY <1>1 DEF Inv, Types, Promoted
  <1>3. p.evidence.samples >= MinSamples
    BY <1>2 DEF Proper, Enough
  <1>4. /\ approver' \in [Approvers -> [pc : {"idle", "open_gate", "write_gate", "policy", "fill_policy"},
                                        proposal : Proper \cup {None}]]
        /\ \A b \in Approvers : approver'[b].pc # "idle" =>
              /\ approver[b].pc # "idle"
              /\ approver'[b].proposal = approver[b].proposal
              /\ approver'[b].pc \in {"policy", "fill_policy"} => approver[b].pc \in {"policy", "fill_policy"}
    <2>1. CASE approver' = [approver EXCEPT ![a] = [approver[a] EXCEPT !.pc = "fill_policy"]]
      BY <2>1, <1>1 DEF Inv, Types
    <2>2. CASE approver' = [approver EXCEPT ![a] = Idle]
      BY <2>2, <1>1 DEF Inv, Types, Idle
    <2> QED
      BY <2>1, <2>2 DEF WritePolicy, Move
  <1>5. Types' /\ Named' /\ Fresh' /\ Gates'
    BY <1>1, <1>4 DEF Inv, Types, Named, Fresh, Gates, Written
  <1>6. ActiveWasApproved'
    <2>1. CASE active' = Torn
      BY <2>1 DEF ActiveWasApproved, Written
    <2>2. CASE active' = [id |-> p.id, policy |-> p.candidate, evidence |-> p.evidence,
                          sections |-> Sections]
      BY <2>2, <1>1, <1>2, <1>3 DEF ActiveWasApproved
    <2> QED
      BY <2>1, <2>2 DEF WritePolicy, Filled
  <1>7. Promoted'
    BY <1>1, <1>4, <1>6 DEF Inv, Promoted
  <1> QED
    BY <1>5, <1>7 DEF Inv

\* Who dies holds nothing.
LEMMA DieInv ==
    ASSUME Inv, Die PROVE Inv'
  <1>1. UNCHANGED <<latest, active, generated, approvals>>
    BY DEF Die
  <1>2. CASE /\ UNCHANGED approver
             /\ \E s \in Schedulers : scheduler' = [scheduler EXCEPT ![s] = Idle]
    <2>1. /\ scheduler' \in [Schedulers -> [pc : {"idle", "truncate", "fill"}, proposal : Proper \cup {None}]]
          /\ \A s \in Schedulers : scheduler'[s].pc # "idle" => scheduler'[s] = scheduler[s]
      BY <1>2 DEF Inv, Types, Idle
    <2> QED
      BY <2>1, <1>1, <1>2 DEF Inv, Types, Named, Fresh, Gates, Promoted, ActiveWasApproved, Written
  <1>3. CASE /\ UNCHANGED scheduler
             /\ \E a \in Approvers : approver' = [approver EXCEPT ![a] = Idle]
    <2>1. /\ approver' \in [Approvers -> [pc : {"idle", "open_gate", "write_gate", "policy", "fill_policy"},
                                          proposal : Proper \cup {None}]]
          /\ \A a \in Approvers : approver'[a].pc # "idle" => approver'[a] = approver[a]
      BY <1>3 DEF Inv, Types, Idle
    <2> QED
      BY <2>1, <1>1, <1>3 DEF Inv, Types, Named, Fresh, Gates, Promoted, ActiveWasApproved, Written
  <1> QED
    BY <1>2, <1>3 DEF Die

\* Every step keeps the invariant.
LEMMA NextInv ==
    ASSUME Inv, [Next]_vars PROVE Inv'
  <1>1. CASE UNCHANGED vars
    BY <1>1 DEF vars, Inv, Types, Named, Fresh, Gates, Promoted, ActiveWasApproved, Written
  <1>2. CASE \E s \in Schedulers : Generate(s) \/ WriteLatest(s)
    BY <1>2, GenerateInv, WriteLatestInv
  <1>3. CASE \E a \in Approvers : Read(a) \/ OpenGate(a) \/ WriteGate(a) \/ WritePolicy(a)
    BY <1>3, ReadInv, OpenGateInv, WriteGateInv, WritePolicyInv
  <1>4. CASE Die
    BY <1>4, DieInv
  <1> QED
    BY <1>1, <1>2, <1>3, <1>4 DEF Next

\* The bounds of the model keep their counts.
Counted == promotions \in 0 .. MaxPromotions /\ deaths \in 0 .. MaxDeaths /\ generated \in 0 .. MaxProposals

LEMMA AlwaysCounted == Spec => []Counted
  <1>1. Init => Counted
    BY RecalibrationAssumption DEF Init, Counted
  <1>2. ASSUME Counted, [Next]_vars PROVE Counted'
    <2>1. ASSUME NEW s \in Schedulers, Generate(s) PROVE Counted'
      BY <1>2, <2>1, RecalibrationAssumption DEF Generate, Counted
    <2>2. ASSUME NEW a \in Approvers, Read(a) PROVE Counted'
      BY <1>2, <2>2, RecalibrationAssumption DEF Read, Counted
    <2>3. ASSUME NEW s \in Schedulers, WriteLatest(s) PROVE Counted'
      BY <1>2, <2>3 DEF WriteLatest, Counted
    <2>4. ASSUME NEW a \in Approvers, OpenGate(a) \/ WriteGate(a) \/ WritePolicy(a) PROVE Counted'
      BY <1>2, <2>4 DEF OpenGate, WriteGate, WritePolicy, Counted
    <2>5. CASE Die
      BY <1>2, <2>5, RecalibrationAssumption DEF Die, Counted
    <2>6. CASE UNCHANGED vars
      BY <1>2, <2>6 DEF vars, Counted
    <2> QED
      BY <1>2, <2>1, <2>2, <2>3, <2>4, <2>5, <2>6 DEF Next
  <1> QED
    BY <1>1, <1>2, PTL DEF Spec

----------------------------------------------------------------------------
(* What it shows *)

\* Processes, files and counters keep their types, and whatever proposal can be
\* read has its thresholds within the clamps (_clamp, _propose_updates).
THEOREM TypeCorrect == Spec => []TypeOK
  <1>1. Inv /\ Counted => TypeOK
    <2> SUFFICES ASSUME Inv, Counted PROVE TypeOK
      OBVIOUS
    <2>1. scheduler \in [Schedulers -> [pc : {"idle", "truncate", "fill"},
                                       proposal : {scheduler[s].proposal : s \in Schedulers}]]
      <3>1. scheduler \in [Schedulers -> [pc : {"idle", "truncate", "fill"}, proposal : Proper \cup {None}]]
        BY DEF Inv, Types
      <3>2. ASSUME NEW s \in Schedulers
            PROVE  scheduler[s] \in [pc : {"idle", "truncate", "fill"},
                                     proposal : {scheduler[r].proposal : r \in Schedulers}]
        BY <3>1
      <3> QED
        BY <3>1, <3>2
    <2>2. \A a \in Approvers :
            approver[a].pc \in {"idle", "open_gate", "write_gate", "policy", "fill_policy"}
      BY DEF Inv, Types
    <2>3. approvals \subseteq 1 .. generated
      BY DEF Inv, Named
    <2>4. ASSUME NEW p \in Proposals, p.candidate # None
          PROVE  PolicyTyped(p.candidate)
      <3>1. p \in Proper
        BY DEF Proposals, Inv, Types
      <3>2. PICK policy \in Ordered : policy = p.candidate
        BY <2>4, <3>1 DEF Proper
      <3>3. PICK high, efficiency, samples \in Int :
              /\ p.candidate.high = high /\ 500 <= high
              /\ p.candidate.efficiency = efficiency /\ 7000 <= efficiency /\ efficiency <= 9500
              /\ p.candidate.samples = samples /\ 5 <= samples /\ samples <= 500
        BY <3>2 DEF Ordered, Policy
      <3>4. high > 0
        BY <3>3
      <3>5. efficiency \in 1 .. 10000
        BY <3>3
      <3>6. samples \in 5 .. 1000
        BY <3>3
      <3> QED
        BY <3>3, <3>4, <3>5, <3>6 DEF PolicyTyped
    <2>5. /\ generated \in 0 .. MaxProposals
          /\ promotions \in 0 .. MaxPromotions /\ deaths \in 0 .. MaxDeaths
      BY DEF Counted
    <2> QED
      BY ONLY <2>1, <2>2, <2>3, <2>4, <2>5 DEF TypeOK
  <1> QED
    BY <1>1, InitInv, NextInv, AlwaysCounted, PTL DEF Spec


\* A margin that is a high risk is a medium one too in every proposal anybody
\* can read, for every telemetry (_propose_updates, its clamps and its gap).
THEOREM ThresholdsStayOrdered == Spec => []HighBelowMedium
  <1>1. Inv => HighBelowMedium
    <2> SUFFICES ASSUME Inv, NEW p \in Proposals, p.candidate # None
                 PROVE  p.candidate.high + 200 <= p.candidate.medium
      BY DEF HighBelowMedium
    <2>1. p \in Proper
      BY DEF Proposals, Inv, Types
    <2> QED
      BY <2>1 DEF Proper, Ordered
  <1> QED
    BY <1>1, InitInv, NextInv, PTL DEF Spec

\* The policy in force had its gate approved first and rests on enough
\* telemetry, whatever interleaves, overwrites and dies
\* (promote_recalibrated_policy).
THEOREM PromotedWasApproved == Spec => []ActiveWasApproved
  <1>1. Inv => ActiveWasApproved
    BY DEF Inv, Promoted
  <1> QED
    BY <1>1, InitInv, NextInv, PTL DEF Spec

\* latest.json never shows the policy in force as pending.
THEOREM PromotedIsOnRecord == Spec => []ActiveIsOnRecord
  <1>1. Inv => ActiveIsOnRecord
    BY DEF Inv, Gates, Promoted, ActiveWasApproved, ActiveIsOnRecord
  <1> QED
    BY <1>1, InitInv, NextInv, PTL DEF Spec
=============================================================================
