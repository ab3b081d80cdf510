-------------------------- MODULE GenerationProofs --------------------------
(***************************************************************************)
(* Theorems about Generation, for any catalog, any set of requests, any    *)
(* number of threads and samples and whatever the generator yields.        *)
(***************************************************************************)
EXTENDS Generation, NumberLemmas, SequenceTheorems, FiniteSetTheorems

----------------------------------------------------------------------------
(* The order of the ids *)

EveryId == UNION {Ids(topology) : topology \in Topologies}

Quads == Int \X Int \X Int \X Int

\* Written out, so that the provers need not look for the place.
LEMMA EarlierIs ==
    ASSUME NEW i, NEW j
    PROVE  Earlier(i, j) <=>
              \/ i[1] < j[1]
              \/ i[1] = j[1] /\ i[2] < j[2]
              \/ i[1] = j[1] /\ i[2] = j[2] /\ i[3] < j[3]
              \/ i[1] = j[1] /\ i[2] = j[2] /\ i[3] = j[3] /\ i[4] < j[4]
  <1>1. /\ 1 .. 4 = {1, 2, 3, 4} /\ 1 .. 1 - 1 = {} /\ 1 .. 2 - 1 = {1}
        /\ 1 .. 3 - 1 = {1, 2} /\ 1 .. 4 - 1 = {1, 2, 3}
    OBVIOUS
  <1> QED
    BY <1>1 DEF Earlier

LEMMA EarlierOrders ==
    ASSUME NEW i \in Quads, NEW j \in Quads, NEW k \in Quads
    PROVE  /\ ~Earlier(i, i)
           /\ Earlier(i, j) /\ Earlier(j, k) => Earlier(i, k)
           /\ i # j => Earlier(i, j) \/ Earlier(j, i)
  <1>1. /\ {i[1], i[2], i[3], i[4], j[1], j[2], j[3], j[4], k[1], k[2], k[3], k[4]} \subseteq Int
        /\ i = <<i[1], i[2], i[3], i[4]>> /\ j = <<j[1], j[2], j[3], j[4]>>
    BY DEF Quads
  <1> QED
    BY <1>1, EarlierIs

LEMMA IdsAreQuads == EveryId \subseteq Quads
  <1>1. \A topology \in Topologies : Ids(topology) \subseteq Quads
    BY DEF Topologies, Ids, Places, Quads
  <1> QED
    BY <1>1 DEF EveryId

----------------------------------------------------------------------------
(* What candidates are made of *)

\* A requirement after normalize_requirement.
Normalized(n) == {n.travel, n.speed, n.payload} \subseteq Int /\ n.root \in Nat

LEMMA NormalizeTyped ==
    ASSUME NEW req \in Requests
    PROVE  Normalized(Normalize(req))
  <1>1. PICK travel, speed, payload \in Int, root \in Nat :
          /\ req.travel.value = travel /\ req.speed.value = speed
          /\ req.payload.value = payload /\ req.root = root
    BY RequestAssumption
  <1>2. \A unit : Scale(unit) \in Int
    BY DEF Scale
  <1>3. InBase(req.travel) \in Int /\ InBase(req.speed) \in Int
    BY <1>1, <1>2 DEF InBase
  <1>4. InBase(req.payload) \div 1000 \in Int
    <2>1. PICK base \in Int : base = InBase(req.payload)
      BY <1>1, <1>2 DEF InBase
    <2> QED
      BY <2>1, QuotientSign
  <1> QED
    BY <1>1, <1>3, <1>4 DEF Normalize, Normalized

\* The fields of a design that the scores read.
Sound(d) ==
    /\ d.id \in EveryId
    /\ d.motor \in Motor
    /\ {d.efficiency, d.margin, d.mass, d.cost} \subseteq Int

\* A design is sound if what it takes to drive it is positive.
LEMMA DesignSound ==
    ASSUME NEW id \in EveryId, NEW topology, NEW motor \in Motor, NEW drive, NEW part, NEW speed,
           drive.mass \in Nat, drive.cost \in Nat, part.mass \in Nat, part.cost \in Nat,
           NEW available \in Int, NEW required \in Nat \ {0}, NEW efficiency \in Int
    PROVE  /\ Sound(Design(id, topology, motor, drive, part, speed, available, required, efficiency))
           /\ Design(id, topology, motor, drive, part, speed, available, required, efficiency).id = id
           /\ Design(id, topology, motor, drive, part, speed, available, required,
                     efficiency).topology = topology
  <1>1. motor.mass \in Nat /\ motor.cost \in Nat
    BY DEF Motor
  <1>2. /\ motor.mass + drive.mass + part.mass \in Int
        /\ motor.cost + drive.cost + part.cost \in Int
    BY <1>1
  <1>3. ((available - required) * 10000) \div required \in Int
    BY QuotientSign
  <1> QED
    BY <1>2, <1>3 DEF Design, Sound

LEMMA DeratedTyped ==
    ASSUME NEW torque \in Int, NEW n, Normalized(n), NEW topology
    PROVE  Derated(torque, n, topology) \in Int
  <1> DEFINE duty == IF P!DutyAbove(n, 90) THEN 85 ELSE IF P!DutyAbove(n, 75) THEN 92 ELSE 100
             share == IF topology = "direct_drive" THEN 95 ELSE 100
  <1>1. Derated(torque, n, topology) = (torque * duty * share) \div 10000
    BY DEF Derated
  <1>2. duty \in Int /\ share \in Int
    OBVIOUS
  <1> HIDE DEF duty, share
  <1>3. torque * duty * share \in Int
    BY <1>2
  <1> QED
    BY <1>1, <1>3, QuotientSign

\* What is needed is held up by a least torque.
LEMMA RequiredTyped ==
    ASSUME NEW least \in Nat \ {0}, NEW a \in Int
    PROVE  Max({least, a}) \in Nat \ {0}
  BY MaxOfTwo

LEMMA ElementOf ==
    ASSUME NEW T, NEW parts \in Seq(T), NEW i \in Places(parts)
    PROVE  parts[i] \in T
  BY DEF Places

LEMMA BeltSound ==
    ASSUME NEW id \in Ids("belt_axis"), NEW n, Normalized(n)
    PROVE  Sound(Built(id, n)) /\ Built(id, n).id = id /\ Built(id, n).topology = "belt_axis"
  <1>1. /\ id[1] = 1 /\ id[2] \in Places(Catalog.motors) /\ id[3] \in Places(Catalog.drives)
        /\ id[4] \in Places(Catalog.transmissions) /\ id \in EveryId
    BY DEF Ids, EveryId, Topologies
  <1>2. PICK motor, drive, belt :
          motor = Catalog.motors[id[2]] /\ drive = Catalog.drives[id[3]]
            /\ belt = Catalog.transmissions[id[4]]
    OBVIOUS
  <1>3. /\ motor \in Motor
        /\ drive \in [power : Nat, efficiency : Nat, mass : Nat, cost : Nat]
        /\ belt \in [ratio : Nat \ {0}, torque : Nat, efficiency : Nat, mass : Nat, cost : Nat]
    BY <1>1, <1>2, CatalogAssumption, ElementOf
  <1>4. PICK available \in Int :
          available = Derated((motor.torque * belt.ratio) \div 100, n, "belt_axis")
    <2>1. PICK torque, ratio \in Nat : torque = motor.torque /\ ratio = belt.ratio
      BY <1>3 DEF Motor
    <2>2. (torque * ratio) \div 100 \in Int
      BY QuotientSign
    <2> QED
      BY <2>1, <2>2, DeratedTyped
  <1>5. PICK required \in Nat \ {0} : required = Max({50, (n.payload * 981) \div 10})
    <2>1. PICK load \in Int : load = (n.payload * 981) \div 10
      BY DEF Normalized
    <2>2. PICK least \in Nat \ {0} : least = 50
      OBVIOUS
    <2> QED
      BY <2>1, <2>2, RequiredTyped
  <1>6. PICK efficiency \in Int : efficiency = drive.efficiency * belt.efficiency
    BY <1>3
  <1>7. PICK speed : speed = (motor.rpm * 50) \div belt.ratio
    OBVIOUS
  <1>8. Built(id, n) = Design(id, "belt_axis", motor, drive, belt, speed, available, required, efficiency)
    <2>1. Built(id, n) = Belt(id, motor, drive, belt, n)
      BY <1>1, <1>2 DEF Built
    <2> QED
      BY <1>4, <1>5, <1>6, <1>7, <2>1 DEF Belt
  <1> QED
    BY <1>1, <1>3, <1>8, DesignSound

LEMMA ScrewSound ==
    ASSUME NEW id \in Ids("ball_screw"), NEW n, Normalized(n)
    PROVE  Sound(Built(id, n)) /\ Built(id, n).id = id /\ Built(id, n).topology = "ball_screw"
  <1>1. /\ id[1] = 2 /\ id[2] \in Places(Catalog.screws) /\ id[3] \in Places(Catalog.motors)
        /\ id[4] \in Places(Catalog.drives) /\ id \in EveryId
    BY DEF Ids, EveryId, Topologies
  <1>2. PICK screw, motor, drive :
          screw = Catalog.screws[id[2]] /\ motor = Catalog.motors[id[3]]
            /\ drive = Catalog.drives[id[4]]
    OBVIOUS
  <1>3. /\ motor \in Motor
        /\ drive \in [power : Nat, efficiency : Nat, mass : Nat, cost : Nat]
        /\ screw \in [lead : Nat, efficiency : Nat \ {0}, mass : Nat, cost : Nat]
    BY <1>1, <1>2, CatalogAssumption, ElementOf
  <1>4. PICK available \in Int : available = Derated(motor.torque, n, "ball_screw")
    <2>1. motor.torque \in Int
      BY <1>3 DEF Motor
    <2> QED
      BY <2>1, DeratedTyped
  <1>5. PICK required \in Nat \ {0} :
          required = Max({50, (n.payload * 981 * screw.lead * 1000) \div (6283 * screw.efficiency)})
    <2>1. PICK payload \in Int, lead \in Nat, efficiency \in Nat \ {0} :
            payload = n.payload /\ lead = screw.lead /\ efficiency = screw.efficiency
      BY <1>3 DEF Normalized
    <2>2. payload * 981 * lead * 1000 \in Int /\ 6283 * efficiency \in Nat \ {0}
      OBVIOUS
    <2>3. (payload * 981 * lead * 1000) \div (6283 * efficiency) \in Int
      BY <2>2, QuotientSign
    <2>4. PICK least \in Nat \ {0} : least = 50
      OBVIOUS
    <2> QED
      BY <2>1, <2>3, <2>4, RequiredTyped
  <1>6. PICK efficiency \in Int : efficiency = drive.efficiency * screw.efficiency
    BY <1>3
  <1>7. PICK speed : speed = (motor.rpm * screw.lead) \div 60
    OBVIOUS
  <1>8. Built(id, n) = Design(id, "ball_screw", motor, drive, screw, speed, available, required,
                              efficiency)
    <2>1. Built(id, n) = Screw(id, screw, motor, drive, n)
      BY <1>1, <1>2 DEF Built
    <2> QED
      BY <1>4, <1>5, <1>6, <1>7, <2>1 DEF Screw
  <1> QED
    BY <1>1, <1>3, <1>8, DesignSound

LEMMA DirectSound ==
    ASSUME NEW id \in Ids("direct_drive"), NEW n, Normalized(n)
    PROVE  Sound(Built(id, n)) /\ Built(id, n).id = id /\ Built(id, n).topology = "direct_drive"
  <1>1. id[1] = 3 /\ id[2] \in Places(Catalog.direct) /\ id \in EveryId
    BY DEF Ids, EveryId, Topologies
  <1>2. PICK motor : motor = Catalog.direct[id[2]]
    OBVIOUS
  <1>3. motor \in Motor
    BY <1>1, <1>2, CatalogAssumption, ElementOf
  <1>4. PICK available \in Int : available = Derated(motor.torque, n, "direct_drive")
    <2>1. motor.torque \in Int
      BY <1>3 DEF Motor
    <2> QED
      BY <2>1, DeratedTyped
  <1>5. PICK required \in Nat \ {0} : required = Max({20, n.payload * 200})
    <2>1. PICK load \in Int : load = n.payload * 200
      BY DEF Normalized
    <2>2. PICK least \in Nat \ {0} : least = 20
      OBVIOUS
    <2> QED
      BY <2>1, <2>2, RequiredTyped
  <1>6. PICK efficiency \in Int : efficiency = motor.efficiency * 100
    BY <1>3 DEF Motor
  <1>7. PICK speed : speed = (motor.rpm * 1000) \div 60
    OBVIOUS
  <1>8. Built(id, n) = Design(id, "direct_drive", motor, Integrated, Integrated, speed, available,
                              required, efficiency)
    <2>1. Built(id, n) = Direct(id, motor, n)
      BY <1>1, <1>2 DEF Built
    <2> QED
      BY <1>4, <1>5, <1>6, <1>7, <2>1 DEF Direct
  <1>9. Integrated.mass \in Nat /\ Integrated.cost \in Nat
    BY DEF Integrated
  <1> QED
    BY <1>1, <1>3, <1>8, <1>9, DesignSound

\* Whatever plugin made it, a design is sound and says whose it is.
LEMMA BuiltSound ==
    ASSUME NEW topology \in Topologies, NEW id \in Ids(topology), NEW n, Normalized(n)
    PROVE  Sound(Built(id, n)) /\ Built(id, n).id = id /\ Built(id, n).topology = topology
  BY BeltSound, ScrewSound, DirectSound DEF Topologies

----------------------------------------------------------------------------
(* Scores are numbers *)

LEMMA ClampTyped ==
    ASSUME NEW value \in Int, NEW low \in Int, NEW high \in Int
    PROVE  Clamp(value, low, high) \in Int
  <1>1. PICK capped \in Int : capped = Min({high, value})
    BY MinOfTwo
  <1> QED
    BY <1>1, MaxOfTwo DEF Clamp

\* Physics has its own names for the minima and maxima.
LEMMA SameExtremes ==
    ASSUME NEW S
    PROVE  P!Min(S) = Min(S) /\ P!Max(S) = Max(S)
  BY DEF P!Min, Min, P!Max, Max

\* The margins of the beam that the designs are checked with.
LEMMA BeamTyped ==
    ASSUME NEW mass \in Int, NEW n, Normalized(n)
    PROVE  LET b == P!BeamResponse([mass |-> mass, support |-> "simply_supported"], n)
           IN b.deflectionMargin \in Int /\ b.stressMargin \in Int
  <1> DEFINE design == [mass |-> mass, support |-> "simply_supported"]
             span == P!Max({1, n.travel \div 10})
             load == ((10 * n.payload + mass) * 11772) \div 10000
             deflection == P!RoundedUp(load * span * span * span, 48 * 5520)
             stress == P!RoundedUp(load * span * 100, 140 * 4)
  <1>1. /\ P!BeamResponse(design, n).deflectionMargin = ((500 - deflection) * 100) \div 500
        /\ P!BeamResponse(design, n).stressMargin = ((12000 - stress) * 100) \div 12000
    BY DEF P!BeamResponse, P!Support
  <1>2. span \in Int
    <2>1. n.travel \div 10 \in Int
      BY QuotientSign DEF Normalized
    <2> QED
      BY <2>1, SameExtremes, AtLeastOne
  <1>3. load \in Int
    <2>1. (10 * n.payload + mass) * 11772 \in Int
      BY DEF Normalized
    <2> QED
      BY <2>1, QuotientSign
  <1> HIDE DEF span, load, design
  <1>4. deflection \in Int
    <2>1. PICK value \in Int, divisor \in Nat \ {0} :
            value = load * span * span * span /\ divisor = 48 * 5520
      BY <1>2, <1>3
    <2>2. (value + divisor - 1) \div divisor \in Int
      BY QuotientSign
    <2> QED
      BY <2>1, <2>2 DEF P!RoundedUp
  <1>5. stress \in Int
    <2>1. PICK value \in Int, divisor \in Nat \ {0} :
            value = load * span * 100 /\ divisor = 140 * 4
      BY <1>2, <1>3
    <2>2. (value + divisor - 1) \div divisor \in Int
      BY QuotientSign
    <2> QED
      BY <2>1, <2>2 DEF P!RoundedUp
  <1> HIDE DEF deflection, stress
  <1>6. /\ ((500 - deflection) * 100) \div 500 \in Int
        /\ ((12000 - stress) * 100) \div 12000 \in Int
    BY <1>4, <1>5, QuotientSign
  <1> QED
    BY <1>1, <1>6 DEF design

LEMMA StructuralShareTyped ==
    ASSUME NEW d, Sound(d), NEW n, Normalized(n)
    PROVE  StructuralShare(d, n) \in Int
  <1>1. PICK b : b = P!BeamResponse([mass |-> d.mass, support |-> "simply_supported"], n)
    OBVIOUS
  <1>2. PICK deflection, stress \in Int : deflection = b.deflectionMargin /\ stress = b.stressMargin
    BY <1>1, BeamTyped DEF Sound
  <1>3. PICK least \in Int : least = P!Min({deflection, stress})
    BY SameExtremes, MinOfTwo
  <1>4. P!BeamCheck(b).margins = {least, deflection, stress}
    BY <1>2, <1>3 DEF P!BeamCheck, P!Check
  <1>5. PICK margin \in Int : margin = Min(P!BeamCheck(b).margins)
    BY <1>4, LeastOfThree, MinTyped
  <1>6. PICK zero, hundred \in Int : zero = 0 /\ hundred = 100
    OBVIOUS
  <1>7. Clamp(10 * margin, zero, hundred) \in Int
    BY ClampTyped
  <1> QED
    BY <1>1, <1>5, <1>6, <1>7 DEF StructuralShare

LEMMA SourcingRiskTyped ==
    ASSUME NEW motor
    PROVE  SourcingRisk(motor) \in Int
  <1> DEFINE risk == (IF motor.lifecycle = "eol" THEN 4000 ELSE 0)
                       + (IF motor.lead > 45 THEN 2000 ELSE 0)
                       + (IF motor.single THEN 2000 ELSE 0)
                       + (IF motor.preferred THEN 0 ELSE 1000)
  <1>1. SourcingRisk(motor) = Min({10000, risk})
    BY DEF SourcingRisk
  <1>2. risk \in Int
    OBVIOUS
  <1> HIDE DEF risk
  <1>3. PICK all \in Int : all = 10000
    OBVIOUS
  <1>4. PICK least \in Int : least = Min({all, risk})
    BY <1>2, MinOfTwo
  <1> QED
    BY <1>1, <1>3, <1>4

LEMMA MetricsTyped ==
    ASSUME NEW d, Sound(d)
    PROVE  Metrics(d) \in Int \X Int \X Int \X Int
  <1>1. PICK efficiency, margin, mass, cost \in Int :
          efficiency = d.efficiency /\ margin = d.margin /\ mass = d.mass /\ cost = d.cost
    BY DEF Sound
  <1>2. PICK dear, heavy \in Nat \ {0} : dear = Max({100, cost}) /\ heavy = Max({10, mass})
    <2>1. PICK hundred, ten \in Nat \ {0} : hundred = 100 /\ ten = 10
      OBVIOUS
    <2> QED
      BY <2>1, RequiredTyped
  <1>3. PICK cheap, compact \in Int : cheap = 1000000 \div dear /\ compact = 100000 \div heavy
    BY QuotientSign
  <1>4. PICK performance \in Int : performance = Clamp(margin + 5000, 0, 10000)
    <2>1. PICK value, zero, all \in Int : value = margin + 5000 /\ zero = 0 /\ all = 10000
      OBVIOUS
    <2>2. Clamp(value, zero, all) \in Int
      BY ClampTyped
    <2> QED
      BY <2>1, <2>2
  <1>5. Metrics(d) = <<efficiency, cheap, compact, performance>>
    BY <1>1, <1>2, <1>3, <1>4 DEF Metrics
  <1> QED
    BY <1>5

LEMMA WeightsTyped ==
    ASSUME NEW objective
    PROVE  ObjectiveWeights(objective) \in Int \X Int \X Int \X Int
  BY DEF ObjectiveWeights

LEMMA TotalTyped ==
    ASSUME NEW d, Sound(d), NEW n, Normalized(n), NEW priorities \in [1 .. 4 -> Int],
           NEW weights \in Int \X Int \X Int \X Int
    PROVE  Total(d, n, priorities, weights) \in Int
  <1> DEFINE metrics == Metrics(d)
             fit == (metrics[1] * priorities[1] + metrics[3] * priorities[3]
                       + metrics[4] * priorities[4]) \div 100
             lead == 70000 \div Max({7, d.motor.lead})
             base == (lead * weights[1] + (10000 - SourcingRisk(d.motor)) * weights[2]
                       + metrics[2] * weights[3] + fit * weights[4]) \div 100
  <1>1. Total(d, n, priorities, weights) = (base * (8500 + 15 * StructuralShare(d, n))) \div 10000
    BY DEF Total
  <1>2. {metrics[1], metrics[2], metrics[3], metrics[4]} \subseteq Int
    BY MetricsTyped
  <1>3. lead \in Int
    <2>1. PICK days \in Nat : days = d.motor.lead
      BY DEF Sound, Motor
    <2>2. PICK week \in Nat \ {0} : week = 7
      OBVIOUS
    <2>3. PICK most \in Nat \ {0} : most = Max({week, days})
      BY RequiredTyped
    <2> QED
      BY <2>1, <2>2, <2>3, QuotientSign
  <1> HIDE DEF metrics, lead
  <1>4. {priorities[1], priorities[2], priorities[3], priorities[4]} \subseteq Int
    OBVIOUS
  <1>5. {weights[1], weights[2], weights[3], weights[4]} \subseteq Int
    OBVIOUS
  <1>6. fit \in Int
    <2>1. metrics[1] * priorities[1] + metrics[3] * priorities[3] + metrics[4] * priorities[4] \in Int
      BY <1>2, <1>4
    <2> QED
      BY <2>1, QuotientSign
  <1> HIDE DEF fit
  <1>7. SourcingRisk(d.motor) \in Int /\ StructuralShare(d, n) \in Int
    BY SourcingRiskTyped, StructuralShareTyped
  <1>8. base \in Int
    <2>1. lead * weights[1] + (10000 - SourcingRisk(d.motor)) * weights[2]
            + metrics[2] * weights[3] + fit * weights[4] \in Int
      BY <1>2, <1>3, <1>5, <1>6, <1>7
    <2> QED
      BY <2>1, QuotientSign
  <1> HIDE DEF base
  <1>9. base * (8500 + 15 * StructuralShare(d, n)) \in Int
    BY <1>7, <1>8
  <1> QED
    BY <1>1, <1>9, QuotientSign

----------------------------------------------------------------------------
(* The ranking *)

\* What can be ranked: finitely many candidates with ids of their own, and
\* numbers for scores.
Rankable(S) ==
    /\ IsFiniteSet(S)
    /\ \A c \in S : c.id \in EveryId /\ c.total \in Int
    /\ \A c, d \in S : c.id = d.id => c = d

BeforeIn(S) == {p \in S \X S : Before(p[1], p[2])}

LEMMA BeforeOrders ==
    ASSUME NEW S, Rankable(S)
    PROVE  Orders(BeforeIn(S), S)
  <1>1. ASSUME NEW x \in S, NEW y \in S
        PROVE  <<x, y>> \in BeforeIn(S) <=> Before(x, y)
    BY DEF BeforeIn
  <1>2. ASSUME NEW x \in S
        PROVE  x.id \in Quads /\ x.total \in Int
    BY IdsAreQuads DEF Rankable
  <1>3. ASSUME NEW x \in S PROVE ~Before(x, x)
    BY <1>2, EarlierOrders DEF Before
  <1>4. ASSUME NEW x \in S, NEW y \in S, NEW z \in S, Before(x, y), Before(y, z)
        PROVE  Before(x, z)
    <2>1. /\ Earlier(x.id, y.id) /\ Earlier(y.id, z.id) => Earlier(x.id, z.id)
          /\ {x.total, y.total, z.total} \subseteq Int
      BY <1>2, EarlierOrders
    <2> QED
      BY <1>4, <2>1 DEF Before
  <1>5. ASSUME NEW x \in S, NEW y \in S, x # y PROVE Before(x, y) \/ Before(y, x)
    <2>1. Earlier(x.id, y.id) \/ Earlier(y.id, x.id)
      BY <1>2, <1>5, EarlierOrders DEF Rankable
    <2> QED
      BY <1>2, <2>1 DEF Before
  <1> QED
    BY <1>1, <1>3, <1>4, <1>5 DEF Orders

\* A ranking has every candidate once, and higher the ones that come before.
LEMMA RankedIs ==
    ASSUME NEW S, Rankable(S)
    PROVE  /\ Ranked(S) \in Seq(S)
           /\ Len(Ranked(S)) = Cardinality(S)
           /\ \A c \in S : \E i \in DOMAIN Ranked(S) : Ranked(S)[i] = c
           /\ \A i, j \in DOMAIN Ranked(S) : i < j <=> Before(Ranked(S)[i], Ranked(S)[j])
  <1> DEFINE R == BeforeIn(S)
             ranking == Ranked(S)
  <1>1. Orders(R, S) /\ IsFiniteSet(S)
    BY BeforeOrders DEF Rankable
  <1>2. PICK n \in Nat : n = Cardinality(S)
    BY <1>1, FS_CardinalityType
  <1>3. ASSUME NEW c \in S PROVE Preceding(R, S, c) = {d \in S : Before(d, c)}
    BY DEF Preceding, BeforeIn
  <1>4. ranking = [rank \in 1 .. n |-> CHOOSE c \in S : Cardinality({d \in S : Before(d, c)}) = rank - 1]
    BY <1>2 DEF Ranked
  <1>5. ASSUME NEW i \in 1 .. n
        PROVE  ranking[i] \in S /\ Cardinality(Preceding(R, S, ranking[i])) = i - 1
    <2>1. i - 1 \in 0 .. Cardinality(S) - 1
      BY <1>2
    <2>2. \E c \in S : Cardinality(Preceding(R, S, c)) = i - 1
      <3> HIDE DEF R
      <3> QED
        BY <1>1, <2>1, EveryRankIsTaken
    <2>3. \E c \in S : Cardinality({d \in S : Before(d, c)}) = i - 1
      BY <1>3, <2>2
    <2>4. ranking[i] = CHOOSE c \in S : Cardinality({d \in S : Before(d, c)}) = i - 1
      BY <1>4
    <2>5. ranking[i] \in S /\ Cardinality({d \in S : Before(d, ranking[i])}) = i - 1
      <3> HIDE DEF ranking
      <3> QED
        BY <2>3, <2>4
    <2> QED
      BY <1>3, <2>5
  <1>6. DOMAIN ranking = 1 .. n
    BY <1>4
  <1>7. ASSUME NEW c \in S, NEW d \in S, Before(c, d)
        PROVE  Cardinality(Preceding(R, S, c)) < Cardinality(Preceding(R, S, d))
    <2>1. <<c, d>> \in R
      BY <1>7 DEF BeforeIn
    <2> HIDE DEF R
    <2> QED
      BY <1>1, <2>1, PrecedingGrow
  <1>8. ASSUME NEW c \in S
        PROVE  Cardinality(Preceding(R, S, c)) \in 0 .. n - 1
    <2> HIDE DEF R
    <2> QED
      BY <1>1, <1>2, PrecedingGrow
  <1>9. ASSUME NEW c \in S, NEW d \in S, c # d
        PROVE  Before(c, d) \/ Before(d, c)
    BY <1>1, <1>9 DEF Orders, BeforeIn
  <1> HIDE DEF R, ranking
  <1>10. ranking \in Seq(S) /\ Len(ranking) = n
    <2>1. ranking \in [1 .. n -> S]
      BY <1>4, <1>5
    <2>2. ranking \in Seq(S)
      BY <2>1, SeqDef
    <2> QED
      BY <1>6, <2>2, LenProperties
  <1>11. ASSUME NEW c \in S PROVE \E i \in DOMAIN ranking : ranking[i] = c
    <2>1. PICK k \in 0 .. n - 1 : k = Cardinality(Preceding(R, S, c))
      BY <1>8
    <2>2. k + 1 \in 1 .. n /\ (k + 1) - 1 = k
      BY <1>2
    <2>3. ranking[k + 1] \in S /\ Cardinality(Preceding(R, S, ranking[k + 1])) = k
      BY <1>5, <2>2
    <2>4. ~Before(c, ranking[k + 1]) /\ ~Before(ranking[k + 1], c)
      BY <1>7, <2>1, <2>3
    <2> QED
      BY <1>6, <1>9, <2>2, <2>3, <2>4
  <1>12. ASSUME NEW i \in DOMAIN ranking, NEW j \in DOMAIN ranking
         PROVE  i < j <=> Before(ranking[i], ranking[j])
    <2>1. /\ i \in 1 .. n /\ ranking[i] \in S /\ Cardinality(Preceding(R, S, ranking[i])) = i - 1
          /\ j \in 1 .. n /\ ranking[j] \in S /\ Cardinality(Preceding(R, S, ranking[j])) = j - 1
      BY <1>5, <1>6
    <2>2. Before(ranking[i], ranking[j]) => i < j
      BY <1>7, <2>1
    <2>3. Before(ranking[j], ranking[i]) => j < i
      BY <1>7, <2>1
    <2>4. i < j => ranking[i] # ranking[j]
      BY <2>1
    <2> QED
      BY <1>9, <2>1, <2>2, <2>3, <2>4
  <1> QED
    BY <1>2, <1>10, <1>11, <1>12 DEF ranking

----------------------------------------------------------------------------
(* The candidates of a request *)

\* There are finitely many ids: each is given by two pairs of places.
LEMMA IdsFinite ==
    ASSUME NEW A, NEW B, NEW C, NEW D,
           IsFiniteSet(A), IsFiniteSet(B), IsFiniteSet(C), IsFiniteSet(D)
    PROVE  IsFiniteSet(A \X B \X C \X D)
  <1> DEFINE S == A \X B \X C \X D
             T == (A \X B) \X (C \X D)
             f == [id \in S |-> << <<id[1], id[2]>>, <<id[3], id[4]>> >>]
  <1>1. IsFiniteSet(T)
    BY FS_Product
  <1>2. f \in [S -> T]
    OBVIOUS
  <1>3. ASSUME NEW i \in S, NEW j \in S, f[i] = f[j] PROVE i = j
    <2>1. i = <<i[1], i[2], i[3], i[4]>> /\ j = <<j[1], j[2], j[3], j[4]>>
      OBVIOUS
    <2>2. i[1] = j[1] /\ i[2] = j[2] /\ i[3] = j[3] /\ i[4] = j[4]
      BY <1>3
    <2> QED
      BY <2>1, <2>2
  <1>4. f \in Injection(S, T)
    <2> HIDE DEF f, S, T
    <2> QED
      BY <1>2, <1>3 DEF Injection, IsInjective
  <1> HIDE DEF f, T
  <1> QED
    BY <1>1, <1>4, FS_Injection

LEMMA EveryIdFinite == IsFiniteSet(EveryId)
  <1>1. ASSUME NEW T, NEW parts \in Seq(T)
        PROVE  IsFiniteSet(Places(parts))
    <2>1. Len(parts) \in Int
      OBVIOUS
    <2> QED
      BY <2>1, FS_Interval DEF Places
  <1>2. /\ IsFiniteSet(Places(Catalog.motors)) /\ IsFiniteSet(Places(Catalog.direct))
        /\ IsFiniteSet(Places(Catalog.drives)) /\ IsFiniteSet(Places(Catalog.transmissions))
        /\ IsFiniteSet(Places(Catalog.screws))
    BY <1>1, CatalogAssumption
  <1>3. \A k : IsFiniteSet({k})
    BY FS_Singleton
  <1>4. /\ IsFiniteSet(Ids("belt_axis")) /\ IsFiniteSet(Ids("ball_screw"))
        /\ IsFiniteSet(Ids("direct_drive"))
    BY <1>2, <1>3, IdsFinite DEF Ids
  <1>5. EveryId = Ids("belt_axis") \cup Ids("ball_screw") \cup Ids("direct_drive")
    BY DEF EveryId, Topologies
  <1> QED
    BY <1>4, <1>5, FS_Union

\* What the pipeline hands to rank_candidates, and the entry of one id in it.
ScoredOf(selected, req) == Scored(Candidates(selected, Normalize(req), req.power), Normalize(req), req)

IdsOf(selected, req) ==
    {i \in UNION {Ids(t) : t \in selected} : Feasible(i, Normalize(req), req.power)}

ScoreOf(id, req) ==
    LET d == Built(id, Normalize(req))
    IN [id |-> d.id, topology |-> d.topology, motor |-> d.motor, metrics |-> Metrics(d),
        total |-> Total(d, Normalize(req), req.priorities, ObjectiveWeights(req.objective))]

LEMMA ScoredIs ==
    ASSUME NEW selected, NEW req
    PROVE  ScoredOf(selected, req) = {ScoreOf(id, req) : id \in IdsOf(selected, req)}
  BY DEF ScoredOf, IdsOf, ScoreOf, Scored, Candidates

LEMMA ScoreTyped ==
    ASSUME NEW req \in Requests, NEW topology \in Topologies, NEW id \in Ids(topology)
    PROVE  /\ ScoreOf(id, req).id = id /\ ScoreOf(id, req).topology = topology
           /\ ScoreOf(id, req).total \in Int /\ ScoreOf(id, req).metrics \in Quads
  <1>1. PICK n : n = Normalize(req) /\ Normalized(n)
    BY NormalizeTyped
  <1>2. PICK d : d = Built(id, n) /\ Sound(d) /\ d.id = id /\ d.topology = topology
    BY <1>1, BuiltSound
  <1>3. Metrics(d) \in Quads
    BY <1>2, MetricsTyped DEF Quads
  <1>4. req.priorities \in [1 .. 4 -> Int]
    BY RequestAssumption
  <1>5. Total(d, n, req.priorities, ObjectiveWeights(req.objective)) \in Int
    BY <1>1, <1>2, <1>4, WeightsTyped, TotalTyped
  <1> QED
    BY <1>1, <1>2, <1>3, <1>5 DEF ScoreOf

\* The candidates of any selection can be ranked.
LEMMA ScoredRankable ==
    ASSUME NEW req \in Requests, NEW selected \in SUBSET Topologies
    PROVE  /\ Rankable(ScoredOf(selected, req))
           /\ \A c \in ScoredOf(selected, req) : c.metrics \in Quads
  <1> DEFINE I == IdsOf(selected, req)
             S == ScoredOf(selected, req)
  <1>1. I \subseteq EveryId
    BY DEF IdsOf, EveryId
  <1>2. \A id \in I : /\ ScoreOf(id, req).id = id
                      /\ ScoreOf(id, req).total \in Int
                      /\ ScoreOf(id, req).metrics \in Quads
    BY ScoreTyped DEF IdsOf
  <1>3. S = {ScoreOf(id, req) : id \in I}
    BY ScoredIs
  <1> HIDE DEF I, S
  <1>4. \A c \in S : /\ c.id \in I /\ c = ScoreOf(c.id, req)
                     /\ c.total \in Int /\ c.metrics \in Quads
    BY <1>2, <1>3
  <1>5. IsFiniteSet(S)
    <2> DEFINE f == [c \in S |-> c.id]
    <2>1. f \in [S -> I] /\ \A c, d \in S : f[c] = f[d] => c = d
      BY <1>4
    <2>2. f \in Injection(S, I)
      <3> HIDE DEF f
      <3> QED
        BY <2>1 DEF Injection, IsInjective
    <2>3. IsFiniteSet(I)
      BY <1>1, EveryIdFinite, FS_Subset
    <2> HIDE DEF f
    <2> QED
      BY <2>2, <2>3, FS_Injection
  <1>6. \A c, d \in S : c.id = d.id => c = d
    BY <1>4
  <1> QED
    BY <1>1, <1>4, <1>5, <1>6 DEF Rankable, S

----------------------------------------------------------------------------
(* The ranking of a request, and who is at its top under other weights *)

Positions(ranking) == 1 .. Len(ranking)

\* The ranking of a request has candidates with ids of their own and numbers
\* for metrics.
LEMMA RankingIs ==
    ASSUME NEW req \in Requests, NEW selected \in SUBSET Topologies
    PROVE  LET ranking == RankingUnder(selected, req)
               S == ScoredOf(selected, req)
           IN /\ ranking \in Seq(S) /\ DOMAIN ranking = Positions(ranking)
              /\ \A c \in S : \E i \in DOMAIN ranking : ranking[i] = c
              /\ \A i, j \in DOMAIN ranking : i < j <=> Before(ranking[i], ranking[j])
              /\ \A i \in DOMAIN ranking : ranking[i].id \in EveryId /\ ranking[i].metrics \in Quads
              /\ \A i, j \in DOMAIN ranking : ranking[i].id = ranking[j].id => i = j
  <1>1. PICK S : S = ScoredOf(selected, req)
    OBVIOUS
  <1>2. PICK ranking : ranking = Ranked(S) /\ ranking = RankingUnder(selected, req)
    BY <1>1 DEF RankingUnder, ScoredOf
  <1>3. Rankable(S) /\ \A c \in S : c.metrics \in Quads
    BY <1>1, ScoredRankable
  <1>4. /\ ranking \in Seq(S)
        /\ \A c \in S : \E i \in DOMAIN ranking : ranking[i] = c
        /\ \A i, j \in DOMAIN ranking : i < j <=> Before(ranking[i], ranking[j])
    BY <1>2, <1>3, RankedIs
  <1>5. DOMAIN ranking = Positions(ranking) /\ DOMAIN ranking \subseteq Int
    BY <1>4, LenProperties DEF Positions
  <1>6. \A i \in DOMAIN ranking : ranking[i] \in S
    BY <1>4, <1>5, ElementOfSeq DEF Positions
  <1>7. ASSUME NEW i \in DOMAIN ranking, NEW j \in DOMAIN ranking, ranking[i].id = ranking[j].id
        PROVE  i = j
    <2>1. ranking[i] = ranking[j]
      BY <1>3, <1>6, <1>7 DEF Rankable
    <2>2. ~ (i < j) /\ ~ (j < i)
      <3>1. ~Before(ranking[i], ranking[i])
        BY <1>4, <1>5
      <3> QED
        BY <1>4, <2>1, <3>1
    <2> QED
      BY <1>5, <2>2
  <1> QED
    BY <1>1, <1>2, <1>3, <1>4, <1>5, <1>6, <1>7 DEF Rankable

\* The topologies a request selects are some of the three.
LEMMA RankingOfIs ==
    ASSUME NEW req \in Requests, Convertible(req)
    PROVE  /\ Selected(Arguments(req), Normalize(req)) \in SUBSET Topologies
           /\ RankingOf[req] = RankingUnder(Selected(Arguments(req), Normalize(req)), req)
  BY DEF Selected, RankingOf

LEMMA WeighedTyped ==
    ASSUME NEW metrics \in Quads, NEW priorities \in [1 .. 4 -> Int], NEW noise \in [1 .. 4 -> Int]
    PROVE  Weighed(metrics, priorities, noise) \in Int
  <1>1. ASSUME NEW k \in 1 .. 4 PROVE Max({1, priorities[k] + noise[k]}) \in Int
    BY AtLeastOne
  <1>2. PICK a, b, c, d \in Int : /\ a = Max({1, priorities[1] + noise[1]})
                                 /\ b = Max({1, priorities[2] + noise[2]})
                                 /\ c = Max({1, priorities[3] + noise[3]})
                                 /\ d = Max({1, priorities[4] + noise[4]})
    BY <1>1
  <1>3. {metrics[1], metrics[2], metrics[3], metrics[4]} \subseteq Int
    BY DEF Quads
  <1>4. Weighed(metrics, priorities, noise) = metrics[1] * a + metrics[2] * b + metrics[3] * c + metrics[4] * d
    BY <1>2 DEF Weighed
  <1> QED
    BY <1>3, <1>4

\* Whatever the weights, the top is somebody: the greatest by sum and id.
LEMMA TopIs ==
    ASSUME NEW req \in Requests, NEW selected \in SUBSET Topologies,
           NEW ranking, ranking = RankingUnder(selected, req), ranking # <<>>,
           NEW noise \in [1 .. 4 -> Int]
    PROVE  \E i \in DOMAIN ranking :
              /\ TopUnder(ranking, req.priorities, noise) = ranking[i].id
              /\ \A j \in DOMAIN ranking \ {i} :
                    Weighed(ranking[i].metrics, req.priorities, noise)
                       >= Weighed(ranking[j].metrics, req.priorities, noise)
  <1> DEFINE sum(i) == Weighed(ranking[i].metrics, req.priorities, noise)
             beats(i, j) == \/ sum(i) > sum(j)
                            \/ sum(i) = sum(j) /\ Earlier(ranking[j].id, ranking[i].id)
             D == DOMAIN ranking
             R == {p \in D \X D : beats(p[1], p[2])}
             first == CHOOSE i \in D : \A j \in D \ {i} : beats(i, j)
  <1>1. /\ ranking \in Seq(ScoredOf(selected, req)) /\ D = Positions(ranking)
        /\ \A i \in D : ranking[i].id \in EveryId /\ ranking[i].metrics \in Quads
        /\ \A i, j \in D : ranking[i].id = ranking[j].id => i = j
    BY RankingIs
  <1>2. TopUnder(ranking, req.priorities, noise) = ranking[first].id
    BY DEF TopUnder
  <1>3. ASSUME NEW i \in D PROVE sum(i) \in Int /\ ranking[i].id \in Quads
    BY <1>1, WeighedTyped, RequestAssumption, IdsAreQuads
  <1>4. IsFiniteSet(D) /\ D # {}
    <2>1. Len(ranking) \in Nat \ {0}
      BY <1>1, EmptySeq
    <2>2. IsFiniteSet(1 .. Len(ranking)) /\ 1 \in 1 .. Len(ranking)
      BY <2>1, FS_Interval
    <2> QED
      BY <1>1, <2>2 DEF Positions
  <1>5. ASSUME NEW i \in D, NEW j \in D PROVE <<i, j>> \in R <=> beats(i, j)
    OBVIOUS
  <1> HIDE DEF sum, D
  <1>6. ASSUME NEW i \in D PROVE ~beats(i, i)
    BY <1>3, EarlierOrders
  <1>7. ASSUME NEW i \in D, NEW j \in D, NEW k \in D, beats(i, j), beats(j, k)
        PROVE  beats(i, k)
    <2>1. Earlier(ranking[k].id, ranking[j].id) /\ Earlier(ranking[j].id, ranking[i].id)
            => Earlier(ranking[k].id, ranking[i].id)
      BY <1>3, EarlierOrders
    <2>2. sum(i) \in Int /\ sum(j) \in Int /\ sum(k) \in Int
      BY <1>3
    <2> QED
      BY <1>7, <2>1, <2>2
  <1>8. ASSUME NEW i \in D, NEW j \in D, i # j
        PROVE  beats(i, j) \/ beats(j, i)
    <2>1. Earlier(ranking[i].id, ranking[j].id) \/ Earlier(ranking[j].id, ranking[i].id)
      BY <1>1, <1>3, <1>8, EarlierOrders
    <2>2. sum(i) \in Int /\ sum(j) \in Int
      BY <1>3
    <2> QED
      BY <2>1, <2>2
  <1>9. Orders(R, D)
    <2> HIDE DEF R, beats
    <2> QED
      BY <1>5, <1>6, <1>7, <1>8 DEF Orders
  <1> HIDE DEF R, beats
  <1>10. PICK i \in D : \A j \in D \ {i} : <<i, j>> \in R
    <2>1. PICK T, Q : T = D /\ Q = R
      OBVIOUS
    <2>2. \E i \in T : \A j \in T \ {i} : <<i, j>> \in Q
      BY <1>4, <1>9, <2>1, SomebodyIsFirst
    <2> QED
      BY <2>1, <2>2
  <1>11. \A j \in D \ {i} : beats(i, j)
    BY <1>5, <1>10
  <1>12. first \in D /\ \A j \in D \ {first} : beats(first, j)
    BY <1>11
  <1> HIDE DEF first
  <1>13. ASSUME NEW j \in D \ {first} PROVE sum(first) >= sum(j)
    <2>1. beats(first, j) /\ sum(first) \in Int /\ sum(j) \in Int
      BY <1>3, <1>12
    <2> QED
      BY <2>1 DEF beats
  <1> QED
    BY <1>2, <1>12, <1>13 DEF sum, D

LEMMA ProductGrows ==
    ASSUME NEW a \in Int, NEW b \in Int, NEW w \in Nat \ {0}, a >= b
    PROVE  a * w >= b * w /\ (a > b => a * w > b * w)
  <1>1. (a - b) * w = a * w - b * w
    OBVIOUS
  <1>2. PICK gap \in Nat : gap = a - b
    OBVIOUS
  <1>3. gap * w \in Nat /\ (gap > 0 => gap * w > 0)
    OBVIOUS
  <1> QED
    BY <1>1, <1>2, <1>3

\* Better in one metric and worse in none is better under all weights, because
\* no weight is perturbed below 0.01.
LEMMA DominantWeighs ==
    ASSUME NEW m \in Quads, NEW l \in Quads,
           NEW priorities \in [1 .. 4 -> Int], NEW noise \in [1 .. 4 -> Int],
           \A k \in 1 .. 4 : m[k] >= l[k], \E k \in 1 .. 4 : m[k] >= l[k] + 100
    PROVE  Weighed(m, priorities, noise) > Weighed(l, priorities, noise)
  <1>1. ASSUME NEW k \in 1 .. 4 PROVE Max({1, priorities[k] + noise[k]}) \in Nat \ {0}
    BY AtLeastOne
  <1>2. PICK a, b, c, d \in Nat \ {0} : /\ a = Max({1, priorities[1] + noise[1]})
                                       /\ b = Max({1, priorities[2] + noise[2]})
                                       /\ c = Max({1, priorities[3] + noise[3]})
                                       /\ d = Max({1, priorities[4] + noise[4]})
    BY <1>1
  <1>3. PICK m1, m2, m3, m4, l1, l2, l3, l4 \in Int :
          /\ m1 = m[1] /\ m2 = m[2] /\ m3 = m[3] /\ m4 = m[4]
          /\ l1 = l[1] /\ l2 = l[2] /\ l3 = l[3] /\ l4 = l[4]
    BY DEF Quads
  <1>4. /\ Weighed(m, priorities, noise) = m1 * a + m2 * b + m3 * c + m4 * d
        /\ Weighed(l, priorities, noise) = l1 * a + l2 * b + l3 * c + l4 * d
    BY <1>2, <1>3 DEF Weighed
  <1>5. /\ m1 >= l1 /\ m2 >= l2 /\ m3 >= l3 /\ m4 >= l4
        /\ m1 > l1 \/ m2 > l2 \/ m3 > l3 \/ m4 > l4
    <2>1. PICK k \in 1 .. 4 : m[k] >= l[k] + 100
      OBVIOUS
    <2>2. k = 1 \/ k = 2 \/ k = 3 \/ k = 4
      OBVIOUS
    <2> QED
      BY <1>3, <2>1, <2>2
  <1>6. PICK p1, p2, p3, p4, q1, q2, q3, q4 \in Int :
          /\ p1 = m1 * a /\ p2 = m2 * b /\ p3 = m3 * c /\ p4 = m4 * d
          /\ q1 = l1 * a /\ q2 = l2 * b /\ q3 = l3 * c /\ q4 = l4 * d
    OBVIOUS
  <1>7. /\ p1 >= q1 /\ p2 >= q2 /\ p3 >= q3 /\ p4 >= q4
        /\ p1 > q1 \/ p2 > q2 \/ p3 > q3 \/ p4 > q4
    BY <1>5, <1>6, ProductGrows
  <1> QED
    BY <1>4, <1>6, <1>7

LEMMA DominantIsTop ==
    ASSUME NEW req \in Requests, Convertible(req),
           RankingOf[req] # <<>>, Dominant(RankingOf[req]), NEW noise \in [1 .. 4 -> Int]
    PROVE  TopUnder(RankingOf[req], req.priorities, noise) = RankingOf[req][1].id
  <1>1. PICK selected, ranking :
          /\ selected \in SUBSET Topologies
          /\ ranking = RankingUnder(selected, req) /\ ranking = RankingOf[req]
    BY RankingOfIs
  <1>2. PICK i \in DOMAIN ranking :
          /\ TopUnder(ranking, req.priorities, noise) = ranking[i].id
          /\ \A j \in DOMAIN ranking \ {i} :
                Weighed(ranking[i].metrics, req.priorities, noise)
                   >= Weighed(ranking[j].metrics, req.priorities, noise)
    BY <1>1, TopIs
  <1>3. /\ ranking \in Seq(ScoredOf(selected, req)) /\ DOMAIN ranking = 1 .. Len(ranking)
        /\ \A k \in DOMAIN ranking : ranking[k].metrics \in Quads
    <2>1. /\ ranking \in Seq(ScoredOf(selected, req)) /\ DOMAIN ranking = Positions(ranking)
          /\ \A k \in DOMAIN ranking : ranking[k].metrics \in Quads
      BY <1>1, RankingIs
    <2> QED
      BY <2>1 DEF Positions
  <1>4. 1 \in DOMAIN ranking
    <2>1. Len(ranking) \in Nat \ {0}
      BY <1>1, <1>3, EmptySeq
    <2> QED
      BY <1>3, <2>1
  <1>5. req.priorities \in [1 .. 4 -> Int]
    BY RequestAssumption
  <1>6. CASE i # 1
    <2>1. i \in 2 .. Len(ranking)
      BY <1>3, <1>6
    <2>2. /\ \A k \in 1 .. 4 : ranking[1].metrics[k] >= ranking[i].metrics[k]
          /\ \E k \in 1 .. 4 : ranking[1].metrics[k] >= ranking[i].metrics[k] + 100
      BY <1>1, <2>1 DEF Dominant
    <2>3. /\ Weighed(ranking[1].metrics, req.priorities, noise)
                > Weighed(ranking[i].metrics, req.priorities, noise)
          /\ Weighed(ranking[1].metrics, req.priorities, noise) \in Int
          /\ Weighed(ranking[i].metrics, req.priorities, noise) \in Int
      BY <1>3, <1>4, <1>5, <2>2, DominantWeighs, WeighedTyped
    <2>4. Weighed(ranking[i].metrics, req.priorities, noise)
            >= Weighed(ranking[1].metrics, req.priorities, noise)
      BY <1>2, <1>4, <1>6
    <2> QED
      BY <2>3, <2>4
  <1> QED
    BY <1>1, <1>2, <1>6

----------------------------------------------------------------------------
(* The inductive invariants *)

State(pc, req, noise, tops, shared, answer) ==
    [pc |-> pc, req |-> req, noise |-> noise, tops |-> tops, shared |-> shared, answer |-> answer]

\* What TypeOK says of one thread, and that a request which is being computed
\* has known units.
Good(s) ==
    /\ s = State(s.pc, s.req, s.noise, s.tops, s.shared, s.answer)
    /\ s.pc \in {"idle", "seed", "draw"}
    /\ s.req \in Requests \cup {None}
    /\ s.pc # "idle" => s.req \in Requests /\ Convertible(s.req)
    /\ s.noise \in Seq(-8 .. 8) /\ Len(s.noise) < 4
    /\ s.tops \in Seq(EveryId) /\ Len(s.tops) < Samples
    /\ s.shared \in BOOLEAN

TypeInvariant ==
    /\ drawn \in Nat
    /\ thread = [t \in Threads |-> thread[t]]
    /\ \A t \in Threads : Good(thread[t])

IsAnswered(s) == s.pc = "idle" /\ s.req # None

\* An answer fails when it must, and has a level else.
Outcome(s) ==
    IsAnswered(s) =>
        /\ s.req \in Requests
        /\ IF Convertible(s.req) /\ RankingOf[s.req] # <<>>
           THEN s.answer.outcome = "ok" ELSE s.answer.outcome = "error"

OutcomeInvariant == \A t \in Threads : Outcome(thread[t])

\* The samples of a request with a dominant winner all have it at the top.
Dominated(s) ==
    /\ s.pc # "idle" /\ Dominant(RankingOf[s.req]) =>
          \A k \in 1 .. Len(s.tops) : s.tops[k] = RankingOf[s.req][1].id
    /\ IsAnswered(s) /\ s.answer.outcome = "ok" /\ Dominant(RankingOf[s.req]) =>
          s.answer.level = "stable"

DominantInvariant == \A t \in Threads : Dominated(thread[t])

\* The top of a sample that takes the next four values after the ones before.
AloneTop(req, k) == TopUnder(RankingOf[req], req.priorities, [i \in 1 .. 4 |-> Value(4 * k + i - 5)])

\* While nobody interrupts, a thread has drawn all the values there are, in the
\* order in which they come.
Alone(s, count) ==
    /\ s.pc = "draw" /\ ~s.shared =>
          /\ count = 4 * Len(s.tops) + Len(s.noise)
          /\ \A i \in 1 .. Len(s.noise) : s.noise[i] = Value(4 * Len(s.tops) + i - 1)
          /\ \A k \in 1 .. Len(s.tops) : s.tops[k] = AloneTop(s.req, k)
    /\ IsAnswered(s) /\ s.answer.outcome = "ok" /\ ~s.shared =>
          s.answer.level = LevelAlone(s.req)

\* A thread that waits to seed has nothing yet.
FreshInvariant ==
    \A t \in Threads : thread[t].pc = "seed" => thread[t].noise = <<>> /\ thread[t].tops = <<>>

AloneInvariant == FreshInvariant /\ \A t \in Threads : Alone(thread[t], drawn)

----------------------------------------------------------------------------
(* The steps of a thread *)

\* One field of a state at a time.
LEMMA FieldsAre ==
    ASSUME NEW s, NEW pc, NEW req, NEW noise, NEW tops, NEW shared, NEW answer,
           s = State(pc, req, noise, tops, shared, answer), NEW v
    PROVE  /\ [s EXCEPT !.pc = v] = State(v, req, noise, tops, shared, answer)
           /\ [s EXCEPT !.req = v] = State(pc, v, noise, tops, shared, answer)
           /\ [s EXCEPT !.noise = v] = State(pc, req, v, tops, shared, answer)
           /\ [s EXCEPT !.tops = v] = State(pc, req, noise, v, shared, answer)
           /\ [s EXCEPT !.shared = v] = State(pc, req, noise, tops, v, answer)
           /\ [s EXCEPT !.answer = v] = State(pc, req, noise, tops, shared, v)
           /\ s.pc = pc /\ s.req = req /\ s.noise = noise /\ s.tops = tops
           /\ s.shared = shared /\ s.answer = answer
  BY DEF State

\* What a request that comes in becomes.
Received(x) ==
    \E req \in Requests :
        x = IF Convertible(req) THEN State("seed", req, <<>>, <<>>, FALSE, None)
            ELSE State("idle", req, <<>>, <<>>, FALSE, Error)

\* What the use of the generator by another thread does to a state.
Interrupted(s) == IF s.pc = "draw" THEN [s EXCEPT !.shared = TRUE] ELSE s

\* What the next value does to a state.
Drew(s, value) ==
    LET noise == Append(s.noise, value)
    IN IF Len(noise) < 4 THEN [s EXCEPT !.noise = noise] ELSE Sample(s, noise)

ReceiveStep(t) ==
    /\ thread[t].pc = "idle" /\ drawn' = drawn /\ Received(thread'[t])
    /\ \A u \in Threads \ {t} : thread'[u] = thread[u]

SeedStep(t) ==
    /\ thread[t].pc = "seed" /\ drawn' = 0 /\ thread'[t] = [thread[t] EXCEPT !.pc = "draw"]
    /\ \A u \in Threads \ {t} : thread'[u] = Interrupted(thread[u])

DrawStep(t) ==
    /\ thread[t].pc = "draw" /\ drawn' = drawn + 1
    /\ thread'[t] = Drew(thread[t], Value(drawn))
    /\ \A u \in Threads \ {t} : thread'[u] = Interrupted(thread[u])

LEMMA StepIs ==
    ASSUME TypeInvariant, Next
    PROVE  /\ thread' = [t \in Threads |-> thread'[t]]
           /\ \E t \in Threads : ReceiveStep(t) \/ SeedStep(t) \/ DrawStep(t)
  <1>1. PICK t \in Threads : Receive(t) \/ Seed(t) \/ Draw(t)
    BY DEF Next
  <1>2. DOMAIN thread = Threads
    BY DEF TypeInvariant
  <1>3. /\ Disturbed(t) = [u \in Threads |-> IF u = t THEN thread[t] ELSE Interrupted(thread[u])]
    BY DEF Disturbed, Interrupted
  <1>4. CASE Receive(t)
    <2>1. PICK req \in Requests :
            thread' = [thread EXCEPT ![t] =
                IF Convertible(req) THEN [Idle EXCEPT !.pc = "seed", !.req = req]
                ELSE [Idle EXCEPT !.req = req, !.answer = Error]]
      BY <1>4 DEF Receive
    <2>2. /\ [Idle EXCEPT !.pc = "seed", !.req = req] = State("seed", req, <<>>, <<>>, FALSE, None)
          /\ [Idle EXCEPT !.req = req, !.answer = Error] = State("idle", req, <<>>, <<>>, FALSE, Error)
      <3>1. PICK idle, no : idle = Idle /\ no = FALSE
        OBVIOUS
      <3>2. idle = State("idle", None, <<>>, <<>>, no, None)
        BY <3>1 DEF Idle, State
      <3>3. PICK one : one = [idle EXCEPT !.pc = "seed"]
        OBVIOUS
      <3>4. PICK two : two = [idle EXCEPT !.req = req]
        OBVIOUS
      <3>5. [idle EXCEPT !.pc = "seed"] = State("seed", None, <<>>, <<>>, no, None)
        BY <3>2 DEF State
      <3>6. [idle EXCEPT !.req = req] = State("idle", req, <<>>, <<>>, no, None)
        BY <3>2 DEF State
      <3>7. one = State("seed", None, <<>>, <<>>, no, None)
        BY <3>3, <3>5
      <3>8. two = State("idle", req, <<>>, <<>>, no, None)
        BY <3>4, <3>6
      <3>9. [one EXCEPT !.req = req] = State("seed", req, <<>>, <<>>, no, None)
        BY <3>7 DEF State
      <3>10. [two EXCEPT !.answer = Error] = State("idle", req, <<>>, <<>>, no, Error)
        BY <3>8 DEF State
      <3>11. /\ [idle EXCEPT !.pc = "seed", !.req = req] = [one EXCEPT !.req = req]
             /\ [idle EXCEPT !.req = req, !.answer = Error] = [two EXCEPT !.answer = Error]
        BY <3>3, <3>4
      <3> QED
        BY <3>1, <3>9, <3>10, <3>11
    <2>3. Received(thread'[t])
      BY <1>2, <2>1, <2>2 DEF Received
    <2>4. thread[t].pc = "idle" /\ drawn' = drawn
      BY <1>4 DEF Receive
    <2> QED
      BY <1>2, <2>1, <2>3, <2>4 DEF ReceiveStep
  <1>5. CASE Seed(t)
    <2>1. /\ thread' = [Disturbed(t) EXCEPT ![t].pc = "draw"]
          /\ thread[t].pc = "seed" /\ drawn' = 0
      BY <1>5 DEF Seed
    <2> QED
      BY <1>3, <2>1 DEF SeedStep
  <1>6. CASE Draw(t)
    <2>1. PICK noise : noise = Append(thread[t].noise, Value(drawn))
      OBVIOUS
    <2>2. /\ thread' = [Disturbed(t) EXCEPT ![t] =
                          IF Len(noise) < 4 THEN [@ EXCEPT !.noise = noise] ELSE Sample(@, noise)]
          /\ thread[t].pc = "draw" /\ drawn' = drawn + 1
      BY <1>6, <2>1 DEF Draw
    <2>3. Drew(thread[t], Value(drawn)) =
            IF Len(noise) < 4 THEN [thread[t] EXCEPT !.noise = noise] ELSE Sample(thread[t], noise)
      BY <2>1 DEF Drew
    <2> QED
      BY <1>3, <2>2, <2>3 DEF DrawStep
  <1> QED
    BY <1>1, <1>4, <1>5, <1>6

\* The states that a good one becomes, written out.
LEMMA StatesAre ==
    ASSUME NEW s, Good(s)
    PROVE  /\ Interrupted(s) = State(s.pc, s.req, s.noise, s.tops,
                                    IF s.pc = "draw" THEN TRUE ELSE s.shared, s.answer)
           /\ [s EXCEPT !.pc = "draw"] = State("draw", s.req, s.noise, s.tops, s.shared, s.answer)
           /\ \A noise : [s EXCEPT !.noise = noise]
                            = State(s.pc, s.req, noise, s.tops, s.shared, s.answer)
           /\ \A noise, tops : [s EXCEPT !.noise = noise, !.tops = tops]
                            = State(s.pc, s.req, noise, tops, s.shared, s.answer)
           /\ \A answer : [[s EXCEPT !.pc = "idle", !.noise = <<>>, !.tops = <<>>] EXCEPT !.answer = answer]
                            = State("idle", s.req, <<>>, <<>>, s.shared, answer)
  <1>1. s = State(s.pc, s.req, s.noise, s.tops, s.shared, s.answer)
    BY DEF Good
  <1>2. Interrupted(s) = State(s.pc, s.req, s.noise, s.tops,
                               IF s.pc = "draw" THEN TRUE ELSE s.shared, s.answer)
    BY <1>1 DEF Interrupted, State
  <1>3. [s EXCEPT !.pc = "draw"] = State("draw", s.req, s.noise, s.tops, s.shared, s.answer)
    BY <1>1 DEF State
  <1>4. ASSUME NEW noise
        PROVE  [s EXCEPT !.noise = noise] = State(s.pc, s.req, noise, s.tops, s.shared, s.answer)
    BY <1>1 DEF State
  <1>5. ASSUME NEW noise, NEW tops
        PROVE  [s EXCEPT !.noise = noise, !.tops = tops]
                 = State(s.pc, s.req, noise, tops, s.shared, s.answer)
    <2>1. PICK one : one = [s EXCEPT !.noise = noise]
      OBVIOUS
    <2>2. one = State(s.pc, s.req, noise, s.tops, s.shared, s.answer)
      BY <1>4, <2>1
    <2>3. [one EXCEPT !.tops = tops] = State(s.pc, s.req, noise, tops, s.shared, s.answer)
      BY <2>2 DEF State
    <2> QED
      BY <2>1, <2>3
  <1>6. ASSUME NEW answer
        PROVE  [[s EXCEPT !.pc = "idle", !.noise = <<>>, !.tops = <<>>] EXCEPT !.answer = answer]
                 = State("idle", s.req, <<>>, <<>>, s.shared, answer)
    <2>1. PICK one : one = [s EXCEPT !.pc = "idle"]
      OBVIOUS
    <2>2. [s EXCEPT !.pc = "idle"] = State("idle", s.req, s.noise, s.tops, s.shared, s.answer)
      BY <1>1 DEF State
    <2>3. one = State("idle", s.req, s.noise, s.tops, s.shared, s.answer)
      BY <2>1, <2>2
    <2>4. PICK two : two = [one EXCEPT !.noise = <<>>]
      OBVIOUS
    <2>5. [one EXCEPT !.noise = <<>>] = State("idle", s.req, <<>>, s.tops, s.shared, s.answer)
      BY <2>3 DEF State
    <2>6. two = State("idle", s.req, <<>>, s.tops, s.shared, s.answer)
      BY <2>4, <2>5
    <2>7. PICK three : three = [two EXCEPT !.tops = <<>>]
      OBVIOUS
    <2>8. [two EXCEPT !.tops = <<>>] = State("idle", s.req, <<>>, <<>>, s.shared, s.answer)
      BY <2>6 DEF State
    <2>9. three = State("idle", s.req, <<>>, <<>>, s.shared, s.answer)
      BY <2>7, <2>8
    <2>10. [three EXCEPT !.answer = answer] = State("idle", s.req, <<>>, <<>>, s.shared, answer)
      BY <2>9 DEF State
    <2>11. [s EXCEPT !.pc = "idle", !.noise = <<>>, !.tops = <<>>] = three
      BY <2>1, <2>4, <2>7
    <2> QED
      BY <2>10, <2>11
  <1> QED
    BY <1>2, <1>3, <1>4, <1>5, <1>6

\* A value of the generator.
LEMMA ValueTyped ==
    ASSUME NEW position \in Int
    PROVE  Value(position) \in -8 .. 8
  <1>1. PICK n \in Nat \ {0} : n = Len(Noise)
    BY GenerationAssumption
  <1>2. position % n \in 0 .. n - 1
    OBVIOUS
  <1>3. (position % n) + 1 \in 1 .. n
    BY <1>2
  <1> QED
    BY <1>1, <1>3, ElementOfSeq, GenerationAssumption DEF Value

\* A state has the fields that it is made of.
LEMMA StateHas ==
    ASSUME NEW x, NEW pc, NEW req, NEW noise, NEW tops, NEW shared, NEW answer,
           x = State(pc, req, noise, tops, shared, answer)
    PROVE  /\ x = State(x.pc, x.req, x.noise, x.tops, x.shared, x.answer)
           /\ x.pc = pc /\ x.req = req /\ x.noise = noise /\ x.tops = tops
           /\ x.shared = shared /\ x.answer = answer
  BY DEF State

LEMMA ReceivedHas ==
    ASSUME NEW x, Received(x)
    PROVE  \E req \in Requests :
              /\ x = State(x.pc, x.req, x.noise, x.tops, x.shared, x.answer)
              /\ x.req = req /\ x.noise = <<>> /\ x.tops = <<>> /\ x.shared = FALSE
              /\ IF Convertible(req) THEN x.pc = "seed" ELSE x.pc = "idle" /\ x.answer = Error
  <1>1. PICK req \in Requests :
          x = IF Convertible(req) THEN State("seed", req, <<>>, <<>>, FALSE, None)
              ELSE State("idle", req, <<>>, <<>>, FALSE, Error)
    BY DEF Received
  <1>2. PICK no, error : no = FALSE /\ error = Error
    OBVIOUS
  <1>3. x = IF Convertible(req) THEN State("seed", req, <<>>, <<>>, no, None)
            ELSE State("idle", req, <<>>, <<>>, no, error)
    BY <1>1, <1>2
  <1>4. CASE Convertible(req)
    <2>1. x = State("seed", req, <<>>, <<>>, no, None)
      BY <1>3, <1>4
    <2> QED
      BY <1>2, <1>4, <2>1, StateHas
  <1>5. CASE ~Convertible(req)
    <2>1. x = State("idle", req, <<>>, <<>>, no, error)
      BY <1>3, <1>5
    <2> QED
      BY <1>2, <1>5, <2>1, StateHas
  <1> QED
    BY <1>4, <1>5

LEMMA InterruptedHas ==
    ASSUME NEW s, Good(s), NEW x, x = Interrupted(s)
    PROVE  /\ x = State(x.pc, x.req, x.noise, x.tops, x.shared, x.answer)
           /\ x.pc = s.pc /\ x.req = s.req /\ x.noise = s.noise /\ x.tops = s.tops
           /\ x.shared \in BOOLEAN /\ x.answer = s.answer
           /\ IF s.pc = "draw" THEN x.shared = TRUE ELSE x.shared = s.shared
  <1>1. PICK shared : shared = IF s.pc = "draw" THEN TRUE ELSE s.shared
    OBVIOUS
  <1>2. x = State(s.pc, s.req, s.noise, s.tops, shared, s.answer)
    BY <1>1, StatesAre
  <1>3. s.shared \in BOOLEAN
    BY DEF Good
  <1>4. /\ x = State(x.pc, x.req, x.noise, x.tops, x.shared, x.answer)
        /\ x.pc = s.pc /\ x.req = s.req /\ x.noise = s.noise /\ x.tops = s.tops
        /\ x.shared = shared /\ x.answer = s.answer
    BY <1>2, StateHas
  <1> QED
    BY <1>1, <1>3, <1>4

LEMMA SeededHas ==
    ASSUME NEW s, Good(s), NEW x, x = [s EXCEPT !.pc = "draw"]
    PROVE  /\ x = State(x.pc, x.req, x.noise, x.tops, x.shared, x.answer)
           /\ x.pc = "draw" /\ x.req = s.req /\ x.noise = s.noise /\ x.tops = s.tops
           /\ x.shared = s.shared /\ x.answer = s.answer
  <1>1. x = State("draw", s.req, s.noise, s.tops, s.shared, s.answer)
    BY StatesAre
  <1> QED
    BY <1>1, StateHas

\* What one more value, noise, or one more top, tops, make of a sampling thread:
\* it completes no sample, the last, or one of the others; or there is no candidate.
Becomes(s, x, noise, tops) ==
    /\ x = State(x.pc, x.req, x.noise, x.tops, x.shared, x.answer)
    /\ x.req = s.req /\ x.shared = s.shared
    /\ noise \in Seq(-8 .. 8) /\ Len(noise) = Len(s.noise) + 1 /\ Len(noise) \in 1 .. 4
    /\ \/ Len(noise) < 4 /\ x.pc = "draw" /\ x.noise = noise /\ x.tops = s.tops
       \/ /\ Len(noise) = 4 /\ RankingOf[s.req] = <<>>
          /\ x.pc = "idle" /\ x.noise = <<>> /\ x.tops = <<>> /\ x.answer = Error
       \/ /\ Len(noise) = 4 /\ RankingOf[s.req] # <<>> /\ Enough(tops)
          /\ x.pc = "idle" /\ x.noise = <<>> /\ x.tops = <<>>
          /\ x.answer = Answer(s.req, RankingOf[s.req], tops)
       \/ /\ Len(noise) = 4 /\ RankingOf[s.req] # <<>> /\ ~Enough(tops)
          /\ x.pc = "draw" /\ x.noise = <<>> /\ x.tops = tops

TopsWith(s, noise) == Append(s.tops, TopUnder(RankingOf[s.req], s.req.priorities, noise))

LEMMA DrewHas ==
    ASSUME NEW s, Good(s), s.pc = "draw", NEW value \in -8 .. 8
    PROVE  Becomes(s, Drew(s, value), Append(s.noise, value), TopsWith(s, Append(s.noise, value)))
  <1> SUFFICES ASSUME NEW x, x = Drew(s, value), NEW noise, noise = Append(s.noise, value),
                      NEW tops, tops = TopsWith(s, noise)
               PROVE  Becomes(s, x, noise, tops)
    OBVIOUS
  <1>1. /\ s.noise \in Seq(-8 .. 8) /\ Len(s.noise) \in 0 .. 3
        /\ noise \in Seq(-8 .. 8) /\ Len(noise) = Len(s.noise) + 1 /\ Len(noise) \in 1 .. 4
    <2>1. s.noise \in Seq(-8 .. 8) /\ Len(s.noise) < 4 /\ Len(s.noise) \in Nat
      BY LenProperties DEF Good
    <2>2. PICK V, old : V = -8 .. 8 /\ old = s.noise /\ old \in Seq(V) /\ value \in V
      BY <2>1
    <2>3. Append(old, value) \in Seq(V) /\ Len(Append(old, value)) = Len(old) + 1
      BY <2>2, AppendProperties
    <2>4. PICK n \in Nat : n = Len(s.noise) /\ n < 4
      BY <2>1
    <2>5. noise \in Seq(-8 .. 8) /\ Len(noise) = n + 1
      BY <2>2, <2>3, <2>4
    <2>6. n \in Nat /\ n < 4
      BY <2>4
    <2>7. n \in 0 .. 3 /\ n + 1 \in 1 .. 4
      BY ONLY <2>6
    <2> QED
      BY <2>1, <2>4, <2>5, <2>7
  <1>2. CASE Len(noise) < 4
    <2>1. x = [s EXCEPT !.noise = noise]
      BY <1>2 DEF Drew
    <2>2. x = State(s.pc, s.req, noise, s.tops, s.shared, s.answer)
      BY <2>1, StatesAre
    <2>3. /\ x = State(x.pc, x.req, x.noise, x.tops, x.shared, x.answer)
          /\ x.pc = s.pc /\ x.req = s.req /\ x.noise = noise /\ x.tops = s.tops /\ x.shared = s.shared
      <3>1. PICK pc, req, old, shared, answer :
              pc = s.pc /\ req = s.req /\ old = s.tops /\ shared = s.shared /\ answer = s.answer
        OBVIOUS
      <3>2. x = State(pc, req, noise, old, shared, answer)
        BY <2>2, <3>1
      <3>3. /\ x = State(x.pc, x.req, x.noise, x.tops, x.shared, x.answer)
            /\ x.pc = pc /\ x.req = req /\ x.noise = noise /\ x.tops = old /\ x.shared = shared
        BY ONLY <3>2, StateHas
      <3> QED
        BY <3>1, <3>3
    <2> QED
      BY <1>1, <1>2, <2>3 DEF Becomes
  <1>3. CASE Len(noise) = 4
    <2> DEFINE done == [s EXCEPT !.pc = "idle", !.noise = <<>>, !.tops = <<>>]
    <2>1. x = IF RankingOf[s.req] = <<>> THEN [done EXCEPT !.answer = Error]
              ELSE IF Enough(tops) THEN [done EXCEPT !.answer = Answer(s.req, RankingOf[s.req], tops)]
              ELSE [s EXCEPT !.noise = <<>>, !.tops = tops]
      <3>1. x = Sample(s, noise)
        BY <1>3 DEF Drew
      <3> QED
        BY <3>1 DEF Sample, TopsWith
    <2>2. PICK error, answer : error = Error /\ answer = Answer(s.req, RankingOf[s.req], tops)
      OBVIOUS
    <2>3. x = IF RankingOf[s.req] = <<>> THEN State("idle", s.req, <<>>, <<>>, s.shared, error)
              ELSE IF Enough(tops) THEN State("idle", s.req, <<>>, <<>>, s.shared, answer)
              ELSE State(s.pc, s.req, <<>>, tops, s.shared, s.answer)
      <3>1. /\ [done EXCEPT !.answer = error] = State("idle", s.req, <<>>, <<>>, s.shared, error)
            /\ [done EXCEPT !.answer = answer] = State("idle", s.req, <<>>, <<>>, s.shared, answer)
        BY StatesAre
      <3>2. [s EXCEPT !.noise = <<>>, !.tops = tops] = State(s.pc, s.req, <<>>, tops, s.shared, s.answer)
        <4>1. PICK empty : empty = <<>>
          OBVIOUS
        <4>2. [s EXCEPT !.noise = empty, !.tops = tops]
                = State(s.pc, s.req, empty, tops, s.shared, s.answer)
          <5>1. Good(s)
            OBVIOUS
          <5> QED
            BY ONLY <5>1, StatesAre
        <4> QED
          BY <4>1, <4>2
      <3> HIDE DEF done
      <3> QED
        BY <2>1, <2>2, <3>1, <3>2
    <2> HIDE DEF done
    <2>4. CASE RankingOf[s.req] = <<>>
      <3>1. x = State("idle", s.req, <<>>, <<>>, s.shared, error)
        BY <2>3, <2>4
      <3> QED
        BY <1>1, <1>3, <2>2, <2>4, <3>1, StateHas DEF Becomes
    <2>5. CASE RankingOf[s.req] # <<>> /\ Enough(tops)
      <3>1. x = State("idle", s.req, <<>>, <<>>, s.shared, answer)
        BY <2>3, <2>5
      <3> QED
        BY <1>1, <1>3, <2>2, <2>5, <3>1, StateHas DEF Becomes
    <2>6. CASE RankingOf[s.req] # <<>> /\ ~Enough(tops)
      <3>1. x = State(s.pc, s.req, <<>>, tops, s.shared, s.answer)
        BY <2>3, <2>6
      <3>2. /\ x = State(x.pc, x.req, x.noise, x.tops, x.shared, x.answer)
            /\ x.pc = s.pc /\ x.req = s.req /\ x.noise = <<>> /\ x.tops = tops /\ x.shared = s.shared
        <4>1. PICK pc, req, shared, last :
                pc = s.pc /\ req = s.req /\ shared = s.shared /\ last = s.answer
          OBVIOUS
        <4>2. x = State(pc, req, <<>>, tops, shared, last)
          BY <3>1, <4>1
        <4>3. /\ x = State(x.pc, x.req, x.noise, x.tops, x.shared, x.answer)
              /\ x.pc = pc /\ x.req = req /\ x.noise = <<>> /\ x.tops = tops /\ x.shared = shared
          BY ONLY <4>2, StateHas
        <4> QED
          BY <4>1, <4>3
      <3> QED
        BY <1>1, <1>3, <2>6, <3>2 DEF Becomes
    <2> QED
      BY <2>4, <2>5, <2>6
  <1> QED
    BY <1>1, <1>2, <1>3

----------------------------------------------------------------------------
(* The types *)

LEMMA SampleNoise ==
    ASSUME NEW noise \in Seq(-8 .. 8), Len(noise) = 4
    PROVE  noise \in [1 .. 4 -> Int]
  <1>1. noise \in [1 .. 4 -> -8 .. 8]
    BY LenProperties
  <1> QED
    BY <1>1

LEMMA TopTyped ==
    ASSUME NEW req \in Requests, Convertible(req), RankingOf[req] # <<>>,
           NEW noise \in [1 .. 4 -> Int]
    PROVE  TopUnder(RankingOf[req], req.priorities, noise) \in EveryId
  <1>1. PICK selected, ranking :
          /\ selected \in SUBSET Topologies
          /\ ranking = RankingUnder(selected, req) /\ ranking = RankingOf[req]
    BY RankingOfIs
  <1>2. PICK i \in DOMAIN ranking :
          /\ TopUnder(ranking, req.priorities, noise) = ranking[i].id
          /\ \A j \in DOMAIN ranking \ {i} :
                Weighed(ranking[i].metrics, req.priorities, noise)
                   >= Weighed(ranking[j].metrics, req.priorities, noise)
    BY <1>1, TopIs
  <1>3. \A j \in DOMAIN ranking : ranking[j].id \in EveryId
    BY <1>1, RankingIs
  <1> QED
    BY <1>1, <1>2, <1>3

\* The tops of a thread with one more.
LEMMA TopsAre ==
    ASSUME NEW s, Good(s), s.pc = "draw", RankingOf[s.req] # <<>>,
           NEW noise \in Seq(-8 .. 8), Len(noise) = 4
    PROVE  LET top == TopUnder(RankingOf[s.req], s.req.priorities, noise)
               tops == TopsWith(s, noise)
           IN /\ tops \in Seq(EveryId) /\ Len(tops) = Len(s.tops) + 1 /\ Len(s.tops) \in Nat
              /\ Len(tops) <= Samples
              /\ \A k \in 1 .. Len(s.tops) : tops[k] = s.tops[k]
              /\ tops[Len(s.tops) + 1] = top
  <1>1. PICK top : top = TopUnder(RankingOf[s.req], s.req.priorities, noise)
    OBVIOUS
  <1>2. s.req \in Requests /\ Convertible(s.req) /\ s.tops \in Seq(EveryId) /\ Len(s.tops) < Samples
    BY DEF Good
  <1>3. top \in EveryId
    BY <1>1, <1>2, SampleNoise, TopTyped
  <1>4. PICK old : old = s.tops
    OBVIOUS
  <1>5. old \in Seq(EveryId) /\ Len(old) \in Nat /\ Len(old) < Samples
    BY <1>2, <1>4, LenProperties
  <1>6. /\ Append(old, top) \in Seq(EveryId) /\ Len(Append(old, top)) = Len(old) + 1
        /\ \A k \in 1 .. Len(old) : Append(old, top)[k] = old[k]
        /\ Append(old, top)[Len(old) + 1] = top
    BY <1>3, <1>5, AppendProperties
  <1>7. Len(old) + 1 <= Samples
    BY <1>5, GenerationAssumption
  <1> QED
    BY <1>1, <1>4, <1>5, <1>6, <1>7 DEF TopsWith

LEMMA GoodDrew ==
    ASSUME NEW s, Good(s), s.pc = "draw", NEW value \in -8 .. 8
    PROVE  Good(Drew(s, value))
  <1>1. PICK x, noise, tops :
          x = Drew(s, value) /\ noise = Append(s.noise, value) /\ tops = TopsWith(s, noise)
    OBVIOUS
  <1>2. Becomes(s, x, noise, tops)
    BY <1>1, DrewHas
  <1>3. /\ x = State(x.pc, x.req, x.noise, x.tops, x.shared, x.answer)
        /\ x.req = s.req /\ x.shared = s.shared
        /\ noise \in Seq(-8 .. 8) /\ Len(noise) \in 1 .. 4
        /\ \/ Len(noise) < 4 /\ x.pc = "draw" /\ x.noise = noise /\ x.tops = s.tops
           \/ x.pc = "idle" /\ x.noise = <<>> /\ x.tops = <<>>
           \/ /\ Len(noise) = 4 /\ RankingOf[s.req] # <<>> /\ ~Enough(tops)
              /\ x.pc = "draw" /\ x.noise = <<>> /\ x.tops = tops
    BY <1>2 DEF Becomes
  <1>4. /\ s.req \in Requests /\ Convertible(s.req) /\ s.shared \in BOOLEAN
        /\ s.tops \in Seq(EveryId) /\ Len(s.tops) < Samples
    BY DEF Good
  <1>5. /\ <<>> \in Seq(-8 .. 8) /\ Len(<<>>) < 4
        /\ <<>> \in Seq(EveryId) /\ Len(<<>>) < Samples
    BY GenerationAssumption
  <1>6. ASSUME RankingOf[s.req] # <<>>, Len(noise) = 4, ~Enough(tops)
        PROVE  tops \in Seq(EveryId) /\ Len(tops) < Samples
    <2>1. tops \in Seq(EveryId) /\ Len(tops) <= Samples /\ Len(tops) \in Nat
      BY <1>1, <1>3, <1>6, TopsAre, LenProperties DEF TopsWith
    <2>2. Len(tops) # Samples
      BY <1>6 DEF Enough
    <2> QED
      BY <2>1, <2>2, GenerationAssumption
  <1>7. /\ x.noise \in Seq(-8 .. 8) /\ Len(x.noise) < 4
        /\ x.tops \in Seq(EveryId) /\ Len(x.tops) < Samples
    BY <1>3, <1>4, <1>5, <1>6
  <1>8. x.pc \in {"idle", "seed", "draw"} /\ x.req \in Requests /\ Convertible(x.req) /\ x.shared \in BOOLEAN
    BY <1>3, <1>4
  <1> QED
    BY <1>1, <1>3, <1>7, <1>8 DEF Good

LEMMA GoodReceived == ASSUME NEW x, Received(x) PROVE Good(x)
  <1>1. PICK req \in Requests :
          /\ x = State(x.pc, x.req, x.noise, x.tops, x.shared, x.answer)
          /\ x.req = req /\ x.noise = <<>> /\ x.tops = <<>> /\ x.shared = FALSE
          /\ IF Convertible(req) THEN x.pc = "seed" ELSE x.pc = "idle" /\ x.answer = Error
    BY ReceivedHas
  <1>2. /\ <<>> \in Seq(-8 .. 8) /\ Len(<<>>) < 4
        /\ <<>> \in Seq(EveryId) /\ Len(<<>>) < Samples
    BY GenerationAssumption
  <1>3. x.pc \in {"idle", "seed", "draw"} /\ (x.pc # "idle" => Convertible(x.req))
    BY <1>1
  <1>4. x.shared \in BOOLEAN
    BY <1>1
  <1> QED
    BY <1>1, <1>2, <1>3, <1>4 DEF Good

LEMMA GoodInterrupted == ASSUME NEW s, Good(s), NEW x, x = Interrupted(s) PROVE Good(x)
  <1>1. /\ x = State(x.pc, x.req, x.noise, x.tops, x.shared, x.answer)
        /\ x.pc = s.pc /\ x.req = s.req /\ x.noise = s.noise /\ x.tops = s.tops
        /\ x.shared \in BOOLEAN
    BY InterruptedHas
  <1> QED
    BY <1>1 DEF Good

LEMMA GoodSeeded ==
    ASSUME NEW s, Good(s), s.pc = "seed", NEW x, x = [s EXCEPT !.pc = "draw"] PROVE Good(x)
  <1>1. /\ x = State(x.pc, x.req, x.noise, x.tops, x.shared, x.answer)
        /\ x.pc = "draw" /\ x.req = s.req /\ x.noise = s.noise /\ x.tops = s.tops
        /\ x.shared = s.shared
    BY SeededHas
  <1>2. /\ s.req \in Requests /\ Convertible(s.req) /\ s.shared \in BOOLEAN
        /\ s.noise \in Seq(-8 .. 8) /\ Len(s.noise) < 4
        /\ s.tops \in Seq(EveryId) /\ Len(s.tops) < Samples
    BY DEF Good
  <1> QED
    BY <1>1, <1>2 DEF Good

LEMMA TypeStep == TypeInvariant /\ Next => TypeInvariant'
  <1> SUFFICES ASSUME TypeInvariant, Next PROVE TypeInvariant'
    OBVIOUS
  <1>1. PICK next : next = thread'
    OBVIOUS
  <1>2. PICK t \in Threads : ReceiveStep(t) \/ SeedStep(t) \/ DrawStep(t)
    BY StepIs
  <1>3. next = [u \in Threads |-> next[u]]
    BY <1>1, StepIs
  <1>4. drawn \in Nat /\ \A u \in Threads : Good(thread[u])
    BY DEF TypeInvariant
  <1>5. Value(drawn) \in -8 .. 8
    BY <1>4, ValueTyped
  <1>6. CASE ReceiveStep(t)
    <2>1. /\ drawn' \in Nat /\ Received(next[t])
          /\ \A u \in Threads \ {t} : next[u] = thread[u]
      BY <1>1, <1>4, <1>6 DEF ReceiveStep
    <2>2. \A u \in Threads : Good(next[u])
      BY <1>4, <2>1, GoodReceived
    <2> QED
      BY <1>1, <1>3, <2>1, <2>2 DEF TypeInvariant, Good
  <1>7. CASE SeedStep(t)
    <2>1. /\ drawn' \in Nat /\ thread[t].pc = "seed"
          /\ next[t] = [thread[t] EXCEPT !.pc = "draw"]
          /\ \A u \in Threads \ {t} : next[u] = Interrupted(thread[u])
      BY <1>1, <1>4, <1>7 DEF SeedStep
    <2>2. \A u \in Threads : Good(next[u])
      BY <1>4, <2>1, GoodSeeded, GoodInterrupted
    <2> QED
      BY <1>1, <1>3, <2>1, <2>2 DEF TypeInvariant, Good
  <1>8. CASE DrawStep(t)
    <2>1. /\ drawn' \in Nat /\ thread[t].pc = "draw" /\ next[t] = Drew(thread[t], Value(drawn))
          /\ \A u \in Threads \ {t} : next[u] = Interrupted(thread[u])
      BY <1>1, <1>4, <1>8 DEF DrawStep
    <2>2. \A u \in Threads : Good(next[u])
      BY <1>4, <1>5, <2>1, GoodDrew, GoodInterrupted
    <2> QED
      BY <1>1, <1>3, <2>1, <2>2 DEF TypeInvariant, Good
  <1> QED
    BY <1>2, <1>6, <1>7, <1>8

\* What a thread starts as.
LEMMA IdleHas ==
    ASSUME NEW x, x = Idle
    PROVE  /\ x = State(x.pc, x.req, x.noise, x.tops, x.shared, x.answer)
           /\ x.pc = "idle" /\ x.req = None /\ x.noise = <<>> /\ x.tops = <<>> /\ x.shared = FALSE
  <1>1. PICK no : no = FALSE
    OBVIOUS
  <1>2. x = State("idle", None, <<>>, <<>>, no, None)
    BY <1>1 DEF Idle, State
  <1> QED
    BY <1>1, <1>2, StateHas

LEMMA TypeInit == Init => TypeInvariant
  <1> SUFFICES ASSUME Init PROVE TypeInvariant
    OBVIOUS
  <1>1. PICK x : x = Idle
    OBVIOUS
  <1>2. /\ x = State(x.pc, x.req, x.noise, x.tops, x.shared, x.answer)
        /\ x.pc = "idle" /\ x.req = None /\ x.noise = <<>> /\ x.tops = <<>> /\ x.shared = FALSE
    BY <1>1, IdleHas
  <1>3. /\ <<>> \in Seq(-8 .. 8) /\ Len(<<>>) < 4
        /\ <<>> \in Seq(EveryId) /\ Len(<<>>) < Samples
    BY GenerationAssumption
  <1>4. x.shared \in BOOLEAN
    BY <1>2
  <1>5. Good(x)
    BY <1>2, <1>3, <1>4 DEF Good
  <1>6. drawn = 0 /\ thread = [t \in Threads |-> x]
    BY <1>1 DEF Init
  <1> QED
    BY <1>5, <1>6 DEF TypeInvariant

LEMMA TypeHolds == Spec => []TypeInvariant
  <1>1. TypeInvariant /\ UNCHANGED vars => TypeInvariant'
    <2> SUFFICES ASSUME TypeInvariant, UNCHANGED vars PROVE TypeInvariant'
      OBVIOUS
    <2>1. drawn' = drawn /\ thread' = thread
      BY DEF vars
    <2> QED
      BY <2>1 DEF TypeInvariant, Good
  <1> QED
    BY <1>1, TypeInit, TypeStep, PTL DEF Spec

\* Generation.TypeOK: the variables have their types, and a thread that samples
\* is short of the samples and of the values that Sample waits for.
THEOREM TypeCorrect == Spec => []TypeOK
  <1>1. TypeInvariant => TypeOK
    BY DEF TypeInvariant, TypeOK, Good, EveryId
  <1> QED
    BY <1>1, TypeHolds, PTL

----------------------------------------------------------------------------
(* The outcome *)

LEMMA AnswerHas ==
    ASSUME NEW req, NEW ranking, NEW tops
    PROVE  /\ Answer(req, ranking, tops).outcome = "ok" /\ Error.outcome = "error"
           /\ Answer(req, ranking, tops).level = Level(tops, ranking[1].id)
  BY DEF Answer, Error

LEMMA OutcomeReceived == ASSUME NEW x, Received(x) PROVE Outcome(x)
  <1>1. PICK req \in Requests :
          /\ x.req = req
          /\ IF Convertible(req) THEN x.pc = "seed" ELSE x.pc = "idle" /\ x.answer = Error
    BY ReceivedHas
  <1>2. ASSUME x.pc = "idle"
        PROVE  x.req \in Requests /\ ~Convertible(x.req) /\ x.answer.outcome = "error"
    BY <1>1, <1>2, AnswerHas
  <1> QED
    BY <1>2 DEF Outcome, IsAnswered

LEMMA OutcomeInterrupted ==
    ASSUME NEW s, Good(s), Outcome(s) PROVE Outcome(Interrupted(s))
  <1>1. PICK x : x = Interrupted(s)
    OBVIOUS
  <1>2. x.pc = s.pc /\ x.req = s.req /\ x.answer = s.answer
    BY <1>1, InterruptedHas
  <1> QED
    BY <1>1, <1>2 DEF Outcome, IsAnswered

LEMMA OutcomeSeeded == ASSUME NEW s, Good(s) PROVE Outcome([s EXCEPT !.pc = "draw"])
  <1>1. PICK x : x = [s EXCEPT !.pc = "draw"]
    OBVIOUS
  <1>2. x.pc = "draw"
    BY <1>1, SeededHas
  <1> QED
    BY <1>1, <1>2 DEF Outcome, IsAnswered

LEMMA OutcomeDrew ==
    ASSUME NEW s, Good(s), s.pc = "draw", NEW value \in -8 .. 8 PROVE Outcome(Drew(s, value))
  <1>1. PICK x, noise, tops :
          x = Drew(s, value) /\ noise = Append(s.noise, value) /\ tops = TopsWith(s, noise)
    OBVIOUS
  <1>2. Becomes(s, x, noise, tops)
    BY <1>1, DrewHas
  <1>3. /\ x.req = s.req
        /\ \/ x.pc = "draw"
           \/ RankingOf[s.req] = <<>> /\ x.answer = Error
           \/ RankingOf[s.req] # <<>> /\ x.answer = Answer(s.req, RankingOf[s.req], tops)
    BY <1>2 DEF Becomes
  <1>4. s.req \in Requests /\ Convertible(s.req)
    BY DEF Good
  <1>5. ASSUME x.pc # "draw"
        PROVE  IF RankingOf[x.req] # <<>> THEN x.answer.outcome = "ok" ELSE x.answer.outcome = "error"
    BY <1>3, <1>5, AnswerHas
  <1> QED
    BY <1>1, <1>3, <1>4, <1>5 DEF Outcome, IsAnswered

LEMMA OutcomeInit == Init => OutcomeInvariant
  <1> SUFFICES ASSUME Init PROVE OutcomeInvariant
    OBVIOUS
  <1>1. PICK x : x = Idle
    OBVIOUS
  <1>2. x.req = None
    BY <1>1, IdleHas
  <1>3. thread = [t \in Threads |-> x]
    BY <1>1 DEF Init
  <1> QED
    BY <1>2, <1>3 DEF OutcomeInvariant, Outcome, IsAnswered

LEMMA OutcomeStep == TypeInvariant /\ OutcomeInvariant /\ Next => OutcomeInvariant'
  <1> SUFFICES ASSUME TypeInvariant, OutcomeInvariant, Next PROVE OutcomeInvariant'
    OBVIOUS
  <1>1. PICK next : next = thread'
    OBVIOUS
  <1>2. PICK t \in Threads : ReceiveStep(t) \/ SeedStep(t) \/ DrawStep(t)
    BY StepIs
  <1>3. \A u \in Threads : Good(thread[u]) /\ Outcome(thread[u])
    BY DEF TypeInvariant, OutcomeInvariant
  <1>4. Value(drawn) \in -8 .. 8
    BY ValueTyped DEF TypeInvariant
  <1>5. SUFFICES \A u \in Threads : Outcome(next[u])
    BY <1>1 DEF OutcomeInvariant, Outcome, IsAnswered
  <1>6. CASE ReceiveStep(t)
    <2>1. Received(next[t]) /\ \A u \in Threads \ {t} : next[u] = thread[u]
      BY <1>1, <1>6 DEF ReceiveStep
    <2> QED
      BY <1>3, <2>1, OutcomeReceived
  <1>7. CASE SeedStep(t)
    <2>1. /\ next[t] = [thread[t] EXCEPT !.pc = "draw"]
          /\ \A u \in Threads \ {t} : next[u] = Interrupted(thread[u])
      BY <1>1, <1>7 DEF SeedStep
    <2> QED
      BY <1>3, <2>1, OutcomeSeeded, OutcomeInterrupted
  <1>8. CASE DrawStep(t)
    <2>1. /\ thread[t].pc = "draw" /\ next[t] = Drew(thread[t], Value(drawn))
          /\ \A u \in Threads \ {t} : next[u] = Interrupted(thread[u])
      BY <1>1, <1>8 DEF DrawStep
    <2> QED
      BY <1>3, <1>4, <2>1, OutcomeDrew, OutcomeInterrupted
  <1> QED
    BY <1>2, <1>6, <1>7, <1>8

LEMMA OutcomeHolds == Spec => []OutcomeInvariant
  <1>1. OutcomeInvariant /\ UNCHANGED vars => OutcomeInvariant'
    BY DEF vars, OutcomeInvariant, Outcome, IsAnswered
  <1> QED
    BY <1>1, OutcomeInit, OutcomeStep, TypeHolds, PTL DEF Spec

----------------------------------------------------------------------------
(* A dominant winner *)

LEMMA StableWhenUnanimous ==
    ASSUME NEW tops, NEW top, \A k \in DOMAIN tops : tops[k] = top
    PROVE  Level(tops, top) = "stable"
  <1>1. PICK others : others = {k \in DOMAIN tops : tops[k] # top}
    OBVIOUS
  <1>2. others = {}
    BY <1>1
  <1>3. Cardinality(others) = 0
    BY <1>2, FS_EmptySet
  <1>4. Level(tops, top) = IF 10 * Cardinality(others) <= 2 * Samples THEN "stable"
                           ELSE IF 10 * Cardinality(others) <= 5 * Samples THEN "medium" ELSE "unstable"
    BY <1>1 DEF Level
  <1>5. 10 * 0 <= 2 * Samples
    BY GenerationAssumption
  <1> QED
    BY <1>3, <1>4, <1>5

LEMMA DominatedReceived == ASSUME NEW x, Received(x) PROVE Dominated(x)
  <1>1. PICK req \in Requests :
          /\ x.tops = <<>>
          /\ IF Convertible(req) THEN x.pc = "seed" ELSE x.pc = "idle" /\ x.answer = Error
    BY ReceivedHas
  <1>2. x.pc = "idle" => x.answer.outcome = "error"
    BY <1>1, AnswerHas
  <1>3. Len(x.tops) = 0 /\ 1 .. 0 = {}
    BY <1>1
  <1> QED
    BY <1>2, <1>3 DEF Dominated, IsAnswered

LEMMA DominatedInterrupted ==
    ASSUME NEW s, Good(s), Dominated(s) PROVE Dominated(Interrupted(s))
  <1>1. PICK x : x = Interrupted(s)
    OBVIOUS
  <1>2. x.pc = s.pc /\ x.req = s.req /\ x.tops = s.tops /\ x.answer = s.answer
    BY <1>1, InterruptedHas
  <1> QED
    BY <1>1, <1>2 DEF Dominated, IsAnswered

LEMMA DominatedSeeded ==
    ASSUME NEW s, Good(s), s.pc = "seed", Dominated(s) PROVE Dominated([s EXCEPT !.pc = "draw"])
  <1>1. PICK x : x = [s EXCEPT !.pc = "draw"]
    OBVIOUS
  <1>2. x.pc = "draw" /\ x.req = s.req /\ x.tops = s.tops
    BY <1>1, SeededHas
  <1> QED
    BY <1>1, <1>2 DEF Dominated, IsAnswered

LEMMA DominatedDrew ==
    ASSUME NEW s, Good(s), s.pc = "draw", Dominated(s), NEW value \in -8 .. 8
    PROVE  Dominated(Drew(s, value))
  <1>1. PICK x, noise, tops :
          x = Drew(s, value) /\ noise = Append(s.noise, value) /\ tops = TopsWith(s, noise)
    OBVIOUS
  <1>2. Becomes(s, x, noise, tops)
    BY <1>1, DrewHas
  <1>3. s.req \in Requests /\ Convertible(s.req)
    BY DEF Good
  <1>4. x.req = s.req /\ noise \in Seq(-8 .. 8)
    BY <1>2 DEF Becomes
  <1>5. SUFFICES ASSUME Dominant(RankingOf[s.req]) PROVE Dominated(x)
    BY <1>1, <1>4 DEF Dominated
  <1>6. PICK winner : winner = RankingOf[s.req][1].id
    OBVIOUS
  <1>7. \A k \in 1 .. Len(s.tops) : s.tops[k] = winner
    BY <1>5, <1>6 DEF Dominated
  <1>8. ASSUME RankingOf[s.req] # <<>>, Len(noise) = 4
        PROVE  tops \in Seq(EveryId) /\ \A k \in 1 .. Len(tops) : tops[k] = winner
    <2>1. PICK n \in Nat : n = Len(s.tops)
      BY <1>1, <1>4, <1>8, TopsAre
    <2>2. /\ tops \in Seq(EveryId) /\ Len(tops) = n + 1
          /\ \A k \in 1 .. n : tops[k] = s.tops[k]
          /\ tops[n + 1] = TopUnder(RankingOf[s.req], s.req.priorities, noise)
      BY <1>1, <1>4, <1>8, <2>1, TopsAre
    <2>3. TopUnder(RankingOf[s.req], s.req.priorities, noise) = winner
      BY <1>3, <1>4, <1>5, <1>6, <1>8, SampleNoise, DominantIsTop
    <2>4. ASSUME NEW k \in 1 .. n + 1 PROVE k \in 1 .. n \/ k = n + 1
      OBVIOUS
    <2>5. \A k \in 1 .. n : tops[k] = winner
      BY <1>7, <2>1, <2>2
    <2> QED
      BY <2>2, <2>3, <2>4, <2>5
  <1>9. CASE Len(noise) < 4 /\ x.pc = "draw" /\ x.tops = s.tops
    BY <1>4, <1>6, <1>7, <1>9 DEF Dominated, IsAnswered
  <1>10. CASE x.pc = "idle" /\ x.answer = Error
    BY <1>10, AnswerHas DEF Dominated, IsAnswered
  <1>11. CASE /\ Len(noise) = 4 /\ RankingOf[s.req] # <<>>
              /\ x.pc = "idle" /\ x.answer = Answer(s.req, RankingOf[s.req], tops)
    <2>1. DOMAIN tops = 1 .. Len(tops)
      BY <1>8, <1>11, LenProperties
    <2>2. Level(tops, winner) = "stable"
      BY <1>8, <1>11, <2>1, StableWhenUnanimous
    <2>3. x.answer.level = "stable"
      BY <1>6, <1>11, <2>2, AnswerHas
    <2> QED
      BY <1>11, <2>3 DEF Dominated
  <1>12. CASE Len(noise) = 4 /\ RankingOf[s.req] # <<>> /\ x.pc = "draw" /\ x.tops = tops
    BY <1>4, <1>6, <1>8, <1>12 DEF Dominated, IsAnswered
  <1> QED
    BY <1>2, <1>9, <1>10, <1>11, <1>12 DEF Becomes

LEMMA DominantInit == Init => DominantInvariant
  <1> SUFFICES ASSUME Init PROVE DominantInvariant
    OBVIOUS
  <1>1. PICK x : x = Idle
    OBVIOUS
  <1>2. x.req = None /\ x.pc = "idle"
    BY <1>1, IdleHas
  <1>3. thread = [t \in Threads |-> x]
    BY <1>1 DEF Init
  <1> QED
    BY <1>2, <1>3 DEF DominantInvariant, Dominated, IsAnswered

LEMMA DominantStep == TypeInvariant /\ DominantInvariant /\ Next => DominantInvariant'
  <1> SUFFICES ASSUME TypeInvariant, DominantInvariant, Next PROVE DominantInvariant'
    OBVIOUS
  <1>1. PICK next : next = thread'
    OBVIOUS
  <1>2. PICK t \in Threads : ReceiveStep(t) \/ SeedStep(t) \/ DrawStep(t)
    BY StepIs
  <1>3. \A u \in Threads : Good(thread[u]) /\ Dominated(thread[u])
    BY DEF TypeInvariant, DominantInvariant
  <1>4. Value(drawn) \in -8 .. 8
    BY ValueTyped DEF TypeInvariant
  <1>5. SUFFICES \A u \in Threads : Dominated(next[u])
    BY <1>1 DEF DominantInvariant, Dominated, IsAnswered
  <1>6. CASE ReceiveStep(t)
    <2>1. Received(next[t]) /\ \A u \in Threads \ {t} : next[u] = thread[u]
      BY <1>1, <1>6 DEF ReceiveStep
    <2> QED
      BY <1>3, <2>1, DominatedReceived
  <1>7. CASE SeedStep(t)
    <2>1. /\ thread[t].pc = "seed" /\ next[t] = [thread[t] EXCEPT !.pc = "draw"]
          /\ \A u \in Threads \ {t} : next[u] = Interrupted(thread[u])
      BY <1>1, <1>7 DEF SeedStep
    <2> QED
      BY <1>3, <2>1, DominatedSeeded, DominatedInterrupted
  <1>8. CASE DrawStep(t)
    <2>1. /\ thread[t].pc = "draw" /\ next[t] = Drew(thread[t], Value(drawn))
          /\ \A u \in Threads \ {t} : next[u] = Interrupted(thread[u])
      BY <1>1, <1>8 DEF DrawStep
    <2> QED
      BY <1>3, <1>4, <2>1, DominatedDrew, DominatedInterrupted
  <1> QED
    BY <1>2, <1>6, <1>7, <1>8

\* Generation.DominantIsStable: a winner that is at least as good in every metric
\* and clearly better in one is called stable, whatever weights its request has,
\* whatever the generator yields and however the threads take turns.
THEOREM DominantWinnersAreStable == Spec => []DominantIsStable
  <1>1. DominantInvariant /\ UNCHANGED vars => DominantInvariant'
    BY DEF vars, DominantInvariant, Dominated, IsAnswered
  <1>2. DominantInvariant => DominantIsStable
    BY DEF DominantInvariant, Dominated, IsAnswered, DominantIsStable, Succeeded, Answered
  <1> QED
    BY <1>1, <1>2, DominantInit, DominantStep, TypeHolds, PTL DEF Spec

----------------------------------------------------------------------------
(* A request that nobody interrupts *)

LEMMA AloneReceived == ASSUME NEW x, Received(x), NEW count PROVE Alone(x, count)
  <1>1. PICK req \in Requests :
          IF Convertible(req) THEN x.pc = "seed" ELSE x.pc = "idle" /\ x.answer = Error
    BY ReceivedHas
  <1>2. x.pc # "draw" /\ (x.pc = "idle" => x.answer.outcome = "error")
    BY <1>1, AnswerHas
  <1> QED
    BY <1>2 DEF Alone, IsAnswered

LEMMA AloneInterrupted ==
    ASSUME NEW s, Good(s), NEW old, Alone(s, old), NEW count PROVE Alone(Interrupted(s), count)
  <1>1. PICK x : x = Interrupted(s)
    OBVIOUS
  <1>2. /\ x.pc = s.pc /\ x.req = s.req /\ x.answer = s.answer
        /\ IF s.pc = "draw" THEN x.shared = TRUE ELSE x.shared = s.shared
    BY <1>1, InterruptedHas
  <1>3. CASE s.pc = "draw"
    BY <1>1, <1>2, <1>3 DEF Alone, IsAnswered
  <1>4. CASE s.pc # "draw"
    BY <1>1, <1>2, <1>4 DEF Alone, IsAnswered
  <1> QED
    BY <1>3, <1>4

LEMMA AloneSeeded ==
    ASSUME NEW s, Good(s), s.noise = <<>>, s.tops = <<>>
    PROVE  Alone([s EXCEPT !.pc = "draw"], 0)
  <1>1. PICK x : x = [s EXCEPT !.pc = "draw"]
    OBVIOUS
  <1>2. x.pc = "draw" /\ x.noise = <<>> /\ x.tops = <<>>
    BY <1>1, SeededHas
  <1>3. Len(x.noise) = 0 /\ Len(x.tops) = 0 /\ 0 = 4 * 0 + 0 /\ 1 .. 0 = {}
    BY <1>2
  <1> QED
    BY <1>1, <1>2, <1>3 DEF Alone, IsAnswered

\* The level is a function of the tops.
LEMMA LevelFromTops ==
    ASSUME NEW req \in Requests, NEW tops \in Seq(EveryId), Len(tops) = Samples,
           \A k \in 1 .. Samples : tops[k] = AloneTop(req, k)
    PROVE  Level(tops, RankingOf[req][1].id) = LevelAlone(req)
  <1>1. tops = [k \in 1 .. Samples |-> tops[k]]
    BY LenProperties
  <1>2. tops = [k \in 1 .. Samples |-> AloneTop(req, k)]
    BY <1>1
  <1> QED
    BY <1>2 DEF LevelAlone, AloneTop

LEMMA AloneDrew ==
    ASSUME NEW s, Good(s), s.pc = "draw", NEW count \in Nat, Alone(s, count)
    PROVE  Alone(Drew(s, Value(count)), count + 1)
  <1>1. PICK value \in -8 .. 8 : value = Value(count)
    BY ValueTyped
  <1>2. PICK x, noise, tops :
          x = Drew(s, value) /\ noise = Append(s.noise, value) /\ tops = TopsWith(s, noise)
    OBVIOUS
  <1>3. Becomes(s, x, noise, tops)
    BY <1>2, DrewHas
  <1>4. /\ s.req \in Requests /\ Convertible(s.req)
        /\ s.noise \in Seq(-8 .. 8) /\ s.tops \in Seq(EveryId)
    BY DEF Good
  <1>5. x.req = s.req /\ x.shared = s.shared /\ noise \in Seq(-8 .. 8)
    BY <1>3 DEF Becomes
  <1>6. SUFFICES ASSUME ~s.shared PROVE Alone(x, count + 1)
    BY <1>1, <1>2, <1>5 DEF Alone
  <1>7. PICK n, l \in Nat : n = Len(s.noise) /\ l = Len(s.tops)
    BY <1>4, LenProperties
  <1>8. /\ count = 4 * l + n
        /\ \A i \in 1 .. n : s.noise[i] = Value(4 * l + i - 1)
        /\ \A k \in 1 .. l : s.tops[k] = AloneTop(s.req, k)
    BY <1>6, <1>7 DEF Alone
  <1>9. Len(noise) = n + 1 /\ \A i \in 1 .. n + 1 : noise[i] = Value(4 * l + i - 1)
    <2>1. PICK V, old : V = -8 .. 8 /\ old = s.noise /\ old \in Seq(V) /\ value \in V
      BY <1>4
    <2>2. /\ Len(Append(old, value)) = Len(old) + 1
          /\ \A i \in 1 .. Len(old) : Append(old, value)[i] = old[i]
          /\ Append(old, value)[Len(old) + 1] = value
      BY <2>1, AppendProperties
    <2>3. /\ Len(noise) = n + 1 /\ \A i \in 1 .. n : noise[i] = s.noise[i]
          /\ noise[n + 1] = value
      BY <1>2, <1>7, <2>1, <2>2
    <2>4. 4 * l + (n + 1) - 1 = count
      BY <1>8
    <2>5. noise[n + 1] = Value(4 * l + (n + 1) - 1)
      BY <1>1, <2>3, <2>4
    <2>6. ASSUME NEW i \in 1 .. n + 1 PROVE i \in 1 .. n \/ i = n + 1
      OBVIOUS
    <2>7. \A i \in 1 .. n : noise[i] = Value(4 * l + i - 1)
      BY <1>8, <2>3
    <2> QED
      BY <2>3, <2>5, <2>6, <2>7
  <1>10. ASSUME RankingOf[s.req] # <<>>, Len(noise) = 4
         PROVE  /\ tops \in Seq(EveryId) /\ Len(tops) = l + 1
                /\ \A k \in 1 .. l + 1 : tops[k] = AloneTop(s.req, k)
    <2>1. /\ tops \in Seq(EveryId) /\ Len(tops) = l + 1
          /\ \A k \in 1 .. l : tops[k] = s.tops[k]
          /\ tops[l + 1] = TopUnder(RankingOf[s.req], s.req.priorities, noise)
      BY <1>2, <1>5, <1>7, <1>10, TopsAre
    <2>2. n = 3
      <3>1. n \in Nat /\ n + 1 = 4
        BY <1>9, <1>10
      <3> QED
        BY ONLY <3>1
    <2>3. ASSUME NEW i \in 1 .. 4 PROVE noise[i] = Value(4 * (l + 1) + i - 5)
      <3>1. 4 * (l + 1) + i - 5 = 4 * l + i - 1
        OBVIOUS
      <3> QED
        BY <1>9, <2>2, <3>1
    <2>4. noise = [i \in 1 .. 4 |-> noise[i]]
      BY <1>5, <1>10, LenProperties
    <2>5. noise = [i \in 1 .. 4 |-> Value(4 * (l + 1) + i - 5)]
      BY <2>3, <2>4
    <2>6. tops[l + 1] = AloneTop(s.req, l + 1)
      BY <2>1, <2>5 DEF AloneTop
    <2>7. ASSUME NEW k \in 1 .. l + 1 PROVE k \in 1 .. l \/ k = l + 1
      OBVIOUS
    <2>8. \A k \in 1 .. l : tops[k] = AloneTop(s.req, k)
      BY <1>8, <2>1
    <2> QED
      BY <2>1, <2>6, <2>7, <2>8
  <1>11. CASE Len(noise) < 4 /\ x.pc = "draw" /\ x.noise = noise /\ x.tops = s.tops
    <2>1. count + 1 = 4 * Len(x.tops) + Len(x.noise)
      <3>1. PICK m, k : m = Len(x.tops) /\ k = Len(x.noise)
        OBVIOUS
      <3>2. n \in Nat /\ l \in Nat /\ m = l /\ k = n + 1 /\ count = 4 * l + n
        BY <1>7, <1>8, <1>9, <1>11, <3>1
      <3>3. count + 1 = 4 * m + k
        BY ONLY <3>2
      <3> QED
        BY <3>1, <3>3
    <2> QED
      BY <1>5, <1>7, <1>8, <1>9, <1>11, <2>1 DEF Alone, IsAnswered
  <1>12. CASE x.pc = "idle" /\ x.answer = Error
    BY <1>12, AnswerHas DEF Alone, IsAnswered
  <1>13. CASE /\ Len(noise) = 4 /\ RankingOf[s.req] # <<>> /\ Enough(tops)
              /\ x.pc = "idle" /\ x.answer = Answer(s.req, RankingOf[s.req], tops)
    <2>1. Len(tops) = Samples
      BY <1>13 DEF Enough
    <2>2. Level(tops, RankingOf[s.req][1].id) = LevelAlone(s.req)
      BY <1>4, <1>10, <1>13, <2>1, LevelFromTops
    <2>3. x.answer.level = LevelAlone(x.req)
      BY <1>5, <1>13, <2>2, AnswerHas
    <2> QED
      BY <1>13, <2>3 DEF Alone
  <1>14. CASE /\ Len(noise) = 4 /\ RankingOf[s.req] # <<>>
              /\ x.pc = "draw" /\ x.noise = <<>> /\ x.tops = tops
    <2>1. Len(x.noise) = 0 /\ 1 .. 0 = {}
      BY <1>14
    <2>2. count + 1 = 4 * (l + 1) + 0
      <3>1. n \in Nat /\ l \in Nat /\ n + 1 = 4 /\ count = 4 * l + n
        BY <1>8, <1>9, <1>14
      <3> QED
        BY ONLY <3>1
    <2> QED
      BY <1>5, <1>10, <1>14, <2>1, <2>2 DEF Alone, IsAnswered
  <1> QED
    BY <1>3, <1>11, <1>12, <1>13, <1>14 DEF Becomes

\* FreshInvariant, for one thread.
Fresh(s) == s.pc = "seed" => s.noise = <<>> /\ s.tops = <<>>

LEMMA FreshOnes ==
    /\ \A x : Received(x) => Fresh(x)
    /\ \A s : Good(s) /\ Fresh(s) => Fresh(Interrupted(s))
    /\ \A s : Good(s) => Fresh([s EXCEPT !.pc = "draw"])
    /\ \A s : \A value \in -8 .. 8 : Good(s) /\ s.pc = "draw" => Fresh(Drew(s, value))
  <1>1. ASSUME NEW x, Received(x) PROVE Fresh(x)
    BY <1>1, ReceivedHas DEF Fresh
  <1>2. ASSUME NEW s, Good(s), Fresh(s) PROVE Fresh(Interrupted(s))
    BY <1>2, InterruptedHas DEF Fresh
  <1>3. ASSUME NEW s, Good(s) PROVE Fresh([s EXCEPT !.pc = "draw"])
    <2>1. PICK x : x = [s EXCEPT !.pc = "draw"]
      OBVIOUS
    <2>2. x.pc = "draw"
      BY <1>3, <2>1, SeededHas
    <2> QED
      BY <2>1, <2>2 DEF Fresh
  <1>4. ASSUME NEW s, NEW value \in -8 .. 8, Good(s), s.pc = "draw" PROVE Fresh(Drew(s, value))
    <2>1. PICK x, noise, tops :
            x = Drew(s, value) /\ noise = Append(s.noise, value) /\ tops = TopsWith(s, noise)
      OBVIOUS
    <2>2. Becomes(s, x, noise, tops)
      BY <1>4, <2>1, DrewHas
    <2>3. x.pc # "seed"
      BY <2>2 DEF Becomes
    <2> QED
      BY <2>1, <2>3 DEF Fresh
  <1> QED
    BY <1>1, <1>2, <1>3, <1>4

LEMMA AloneInit == Init => AloneInvariant
  <1> SUFFICES ASSUME Init PROVE AloneInvariant
    OBVIOUS
  <1>1. PICK x : x = Idle
    OBVIOUS
  <1>2. x.req = None /\ x.pc = "idle"
    BY <1>1, IdleHas
  <1>3. thread = [t \in Threads |-> x]
    BY <1>1 DEF Init
  <1> QED
    BY <1>2, <1>3 DEF AloneInvariant, FreshInvariant, Alone, IsAnswered

LEMMA AloneStep == TypeInvariant /\ AloneInvariant /\ Next => AloneInvariant'
  <1> SUFFICES ASSUME TypeInvariant, AloneInvariant, Next PROVE AloneInvariant'
    OBVIOUS
  <1>1. PICK next, count : next = thread' /\ count = drawn'
    OBVIOUS
  <1>2. PICK t \in Threads : ReceiveStep(t) \/ SeedStep(t) \/ DrawStep(t)
    BY StepIs
  <1>3. \A u \in Threads : Good(thread[u]) /\ Alone(thread[u], drawn) /\ Fresh(thread[u])
    BY DEF TypeInvariant, AloneInvariant, FreshInvariant, Fresh
  <1>4. drawn \in Nat /\ Value(drawn) \in -8 .. 8
    BY ValueTyped DEF TypeInvariant
  <1>5. SUFFICES \A u \in Threads : Alone(next[u], count) /\ Fresh(next[u])
    <2>1. \A u \in Threads : Alone(next[u], count) /\ Fresh(next[u])
      OBVIOUS
    <2>2. AloneInvariant' = (FreshInvariant' /\ \A u \in Threads : Alone(thread[u], drawn)')
      BY DEF AloneInvariant
    <2>3. FreshInvariant'
      BY <1>1, <2>1 DEF FreshInvariant, Fresh
    <2>4. ASSUME NEW u \in Threads PROVE Alone(thread[u], drawn)'
      BY <1>1, <2>1 DEF Alone, IsAnswered
    <2> QED
      BY <2>2, <2>3, <2>4
  <1>6. CASE ReceiveStep(t)
    <2>1. /\ count = drawn /\ Received(next[t])
          /\ \A u \in Threads \ {t} : next[u] = thread[u]
      BY <1>1, <1>6 DEF ReceiveStep
    <2> QED
      BY <1>3, <2>1, AloneReceived, FreshOnes
  <1>7. CASE SeedStep(t)
    <2>1. /\ count = 0 /\ thread[t].pc = "seed" /\ next[t] = [thread[t] EXCEPT !.pc = "draw"]
          /\ \A u \in Threads \ {t} : next[u] = Interrupted(thread[u])
      BY <1>1, <1>7 DEF SeedStep
    <2>2. thread[t].noise = <<>> /\ thread[t].tops = <<>>
      BY <1>3, <2>1 DEF Fresh
    <2>3. Alone(next[t], count) /\ Fresh(next[t])
      BY <1>3, <2>1, <2>2, AloneSeeded, FreshOnes
    <2>4. ASSUME NEW u \in Threads \ {t} PROVE Alone(next[u], count) /\ Fresh(next[u])
      BY <1>3, <2>1, AloneInterrupted, FreshOnes
    <2> QED
      BY <2>3, <2>4
  <1>8. CASE DrawStep(t)
    <2>1. /\ count = drawn + 1 /\ thread[t].pc = "draw" /\ next[t] = Drew(thread[t], Value(drawn))
          /\ \A u \in Threads \ {t} : next[u] = Interrupted(thread[u])
      BY <1>1, <1>8 DEF DrawStep
    <2>2. Alone(next[t], count) /\ Fresh(next[t])
      BY <1>3, <1>4, <2>1, AloneDrew, FreshOnes
    <2>3. ASSUME NEW u \in Threads \ {t} PROVE Alone(next[u], count) /\ Fresh(next[u])
      BY <1>3, <2>1, AloneInterrupted, FreshOnes
    <2> QED
      BY <2>2, <2>3
  <1> QED
    BY <1>2, <1>6, <1>7, <1>8

\* Generation.AloneReproducible: the robustness that a request gets is a function
\* of the request whenever no other thread used the generator between its seed and
\* its last draw, whatever was drawn before.
THEOREM AloneRequestsAreReproducible == Spec => []AloneReproducible
  <1>1. AloneInvariant /\ UNCHANGED vars => AloneInvariant'
    BY DEF vars, AloneInvariant, FreshInvariant, Alone, IsAnswered, AloneTop, LevelAlone
  <1>2. AloneInvariant => AloneReproducible
    BY DEF AloneInvariant, Alone, IsAnswered, AloneReproducible, Succeeded, Answered
  <1> QED
    BY <1>1, <1>2, AloneInit, AloneStep, TypeHolds, PTL DEF Spec

----------------------------------------------------------------------------
(* The selection *)

\* The selection of a request that is answered at once takes the topologies that
\* its client wants.
LEMMA SelectedAreWanted ==
    ASSUME NEW req \in Requests, ~req.async, NEW topology \in Topologies
    PROVE  topology \in Selected(Arguments(req), Normalize(req)) <=> Wanted(req, topology)
  <1>1. Arguments(req) = req
    BY DEF Arguments
  <1>2. PICK n : n = Normalize(req)
    OBVIOUS
  <1>3. topology \in Selected(req, n) <=>
          /\ req.allowed = {} \/ topology \in req.allowed
          /\ topology \notin req.excluded /\ n.travel <= TravelLimit(topology)
    BY DEF Selected, Named
  <1> QED
    BY <1>1, <1>2, <1>3 DEF Wanted

\* What is ranked is what is wanted of all that could be.
LEMMA WantedScores ==
    ASSUME NEW req \in Requests, NEW selected \in SUBSET Topologies,
           \A topology \in Topologies : topology \in selected <=> Wanted(req, topology)
    PROVE  ScoredOf(selected, req) = {c \in ScoredOf(Topologies, req) : Wanted(req, c.topology)}
  <1>1. /\ ScoredOf(selected, req) = {ScoreOf(id, req) : id \in IdsOf(selected, req)}
        /\ ScoredOf(Topologies, req) = {ScoreOf(id, req) : id \in IdsOf(Topologies, req)}
    BY ScoredIs
  <1>2. ASSUME NEW topology \in Topologies, NEW id \in Ids(topology)
        PROVE  ScoreOf(id, req).topology = topology
    BY ScoreTyped
  <1>3. ASSUME NEW id
        PROVE  id \in IdsOf(selected, req)
                 <=> id \in IdsOf(Topologies, req) /\ Wanted(req, ScoreOf(id, req).topology)
    <2>1. ASSUME id \in IdsOf(selected, req)
          PROVE  id \in IdsOf(Topologies, req) /\ Wanted(req, ScoreOf(id, req).topology)
      <3>1. PICK topology \in selected : id \in Ids(topology) /\ Feasible(id, Normalize(req), req.power)
        BY <2>1 DEF IdsOf
      <3> QED
        BY <1>2, <3>1 DEF IdsOf
    <2>2. ASSUME id \in IdsOf(Topologies, req), Wanted(req, ScoreOf(id, req).topology)
          PROVE  id \in IdsOf(selected, req)
      <3>1. PICK topology \in Topologies :
              id \in Ids(topology) /\ Feasible(id, Normalize(req), req.power)
        BY <2>2 DEF IdsOf
      <3>2. topology \in selected
        BY <1>2, <2>2, <3>1
      <3> QED
        BY <3>1, <3>2 DEF IdsOf
    <2> QED
      BY <2>1, <2>2
  <1> QED
    BY <1>1, <1>3

\* The ranking of a request among the rankings of all topologies.
Agree(req, mine, all) ==
    /\ {mine[i] : i \in DOMAIN mine} = {c \in {all[a] : a \in DOMAIN all} : Wanted(req, c.topology)}
    /\ \A i, j \in DOMAIN mine, a, b \in DOMAIN all :
           mine[i] = all[a] /\ mine[j] = all[b] => (i < j <=> a < b)

LEMMA RankingsAgree ==
    ASSUME NEW req \in Requests, Convertible(req), ~req.async
    PROVE  Agree(req, RankingOf[req], FullRankingOf[req])
  <1> SUFFICES ASSUME NEW mine, mine = RankingOf[req], NEW all, all = FullRankingOf[req]
               PROVE  Agree(req, mine, all)
    OBVIOUS
  <1>1. PICK selected \in SUBSET Topologies :
          selected = Selected(Arguments(req), Normalize(req)) /\ mine = RankingUnder(selected, req)
    BY RankingOfIs
  <1>2. all = RankingUnder(Topologies, req)
    BY DEF FullRankingOf, RankingOf
  <1>3. ASSUME NEW chosen \in SUBSET Topologies, NEW ranking, ranking = RankingUnder(chosen, req)
        PROVE  /\ {ranking[i] : i \in DOMAIN ranking} = ScoredOf(chosen, req)
               /\ \A i, j \in DOMAIN ranking : i < j <=> Before(ranking[i], ranking[j])
    <2>1. PICK S : S = ScoredOf(chosen, req)
      OBVIOUS
    <2>2. /\ ranking \in Seq(S) /\ DOMAIN ranking = Positions(ranking)
          /\ \A c \in S : \E i \in DOMAIN ranking : ranking[i] = c
          /\ \A i, j \in DOMAIN ranking : i < j <=> Before(ranking[i], ranking[j])
      BY <1>3, <2>1, RankingIs
    <2>3. \A i \in DOMAIN ranking : ranking[i] \in S
      BY <2>2, ElementOfSeq DEF Positions
    <2>4. {ranking[i] : i \in DOMAIN ranking} = S
      BY <2>2, <2>3
    <2> QED
      BY <2>1, <2>2, <2>4
  <1>4. /\ {mine[i] : i \in DOMAIN mine} = ScoredOf(selected, req)
        /\ \A i, j \in DOMAIN mine : i < j <=> Before(mine[i], mine[j])
    BY <1>1, <1>3
  <1>5. /\ {all[a] : a \in DOMAIN all} = ScoredOf(Topologies, req)
        /\ \A a, b \in DOMAIN all : a < b <=> Before(all[a], all[b])
    BY <1>2, <1>3
  <1>6. ScoredOf(selected, req) = {c \in ScoredOf(Topologies, req) : Wanted(req, c.topology)}
    BY <1>1, SelectedAreWanted, WantedScores
  <1>7. {mine[i] : i \in DOMAIN mine} = {c \in {all[a] : a \in DOMAIN all} : Wanted(req, c.topology)}
    BY <1>4, <1>5, <1>6
  <1>8. ASSUME NEW i \in DOMAIN mine, NEW j \in DOMAIN mine, NEW a \in DOMAIN all, NEW b \in DOMAIN all,
               mine[i] = all[a], mine[j] = all[b]
        PROVE  i < j <=> a < b
    BY <1>4, <1>5, <1>8
  <1> QED
    BY <1>7, <1>8 DEF Agree

\* Generation.SelectionHonoured: what is ranked for a request that is answered at
\* once is what its client wants of all that could be built, in the same order and
\* with the same scores; a request or a job fails exactly when its units are unknown
\* or nothing is left.
THEOREM SelectionsAreHonoured == Spec => []SelectionHonoured
  <1>1. ASSUME OutcomeInvariant PROVE SelectionHonoured
    <2> SUFFICES ASSUME NEW t \in Answered
                 PROVE  LET req == thread[t].req
                            all == FullRankingOf[req]
                            mine == RankingOf[req] IN
                        /\ Convertible(req) /\ ~req.async =>
                              /\ {mine[i] : i \in DOMAIN mine} =
                                     {c \in {all[a] : a \in DOMAIN all} : Wanted(req, c.topology)}
                              /\ \A i, j \in DOMAIN mine, a, b \in DOMAIN all :
                                     mine[i] = all[a] /\ mine[j] = all[b] => (i < j <=> a < b)
                        /\ thread[t].answer.outcome = "error" <=> ~Convertible(req) \/ mine = <<>>
      BY DEF SelectionHonoured
    <2>1. PICK req, mine, all :
            req = thread[t].req /\ mine = RankingOf[req] /\ all = FullRankingOf[req]
      OBVIOUS
    <2>2. /\ req \in Requests
          /\ IF Convertible(req) /\ mine # <<>>
             THEN thread[t].answer.outcome = "ok" ELSE thread[t].answer.outcome = "error"
      BY <1>1, <2>1 DEF Answered, OutcomeInvariant, Outcome, IsAnswered
    <2>3. thread[t].answer.outcome = "error" <=> ~Convertible(req) \/ mine = <<>>
      BY <2>2
    <2>4. Convertible(req) /\ ~req.async =>
            /\ {mine[i] : i \in DOMAIN mine} =
                   {c \in {all[a] : a \in DOMAIN all} : Wanted(req, c.topology)}
            /\ \A i, j \in DOMAIN mine, a, b \in DOMAIN all :
                   mine[i] = all[a] /\ mine[j] = all[b] => (i < j <=> a < b)
      <3>1. Convertible(req) /\ ~req.async => Agree(req, mine, all)
        BY <2>1, <2>2, RankingsAgree
      <3> QED
        BY <3>1 DEF Agree
    <2> QED
      BY <2>1, <2>3, <2>4
  <1> QED
    BY <1>1, OutcomeHolds, PTL

=============================================================================
