---------------------------- MODULE ScheduleProofs ---------------------------
(***************************************************************************)
(* No turn of a witness is in the past and no position overflows, for any  *)
(* number of witnesses, any votes and pledges and any length of the        *)
(* virtual time.                                                           *)
(*                                                                         *)
(* ScheduleSound bounds how far a witness has come by now.  It is not      *)
(* inductive: a round takes the time to the latest turn it has used, and   *)
(* those that had no turn run on until then.  The invariant SchedOK bounds *)
(* how far a witness will have come when its turn is due, which a round    *)
(* leaves alone, and has the types of what is stored.                      *)
(***************************************************************************)
EXTENDS WitnessSchedule, FiniteSetTheorems, WellFoundedInduction, NaturalsInduction, TLAPS

Times == 0..MaxTime

Candidate ==
    [valid : BOOLEAN, key : BOOLEAN, votes : Nat, pledge : Nat, average : Nat, mined : Nat,
     lane : [Lanes -> [pos : Times, at : Times, due : Times]]]

(* A witness's turn at time t: it is not in the past, and the lap is not   *)
(* over before it.                                                         *)
LaneOK(x, l, t) ==
    /\ x.lane[l].at <= t
    /\ t <= x.lane[l].due
    /\ x.lane[l].pos + (x.lane[l].due - x.lane[l].at) * Speed(x, l) <= MaxTime

WitnessOK(x, time) == x.valid => \A l \in Lanes : LaneOK(x, l, time[l])

SchedOK(s) ==
    /\ s \in [wit : [Candidates -> Candidate], time : [Lanes -> Times],
              active : SUBSET Candidates]
    /\ \A w \in Candidates : WitnessOK(s.wit[w], s.time)
    /\ s.active \subseteq ValidWitnesses(s)
-----------------------------------------------------------------------------
(* Arithmetic of laps. *)

LEMMA Division ==
    ASSUME NEW a \in Nat, NEW m \in Nat, m > 0
    PROVE  /\ a \div m \in Nat /\ a % m \in Nat /\ a % m < m
           /\ a = m * (a \div m) + (a % m)
  <1>1. m \in Int /\ m > 0 /\ a \in Int /\ a >= 0
    OBVIOUS
  <1>2. a = m * (a \div m) + (a % m) /\ a % m \in Nat /\ a % m < m /\ a \div m \in Int
    BY <1>1
  <1>3. a \div m \in Nat
    BY <1>1
  <1> QED BY <1>2, <1>3

LEMMA LapPart ==
    ASSUME NEW a \in Nat, NEW w \in Nat, NEW s \in Nat, s <= w
    PROVE  /\ a \div (w + 1) \in Nat
           /\ a \div (w + 1) <= a
           /\ (a \div (w + 1)) * s <= a
  <1> DEFINE d == a \div (w + 1)
  <1>1. w + 1 \in Nat /\ w + 1 > 0
    OBVIOUS
  <1>2. d \in Nat /\ a % (w + 1) \in Nat /\ a = (w + 1) * d + (a % (w + 1))
    BY <1>1, Division
  <1> HIDE DEF d
  <1>3. PICK k \in Nat : w = s + k
    <2>1. w - s \in Nat /\ w = s + (w - s)
      OBVIOUS
    <2> QED BY <2>1
  <1>4. d * s \in Nat /\ d * k \in Nat
    BY <1>2, <1>3
  <1>5. (w + 1) * d = d * s + d * k + d
    <2>1. (s + k + 1) * d = d * s + d * k + d
      BY <1>2, <1>3
    <2> QED BY <1>3, <2>1
  <1>6. d <= a /\ d * s <= a
    BY <1>2, <1>4, <1>5
  <1> QED BY <1>2, <1>6 DEF d

(* A sum of two times wraps around at most once, and then it is less than  *)
(* both.                                                                   *)
LEMMA Wrap ==
    ASSUME NEW a \in Times, NEW d \in Times
    PROVE  LET r == (a + d) % (MaxTime + 1)
           IN /\ r \in Times
              /\ a + d <= MaxTime => r = a + d
              /\ a + d > MaxTime => r < a
  <1> DEFINE r == (a + d) % (MaxTime + 1)
             M == MaxTime + 1
  <1>1. M \in Nat /\ M > 0 /\ a \in Nat /\ d \in Nat /\ a < M /\ d < M /\ MaxTime \in Nat
    BY ScheduleAssumption DEF Times
  <1>2. /\ (a + d) \div M \in Int /\ r \in 0..(M - 1)
        /\ a + d = M * ((a + d) \div M) + r
    BY <1>1
  <1>3. ASSUME NEW q \in Int, NEW z \in 0..(M - 1), a + d = M * q + z
        PROVE  (q = 0 /\ z = a + d) \/ (q = 1 /\ z = a + d - M)
    <2>1. CASE q <= -1
      <3>1. PICK k \in Nat : q = -1 - k
        <4>1. -1 - q \in Nat /\ q = -1 - (-1 - q)
          BY <2>1
        <4> QED BY <4>1
      <3>2. M * q = -M - M * k /\ M * k \in Nat
        BY <1>1, <3>1
      <3> QED BY <1>1, <1>3, <3>2
    <2>2. CASE q = 0
      BY <1>1, <1>3, <2>2
    <2>3. CASE q = 1
      BY <1>1, <1>3, <2>3
    <2>4. CASE q >= 2
      <3>1. PICK k \in Nat : q = 2 + k
        <4>1. q - 2 \in Nat /\ q = 2 + (q - 2)
          BY <2>4
        <4> QED BY <4>1
      <3>2. M * q = 2 * M + M * k /\ M * k \in Nat
        BY <1>1, <3>1
      <3> QED BY <1>1, <1>3, <3>2
    <2> QED BY <2>1, <2>2, <2>3, <2>4
  <1>4. r = a + d \/ r = a + d - M
    BY <1>2, <1>3
  <1> HIDE DEF r
  <1>5. /\ r \in Times
        /\ a + d <= MaxTime => r = a + d
        /\ a + d > MaxTime => r < a
    BY <1>1, <1>2, <1>4 DEF Times
  <1> QED BY <1>5 DEF r

-----------------------------------------------------------------------------
(* One witness. *)

LEMMA SpeedType ==
    ASSUME NEW x \in Candidate, NEW l \in Lanes
    PROVE  Speed(x, l) \in Nat /\ Weight(x, l) \in Nat /\ Speed(x, l) <= Weight(x, l)
  BY DEF Candidate, Lanes, Speed, Weight

LEMMA LaneType ==
    ASSUME NEW x \in Candidate, NEW l \in Lanes
    PROVE  /\ x.lane[l] = [pos |-> x.lane[l].pos, at |-> x.lane[l].at, due |-> x.lane[l].due]
           /\ x.lane[l].pos \in Times /\ x.lane[l].at \in Times /\ x.lane[l].due \in Times
           /\ x.lane[l].pos \in Nat /\ x.lane[l].at \in Nat /\ x.lane[l].due \in Nat
           /\ x.lane[l].pos <= MaxTime /\ x.lane[l].at <= MaxTime /\ x.lane[l].due <= MaxTime
           /\ MaxTime \in Nat
  BY ScheduleAssumption DEF Candidate, Times

(* Whether a lane is in order depends on nothing but the lane and the speed. *)
LEMMA LaneSame ==
    ASSUME NEW x, NEW y, NEW l, NEW t, LaneOK(x, l, t), y.lane[l] = x.lane[l],
           Speed(y, l) = Speed(x, l)
    PROVE  LaneOK(y, l, t)
  BY DEF LaneOK

(* What of a witness is stored apart from the lane l. *)
SameBut(x, y, l) ==
    /\ y.valid = x.valid /\ y.key = x.key /\ y.votes = x.votes /\ y.pledge = x.pledge
    /\ y.average = x.average /\ y.mined = x.mined
    /\ \A k \in Lanes \ {l} : y.lane[k] = x.lane[k]

InLane(x, l, pos, at, due) ==
    [x EXCEPT !.lane = [x.lane EXCEPT ![l] = [pos |-> pos, at |-> at, due |-> due]]]

LEMMA WithLane ==
    ASSUME NEW x \in Candidate, NEW l \in Lanes, NEW pos \in Times, NEW at \in Times,
           NEW due \in Times
    PROVE  /\ InLane(x, l, pos, at, due) \in Candidate
           /\ SameBut(x, InLane(x, l, pos, at, due), l)
           /\ Speed(InLane(x, l, pos, at, due), l) = Speed(x, l)
           /\ InLane(x, l, pos, at, due).lane[l] = [pos |-> pos, at |-> at, due |-> due]
  <1> DEFINE k == [pos |-> pos, at |-> at, due |-> due]
             y == InLane(x, l, pos, at, due)
  <1>1. k \in [pos : Times, at : Times, due : Times]
    OBVIOUS
  <1>2. y = [x EXCEPT !.lane = [x.lane EXCEPT ![l] = k]]
    BY DEF InLane
  <1> HIDE DEF k, y
  <1>3. y \in Candidate
    BY <1>1, <1>2 DEF Candidate
  <1>4. SameBut(x, y, l) /\ y.lane[l] = k
    BY <1>2 DEF Candidate, SameBut
  <1>5. Speed(y, l) = Speed(x, l)
    BY <1>4 DEF SameBut, Speed
  <1> QED BY <1>3, <1>4, <1>5 DEF k, y

(* Running up to the present time; the position does not wrap around. *)
LEMMA RunOK ==
    ASSUME NEW x \in Candidate, NEW l \in Lanes, NEW t \in Times, LaneOK(x, l, t)
    PROVE  /\ Run(x, l, t) \in Candidate /\ SameBut(x, Run(x, l, t), l)
           /\ LaneOK(Run(x, l, t), l, t)
           /\ Run(x, l, t).lane[l].at = t
  <1> DEFINE y == Run(x, l, t)
             at == x.lane[l].at
             pos == x.lane[l].pos
             due == x.lane[l].due
             s == Speed(x, l)
  <1>a. at \in Nat /\ pos \in Nat /\ due \in Nat /\ due \in Times /\ MaxTime \in Nat
    BY Zenon, LaneType
  <1>b. s \in Nat
    BY SpeedType
  <1>c. t \in Nat
    BY ScheduleAssumption DEF Times
  <1>d. at <= t /\ t <= due /\ pos + (due - at) * s <= MaxTime
    BY DEF LaneOK
  <1>1. /\ at \in Nat /\ pos \in Nat /\ due \in Nat /\ due \in Times /\ t \in Nat /\ s \in Nat
        /\ at <= t /\ t <= due /\ pos + (due - at) * s <= MaxTime /\ MaxTime \in Nat
    BY <1>a, <1>b, <1>c, <1>d
  <1>2. CASE t <= at
    <2>1. y = x /\ at = t
      BY <1>a, <1>c, <1>d, <1>2 DEF Run
    <2> QED BY <2>1 DEF SameBut
  <1>3. CASE ~(t <= at)
    <2> DEFINE p == pos + (t - at) * s
    <2>1. y = InLane(x, l, p % (MaxTime + 1), t, due)
      BY <1>3 DEF Run, Candidate, InLane
    <2>2. p \in Nat /\ p + (due - t) * s = pos + (due - at) * s /\ (due - t) * s \in Nat
      <3> HIDE DEF at, pos, due, s
      <3>1. PICK a \in Nat : t = at + a
        <4>1. t - at \in Nat /\ t = at + (t - at)
          BY <1>1
        <4> QED BY <4>1
      <3>2. PICK b \in Nat : due = t + b
        <4>1. due - t \in Nat /\ due = t + (due - t)
          BY <1>1
        <4> QED BY <4>1
      <3>3. t - at = a /\ due - t = b /\ due - at = a + b
        BY <1>1, <3>1, <3>2
      <3>4. (a + b) * s = a * s + b * s /\ a * s \in Nat /\ b * s \in Nat
        BY <1>1
      <3> QED BY <1>1, <3>3, <3>4
    <2> HIDE DEF p
    <2>3. p <= MaxTime /\ p \in Times
      <3> HIDE DEF at, pos, due, s
      <3>1. \A c \in Nat : p + c <= MaxTime => p <= MaxTime
        BY <1>1, <2>2
      <3>2. p + (due - t) * s <= MaxTime
        BY <1>1, <2>2
      <3> QED BY <1>1, <2>2, <3>1, <3>2 DEF Times
    <2>4. p % (MaxTime + 1) = p
      <3>1. 0 \in Times /\ p + 0 = p
        BY <1>1, <2>2 DEF Times
      <3> QED BY <2>3, <3>1, Wrap
    <2>5. y = InLane(x, l, p, t, due)
      BY <2>1, <2>4
    <2> HIDE DEF y, at, pos, due, s
    <2>6. /\ y \in Candidate /\ SameBut(x, y, l) /\ Speed(y, l) = Speed(x, l)
          /\ y.lane[l] = [pos |-> p, at |-> t, due |-> due]
      BY <1>a, <2>3, <2>5, WithLane
    <2>7. LaneOK(y, l, t)
      <3>1. Speed(y, l) = s /\ y.lane[l].pos = p /\ y.lane[l].at = t /\ y.lane[l].due = due
        BY <2>6 DEF s
      <3>2. p + (due - t) * s <= MaxTime
        BY <1>d, <2>2
      <3>3. t <= t /\ t <= due
        BY <1>c, <1>d
      <3> QED BY <3>1, <3>2, <3>3 DEF LaneOK
    <2> QED BY <2>6, <2>7 DEF y
  <1> QED BY <1>2, <1>3

LEMMA DueOK ==
    ASSUME NEW pos \in Times, NEW t \in Times, NEW due \in Times, NEW s \in Nat, NEW w \in Nat,
           s <= w, t <= due, due - t <= (MaxTime - pos) \div (w + 1)
    PROVE  pos + (due - t) * s <= MaxTime
  <1>1. /\ MaxTime \in Nat /\ pos \in Nat /\ t \in Nat /\ due \in Nat /\ pos <= MaxTime
        /\ MaxTime - pos \in Nat
    BY ScheduleAssumption DEF Times
  <1> DEFINE d == (MaxTime - pos) \div (w + 1)
             k == due - t
  <1>2. d \in Nat /\ d * s <= MaxTime - pos
    BY <1>1, LapPart
  <1>3. k \in Nat /\ k <= d
    BY <1>1
  <1> HIDE DEF d, k
  <1>4. PICK c \in Nat : d = k + c
    <2>1. d - k \in Nat /\ d = k + (d - k)
      BY <1>2, <1>3
    <2> QED BY <2>1
  <1>5. k * s \in Nat /\ c * s \in Nat /\ (k + c) * s = k * s + c * s
    BY <1>3
  <1>6. d * s = k * s + c * s
    BY <1>4, <1>5
  <1>7. k * s <= MaxTime - pos
    BY <1>1, <1>2, <1>5, <1>6
  <1>8. pos + k * s <= MaxTime
    BY <1>1, <1>5, <1>7
  <1> QED BY <1>8 DEF k

(* The turn of a witness whose lap is at pos at time t, if it does not     *)
(* overflow; and the end of time if it does.                               *)
LEMMA LaneSet ==
    ASSUME NEW x \in Candidate, NEW l \in Lanes, NEW pos \in Times, NEW t \in Times,
           NEW due \in Times, t <= due,
           due - t <= (MaxTime - pos) \div (Weight(x, l) + 1)
    PROVE  /\ InLane(x, l, pos, t, due) \in Candidate
           /\ SameBut(x, InLane(x, l, pos, t, due), l)
           /\ LaneOK(InLane(x, l, pos, t, due), l, t)
  <1> DEFINE y == InLane(x, l, pos, t, due)
  <1>1. /\ y \in Candidate /\ SameBut(x, y, l) /\ Speed(y, l) = Speed(x, l)
        /\ y.lane[l] = [pos |-> pos, at |-> t, due |-> due]
    BY WithLane
  <1> HIDE DEF y
  <1>2. Speed(x, l) \in Nat /\ Weight(x, l) \in Nat /\ Speed(x, l) <= Weight(x, l)
    BY SpeedType
  <1>3. pos + (due - t) * Speed(x, l) <= MaxTime
    BY <1>2, DueOK
  <1>4. t <= t
    BY ScheduleAssumption DEF Times
  <1>5. LaneOK(y, l, t)
    BY <1>1, <1>3, <1>4 DEF LaneOK
  <1> QED BY <1>1, <1>5 DEF y

LEMMA PlanOK ==
    ASSUME NEW x \in Candidate, NEW l \in Lanes, NEW t \in Times, x.lane[l].at = t
    PROVE  /\ Plan(x, l, t) \in Candidate /\ SameBut(x, Plan(x, l, t), l)
           /\ LaneOK(Plan(x, l, t), l, t)
  <1> DEFINE pos == x.lane[l].pos
             w == Weight(x, l)
             d == (MaxTime - pos) \div (w + 1)
             r == (t + d) % (MaxTime + 1)
             due == IF r < t THEN MaxTime ELSE r
  <1>1. pos \in Times /\ MaxTime - pos \in Nat /\ MaxTime \in Nat /\ MaxTime - pos <= MaxTime
    <2>1. pos \in Times /\ pos \in Nat /\ pos <= MaxTime /\ MaxTime \in Nat
      BY Zenon, LaneType
    <2> HIDE DEF pos
    <2> QED BY <2>1
  <1>2. w \in Nat
    BY SpeedType
  <1>3. d \in Nat /\ d <= MaxTime - pos
    <2>1. \A v \in Nat : (MaxTime - pos) \div (v + 1) \in Nat
                         /\ (MaxTime - pos) \div (v + 1) <= MaxTime - pos
      BY <1>1, LapPart
    <2> QED BY <1>2, <2>1
  <1>4. Plan(x, l, t) = InLane(x, l, pos, t, due)
    <2>1. x.lane[l] = [pos |-> pos, at |-> t, due |-> x.lane[l].due]
      BY LaneType
    <2>2. Plan(x, l, t) = [x EXCEPT !.lane[l].due = due]
      BY DEF Plan
    <2> HIDE DEF due, pos
    <2>3. [x.lane[l] EXCEPT !.due = due] = [pos |-> pos, at |-> t, due |-> due]
      BY <2>1
    <2> QED BY <2>2, <2>3 DEF InLane, Candidate
  <1> HIDE DEF pos, w, d
  <1>5. d \in Times
    BY <1>1, <1>3 DEF Times
  <1>6. /\ r \in Times
        /\ t + d <= MaxTime => r = t + d
        /\ t + d > MaxTime => r < t
    BY <1>5, Wrap
  <1>7. t \in Nat /\ t <= MaxTime
    BY <1>1 DEF Times
  <1> HIDE DEF r
  <1>8. due \in Times /\ t <= due /\ due - t <= d
    <2>1. r \in Nat
      BY <1>1, <1>6 DEF Times
    <2>2. CASE t + d <= MaxTime
      BY <1>1, <1>3, <1>6, <1>7, <2>1, <2>2
    <2>3. CASE t + d > MaxTime
      <3>1. due = MaxTime
        BY <1>6, <2>3
      <3> QED BY <1>1, <1>3, <1>7, <2>3, <3>1 DEF Times
    <2> QED BY <1>1, <1>3, <1>7, <2>2, <2>3
  <1> HIDE DEF due
  <1>9. due - t <= (MaxTime - pos) \div (Weight(x, l) + 1)
    BY <1>8 DEF d, w
  <1> QED BY <1>1, <1>4, <1>8, <1>9, LaneSet

-----------------------------------------------------------------------------
(* The schedule when one witness changes. *)

WithWitness(s, w, y) == [s EXCEPT !.wit = [s.wit EXCEPT ![w] = y]]

LEMMA WithWitnessOK ==
    ASSUME NEW s, SchedOK(s), NEW w \in Candidates, NEW y \in Candidate, WitnessOK(y, s.time),
           y.valid \/ w \notin s.active
    PROVE  /\ SchedOK(WithWitness(s, w, y))
           /\ WithWitness(s, w, y).wit[w] = y
           /\ WithWitness(s, w, y).time = s.time
           /\ WithWitness(s, w, y).active = s.active
  <1> DEFINE r == WithWitness(s, w, y)
  <1>1. /\ s \in [wit : [Candidates -> Candidate], time : [Lanes -> Times],
                  active : SUBSET Candidates]
        /\ \A v \in Candidates : WitnessOK(s.wit[v], s.time)
        /\ s.active \subseteq ValidWitnesses(s)
    BY DEF SchedOK
  <1>2. /\ r \in [wit : [Candidates -> Candidate], time : [Lanes -> Times],
                  active : SUBSET Candidates]
        /\ r.wit = [s.wit EXCEPT ![w] = y] /\ r.time = s.time /\ r.active = s.active
    BY <1>1 DEF WithWitness
  <1>3. r.wit[w] = y /\ \A v \in Candidates \ {w} : r.wit[v] = s.wit[v]
    BY <1>1, <1>2
  <1> HIDE DEF r
  <1>4. \A v \in Candidates : WitnessOK(r.wit[v], r.time)
    <2> SUFFICES ASSUME NEW v \in Candidates PROVE WitnessOK(r.wit[v], s.time)
      BY <1>2
    <2> QED BY <1>1, <1>3
  <1>5. r.active \subseteq ValidWitnesses(r)
    BY <1>1, <1>2, <1>3 DEF ValidWitnesses
  <1>6. SchedOK(r)
    BY <1>2, <1>4, <1>5 DEF SchedOK
  <1> QED BY <1>2, <1>3, <1>6 DEF r

LEMMA SchedParts ==
    ASSUME NEW s, SchedOK(s), NEW w \in Candidates
    PROVE  /\ s.wit[w] \in Candidate /\ s.wit \in [Candidates -> Candidate]
           /\ WitnessOK(s.wit[w], s.time)
           /\ \A l \in Lanes : s.time[l] \in Times
           /\ w \in s.active => s.wit[w].valid
           /\ s.wit[w].valid => \A l \in Lanes : LaneOK(s.wit[w], l, s.time[l])
  BY DEF SchedOK, WitnessOK, ValidWitnesses

(* A change of what the lane l runs by, and of that lane.  OtherSpeeds     *)
(* says that the other one keeps its speed.                                *)
OtherSpeeds(x, y, l) == \A k \in Lanes \ {l} : Speed(y, k) = Speed(x, k)

LEMMA OneLane ==
    ASSUME NEW x \in Candidate, NEW y \in Candidate, NEW time, NEW l \in Lanes,
           WitnessOK(x, time), x.valid, LaneOK(y, l, time[l]), OtherSpeeds(x, y, l),
           \A k \in Lanes \ {l} : y.lane[k] = x.lane[k]
    PROVE  WitnessOK(y, time)
  <1> SUFFICES ASSUME NEW k \in Lanes PROVE LaneOK(y, k, time[k])
    BY DEF WitnessOK
  <1>1. CASE k = l
    BY <1>1
  <1>2. CASE k # l
    <2>1. LaneOK(x, k, time[k])
      BY DEF WitnessOK
    <2>2. y.lane[k] = x.lane[k] /\ Speed(y, k) = Speed(x, k)
      BY <1>2 DEF OtherSpeeds
    <2> QED BY <2>1, <2>2, LaneSame
  <1> QED BY <1>1, <1>2

(* The average pledge changes, or only the time up to which it has run. *)
LEMMA AveragePledgeOK ==
    ASSUME NEW s, SchedOK(s), NEW w \in Candidates, s.wit[w].valid, NEW average \in Nat
    PROVE  /\ SchedOK(UpdateWitnessAvgPledge(s, w, average))
           /\ UpdateWitnessAvgPledge(s, w, average).wit[w].valid
  <1> DEFINE t == s.time["pledge"]
             x == Run(s.wit[w], "pledge", t)
             z == [x EXCEPT !.average = average]
             y == IF x.average = average THEN x ELSE Plan(z, "pledge", t)
  <1>1. /\ s.wit[w] \in Candidate /\ WitnessOK(s.wit[w], s.time) /\ "pledge" \in Lanes
        /\ t \in Times /\ LaneOK(s.wit[w], "pledge", t)
    BY SchedParts DEF Lanes
  <1>2. UpdateWitnessAvgPledge(s, w, average) = WithWitness(s, w, y)
    <2>1. s \in [wit : [Candidates -> Candidate], time : [Lanes -> Times],
                 active : SUBSET Candidates]
      BY DEF SchedOK
    <2> QED BY <2>1 DEF UpdateWitnessAvgPledge, WithWitness
  <1> HIDE DEF t
  <1>3. x \in Candidate /\ SameBut(s.wit[w], x, "pledge") /\ LaneOK(x, "pledge", t) /\ x.lane["pledge"].at = t
    BY <1>1, RunOK
  <1> HIDE DEF x
  <1>4. z \in Candidate /\ z.lane = x.lane /\ z.votes = x.votes /\ z.valid = x.valid
    BY <1>3 DEF Candidate
  <1> HIDE DEF z
  <1>5. /\ y \in Candidate /\ y.valid = s.wit[w].valid /\ LaneOK(y, "pledge", t)
        /\ y.votes = s.wit[w].votes
        /\ \A k \in Lanes \ {"pledge"} : y.lane[k] = s.wit[w].lane[k]
    <2>1. CASE x.average = average
      BY Zenon, <1>3, <2>1 DEF SameBut
    <2>2. CASE x.average # average
      <3>1. /\ Plan(z, "pledge", t) \in Candidate /\ SameBut(z, Plan(z, "pledge", t), "pledge")
            /\ LaneOK(Plan(z, "pledge", t), "pledge", t)
        BY <1>1, <1>3, <1>4, PlanOK
      <3>2. y = Plan(z, "pledge", t)
        BY <2>2
      <3> HIDE DEF y
      <3> QED BY ZenonT(30), <1>3, <1>4, <3>1, <3>2 DEF SameBut
    <2> QED BY Zenon, <2>1, <2>2
  <1> HIDE DEF y
  <1>6. OtherSpeeds(s.wit[w], y, "pledge")
    BY <1>5 DEF OtherSpeeds, Lanes, Speed
  <1>7. WitnessOK(y, s.time)
    BY <1>1, <1>5, <1>6, OneLane DEF t
  <1>8. y \in Candidate /\ y.valid
    BY <1>5
  <1>9. SchedOK(WithWitness(s, w, y)) /\ WithWitness(s, w, y).wit[w] = y
    BY <1>7, <1>8, WithWitnessOK
  <1> QED BY <1>2, <1>8, <1>9

-----------------------------------------------------------------------------
(* A round. *)

(* Those that are gone through come before the others. *)
LEMMA WalkedFirst ==
    ASSUME NEW s, SchedOK(s), NEW l \in Lanes, NEW n \in Nat, NEW takes
    PROVE  /\ Walked(BySchedule(s, l), n, takes) \subseteq ValidWitnesses(s)
           /\ \A v \in Walked(BySchedule(s, l), n, takes),
                 w \in ValidWitnesses(s) \ Walked(BySchedule(s, l), n, takes) :
                  s.wit[v].lane[l].due <= s.wit[w].lane[l].due
  <1> DEFINE index == BySchedule(s, l)
             due(w) == s.wit[w].lane[l].due
             valid == ValidWitnesses(s)
  <1>1. DOMAIN index = valid /\ valid \subseteq Candidates
    BY DEF BySchedule, ValidWitnesses
  <1>2. \A w \in valid : index[w] = {v \in valid : due(v) < due(w) \/ (due(v) = due(w) /\ v < w)}
    BY DEF BySchedule
  <1>3. \A w \in valid : due(w) \in Nat
    <2> SUFFICES ASSUME NEW w \in valid PROVE due(w) \in Nat
      OBVIOUS
    <2>1. s.wit[w] \in Candidate
      BY <1>1, SchedParts
    <2> QED BY Zenon, <2>1, LaneType
  <1>4. IsFiniteSet(valid)
    BY <1>1, FS_Subset, ScheduleAssumption
  <1> HIDE DEF index, due, valid
  <1>5. \A w \in valid : w \in Walked(index, n, takes) <=> Cardinality(index[w] \intersect takes) < n
    BY <1>1 DEF Walked
  <1>6. Walked(index, n, takes) \subseteq valid
    BY <1>1 DEF Walked
  <1>7. ASSUME NEW v \in Walked(index, n, takes), NEW w \in valid \ Walked(index, n, takes)
        PROVE  due(v) <= due(w)
    <2>1. v \in valid /\ due(v) \in Nat /\ due(w) \in Nat
      BY <1>3, <1>6
    <2> SUFFICES ASSUME due(w) < due(v) PROVE FALSE
      BY <2>1
    <2>2. index[w] \intersect takes \subseteq index[v] \intersect takes
      <3> SUFFICES ASSUME NEW u \in index[w] PROVE u \in index[v]
        OBVIOUS
      <3>1. u \in valid /\ (due(u) < due(w) \/ due(u) = due(w)) /\ due(u) \in Nat
        BY <1>2, <1>3
      <3>2. due(u) < due(v)
        BY <2>1, <3>1
      <3> QED BY <1>2, <2>1, <3>1, <3>2
    <2>3. IsFiniteSet(index[v] \intersect takes)
      <3>1. index[v] \intersect takes \subseteq valid
        BY <1>2, <2>1
      <3> QED BY <1>4, <3>1, FS_Subset
    <2>4. /\ Cardinality(index[w] \intersect takes) <= Cardinality(index[v] \intersect takes)
          /\ IsFiniteSet(index[w] \intersect takes)
      BY <2>2, <2>3, FS_Subset
    <2>5. /\ Cardinality(index[w] \intersect takes) \in Nat
          /\ Cardinality(index[v] \intersect takes) \in Nat
      BY <2>3, <2>4, FS_CardinalityType
    <2>6. Cardinality(index[v] \intersect takes) < n /\ ~(Cardinality(index[w] \intersect takes) < n)
      BY <1>5, <2>1
    <2> QED BY <2>4, <2>5, <2>6
  <1> QED BY <1>6, <1>7 DEF index, due, valid

(* A set of turns has a latest one: the one with the least time after it. *)
LEMMA LatestTurn ==
    ASSUME NEW S \in SUBSET Times, S # {}
    PROVE  Max(S) \in S /\ \A y \in S : Max(S) >= y
  <1> DEFINE U == {MaxTime - y : y \in S}
  <1>1. \A y \in S : y \in Nat /\ MaxTime - y \in Nat /\ MaxTime \in Nat
    BY ScheduleAssumption DEF Times
  <1>2. U \subseteq Nat /\ U # {}
    BY <1>1
  <1>3. PICK u \in U : \A v \in U : ~(<<v, u>> \in OpToRel(<, Nat))
    <2>1. PICK v : v \in U
      BY <1>2
    <2> HIDE DEF U
    <2> QED BY <1>2, <2>1, NatLessThanWellFounded, WFMin
  <1>4. PICK x \in S : u = MaxTime - x
    BY <1>3
  <1>5. ASSUME NEW y \in S PROVE x >= y
    <2>1. MaxTime - y \in U /\ MaxTime - y \in Nat /\ u \in Nat
      BY <1>1, <1>2
    <2>2. ~(<<MaxTime - y, u>> \in OpToRel(<, Nat))
      BY <1>3, <2>1
    <2>3. ~(MaxTime - y < u)
      <3>1. \A i, j \in Nat : i < j => <<i, j>> \in OpToRel(<, Nat)
        BY DEF OpToRel
      <3> QED BY <2>1, <2>2, <3>1
    <2> QED BY <1>1, <1>4, <2>3
  <1>6. \E z \in S : \A y \in S : z >= y
    BY <1>5
  <1> QED BY <1>6 DEF Max

Timed(s, l, now, f) == [s EXCEPT !.time = [s.time EXCEPT ![l] = now], !.wit = f]

(* A lane goes on to another time. *)
LEMMA TimedOK ==
    ASSUME NEW s, SchedOK(s), NEW l \in Lanes, NEW now \in Times,
           NEW f \in [Candidates -> Candidate],
           \A w \in Candidates : SameBut(s.wit[w], f[w], l),
           \A w \in Candidates : f[w].valid => LaneOK(f[w], l, now)
    PROVE  /\ SchedOK(Timed(s, l, now, f))
           /\ Timed(s, l, now, f).active = s.active
           /\ ValidWitnesses(Timed(s, l, now, f)) = ValidWitnesses(s)
  <1> DEFINE r == Timed(s, l, now, f)
  <1>1. /\ s \in [wit : [Candidates -> Candidate], time : [Lanes -> Times],
                  active : SUBSET Candidates]
        /\ \A v \in Candidates : WitnessOK(s.wit[v], s.time)
        /\ s.active \subseteq ValidWitnesses(s)
    BY DEF SchedOK
  <1>2. /\ r \in [wit : [Candidates -> Candidate], time : [Lanes -> Times],
                  active : SUBSET Candidates]
        /\ r.wit = f /\ r.time = [s.time EXCEPT ![l] = now] /\ r.active = s.active
    BY Zenon, <1>1 DEF Timed
  <1>3. r.time[l] = now /\ \A k \in Lanes \ {l} : r.time[k] = s.time[k]
    BY <1>1, <1>2
  <1> HIDE DEF r
  <1>4. ValidWitnesses(r) = ValidWitnesses(s)
    BY <1>2 DEF ValidWitnesses, SameBut
  <1>5. \A v \in Candidates : WitnessOK(r.wit[v], r.time)
    <2> SUFFICES ASSUME NEW v \in Candidates, f[v].valid, NEW k \in Lanes
                 PROVE  LaneOK(f[v], k, r.time[k])
      BY <1>2 DEF WitnessOK
    <2>1. CASE k = l
      BY <1>3, <2>1
    <2>2. CASE k # l
      <3>1. SameBut(s.wit[v], f[v], l)
        OBVIOUS
      <3>2. LaneOK(s.wit[v], k, s.time[k])
        BY <1>1, <3>1 DEF WitnessOK, SameBut
      <3>3. f[v].lane[k] = s.wit[v].lane[k] /\ Speed(f[v], k) = Speed(s.wit[v], k)
        BY <2>2, <3>1 DEF SameBut, Speed
      <3>4. LaneOK(f[v], k, s.time[k])
        BY <3>2, <3>3, LaneSame
      <3> QED BY <1>3, <2>2, <3>4
    <2> QED BY <2>1, <2>2
  <1>6. SchedOK(r)
    BY <1>1, <1>2, <1>4, <1>5 DEF SchedOK
  <1> QED BY <1>2, <1>4, <1>6 DEF r

LEMMA ResetLaneOK ==
    ASSUME NEW s, SchedOK(s), NEW l \in Lanes
    PROVE  /\ SchedOK(ResetLane(s, l)) /\ ResetLane(s, l).active = s.active
           /\ ValidWitnesses(ResetLane(s, l)) = ValidWitnesses(s)
  <1> DEFINE due(w) == MaxTime \div (Weight(s.wit[w], l) + 1)
             f == [w \in Candidates |->
                      IF ~s.wit[w].valid THEN s.wit[w] ELSE InLane(s.wit[w], l, 0, 0, due(w))]
  <1>1. s \in [wit : [Candidates -> Candidate], time : [Lanes -> Times],
               active : SUBSET Candidates]
    BY DEF SchedOK
  <1>2. ResetLane(s, l) = Timed(s, l, 0, f)
    <2>1. \A w \in Candidates : [s.wit[w] EXCEPT !.lane[l] = [pos |-> 0, at |-> 0, due |-> due(w)]]
                                = InLane(s.wit[w], l, 0, 0, due(w))
      BY <1>1 DEF InLane, Candidate
    <2>2. ResetLane(s, l) = [s EXCEPT !.time[l] = 0, !.wit = f]
      BY Zenon, <2>1 DEF ResetLane
    <2> HIDE DEF f
    <2> QED BY <1>1, <2>2 DEF Timed
  <1>3. 0 \in Times /\ MaxTime \in Nat /\ 0 + 0 = 0 /\ MaxTime - 0 = MaxTime
    BY ScheduleAssumption DEF Times
  <1>4. ASSUME NEW w \in Candidates
        PROVE  /\ f[w] \in Candidate /\ SameBut(s.wit[w], f[w], l)
               /\ f[w].valid => LaneOK(f[w], l, 0)
    <2>1. s.wit[w] \in Candidate
      BY SchedParts
    <2>2. CASE ~s.wit[w].valid
      <3>1. f[w] = s.wit[w]
        BY <2>2
      <3> QED BY <2>1, <2>2, <3>1 DEF SameBut
    <2>3. CASE s.wit[w].valid
      <3>1. f[w] = InLane(s.wit[w], l, 0, 0, due(w))
        BY <2>3
      <3>2. Weight(s.wit[w], l) \in Nat
        BY <2>1, SpeedType
      <3>3. \A v \in Nat : MaxTime \div (v + 1) \in Nat /\ MaxTime \div (v + 1) <= MaxTime
        BY <1>3, LapPart
      <3>4. due(w) \in Times /\ 0 <= due(w) /\ due(w) - 0 = due(w)
        BY <1>3, <3>2, <3>3 DEF Times
      <3>5. due(w) <= due(w)
        BY <1>3, <3>2, <3>3
      <3>6. due(w) - 0 <= (MaxTime - 0) \div (Weight(s.wit[w], l) + 1)
        BY <1>3, <3>4, <3>5
      <3> HIDE DEF due, f
      <3> QED BY <1>3, <2>1, <3>1, <3>4, <3>6, LaneSet
    <2> QED BY <2>2, <2>3
  <1>5. f \in [Candidates -> Candidate]
    <2>1. \A w \in Candidates : f[w] \in Candidate
      BY <1>4
    <2> QED BY <2>1
  <1> HIDE DEF f
  <1> QED BY <1>2, <1>3, <1>4, <1>5, TimedOK

(* Those that were gone through begin a lap at the time of the latest turn *)
(* among them, and those that were not run on until then.                  *)
LEMMA AdvanceOK ==
    ASSUME NEW s, SchedOK(s), NEW l \in Lanes, NEW walked \in SUBSET ValidWitnesses(s),
           walked # {},
           \A v \in walked, w \in ValidWitnesses(s) \ walked :
               s.wit[v].lane[l].due <= s.wit[w].lane[l].due
    PROVE  /\ SchedOK(Advance(s, l, walked)) /\ Advance(s, l, walked).active = s.active
           /\ ValidWitnesses(Advance(s, l, walked)) = ValidWitnesses(s)
  <1> DEFINE turns == {s.wit[w].lane[l].due : w \in walked}
             now == Max(turns)
             next(w) == (now + MaxTime \div (Weight(s.wit[w], l) + 1)) % (MaxTime + 1)
             f == [w \in Candidates |-> IF w \notin walked THEN s.wit[w]
                                        ELSE InLane(s.wit[w], l, 0, now, next(w))]
  <1>1. s \in [wit : [Candidates -> Candidate], time : [Lanes -> Times],
               active : SUBSET Candidates]
    BY DEF SchedOK
  <1>2. walked \subseteq Candidates /\ \A w \in ValidWitnesses(s) : w \in Candidates /\ s.wit[w].valid
    BY DEF ValidWitnesses
  <1>3. turns \in SUBSET Times /\ turns # {}
    <2>1. \A w \in walked : s.wit[w].lane[l].due \in Times
      BY Zenon, <1>1, <1>2, LaneType
    <2> QED BY <2>1
  <1>4. now \in turns /\ \A y \in turns : now >= y
    BY Zenon, <1>3, LatestTurn
  <1>5. PICK v \in walked : now = s.wit[v].lane[l].due
    BY Zenon, <1>4
  <1>6. now \in Times /\ now \in Nat /\ MaxTime \in Nat
    BY <1>3, <1>4, ScheduleAssumption DEF Times
  <1>7. CASE \E w \in walked : next(w) < now
    <2>1. Advance(s, l, walked) = ResetLane(s, l)
      BY Zenon, <1>7 DEF Advance
    <2> QED BY <2>1, ResetLaneOK
  <1>8. CASE ~(\E w \in walked : next(w) < now)
    <2>1. Advance(s, l, walked) = Timed(s, l, now, f)
      <3>1. \A w \in Candidates :
                [s.wit[w] EXCEPT !.lane[l] = [pos |-> 0, at |-> now, due |-> next(w)]]
                = InLane(s.wit[w], l, 0, now, next(w))
        <4> HIDE DEF now, next
        <4> QED BY <1>1 DEF InLane, Candidate
      <3>2. Advance(s, l, walked) = [s EXCEPT !.time[l] = now, !.wit = f]
        BY Zenon, <1>8, <3>1 DEF Advance
      <3> HIDE DEF f, now
      <3> QED BY <1>1, <3>2 DEF Timed
    <2> HIDE DEF turns, now
    <2>2. ASSUME NEW w \in Candidates, w \in walked
          PROVE  /\ f[w] \in Candidate /\ SameBut(s.wit[w], f[w], l)
                 /\ LaneOK(f[w], l, now)
      <3> DEFINE d == MaxTime \div (Weight(s.wit[w], l) + 1)
      <3>1. s.wit[w] \in Candidate
        BY SchedParts
      <3>2. Weight(s.wit[w], l) \in Nat
        BY <3>1, SpeedType
      <3>3. \A u \in Nat : MaxTime \div (u + 1) \in Nat /\ MaxTime \div (u + 1) <= MaxTime
        BY <1>6, LapPart
      <3>4. d \in Nat /\ d <= MaxTime
        BY <3>2, <3>3
      <3>5. f[w] = InLane(s.wit[w], l, 0, now, next(w)) /\ next(w) = (now + d) % (MaxTime + 1)
        BY <2>2
      <3>6. ~(next(w) < now)
        BY <1>8, <2>2
      <3> HIDE DEF f, next
      <3>7. d \in Times /\ 0 \in Times
        BY <1>6, <3>4 DEF Times
      <3>8. /\ next(w) \in Times
            /\ now + d <= MaxTime => next(w) = now + d
            /\ now + d > MaxTime => next(w) < now
        <4> HIDE DEF d
        <4> QED BY <1>6, <3>5, <3>7, Wrap
      <3>9. now <= next(w) /\ next(w) - now <= d
        <4> HIDE DEF d
        <4> QED BY <1>6, <3>4, <3>6, <3>8
      <3>10. next(w) - now <= (MaxTime - 0) \div (Weight(s.wit[w], l) + 1)
        <4>1. MaxTime - 0 = MaxTime
          BY SMTT(30), <1>6
        <4> QED BY <3>9, <4>1
      <3> QED BY ZenonT(30), <1>6, <3>1, <3>5, <3>7, <3>8, <3>9, <3>10, LaneSet
    <2>3. ASSUME NEW w \in Candidates, w \notin walked
          PROVE  /\ f[w] \in Candidate /\ SameBut(s.wit[w], f[w], l)
                 /\ f[w].valid => LaneOK(f[w], l, now)
      <3>1. f[w] = s.wit[w] /\ s.wit[w] \in Candidate
        BY SMTT(30), <2>3, SchedParts
      <3>2. ASSUME s.wit[w].valid PROVE LaneOK(s.wit[w], l, now)
        <4>1. LaneOK(s.wit[w], l, s.time[l]) /\ LaneOK(s.wit[v], l, s.time[l])
          BY <1>2, <3>2, SchedParts
        <4>2. now <= s.wit[w].lane[l].due
          <5>1. w \in ValidWitnesses(s) \ walked
            BY <2>3, <3>2 DEF ValidWitnesses
          <5> QED BY <1>5, <5>1
        <4>3. s.time[l] \in Nat /\ s.wit[w].lane[l].at \in Nat
          <5>1. s.time[l] \in Times
            BY <1>1
          <5>2. s.time[l] \in Nat
            BY <1>6, <5>1 DEF Times
          <5>3. s.wit[w].lane[l].at \in Nat
            BY Zenon, <3>1, LaneType
          <5> QED BY <5>2, <5>3
        <4>4. s.wit[w].lane[l].at <= now
          BY <1>5, <1>6, <4>1, <4>3 DEF LaneOK
        <4> QED BY <4>1, <4>2, <4>4 DEF LaneOK
      <3> QED BY <3>1, <3>2 DEF SameBut
    <2>4. f \in [Candidates -> Candidate]
      <3>1. \A w \in Candidates : f[w] \in Candidate
        BY <2>2, <2>3
      <3> QED BY <3>1
    <2> HIDE DEF f
    <2>5. /\ \A w \in Candidates : SameBut(s.wit[w], f[w], l)
          /\ \A w \in Candidates : f[w].valid => LaneOK(f[w], l, now)
      BY <2>2, <2>3
    <2> QED BY <1>6, <2>1, <2>4, <2>5, TimedOK
  <1> QED BY Zenon, <1>7, <1>8

LEMMA LaneRoundOK ==
    ASSUME NEW r, SchedOK(r), NEW l \in Lanes, NEW n \in Nat, NEW takes
    PROVE  SchedOK(LaneRound(r, l, n, takes))
  <1> DEFINE fits == {w \in takes \ r.active : r.wit[w].key}
             walked == Walked(BySchedule(r, l), n, fits)
             added == walked \intersect fits
             a == Advance(r, l, walked)
             q == [a EXCEPT !.active = @ \union added]
  <1>1. LaneRound(r, l, n, takes) = IF added = {} THEN r ELSE q
    BY DEF LaneRound
  <1>2. /\ walked \subseteq ValidWitnesses(r)
        /\ \A v \in walked, w \in ValidWitnesses(r) \ walked :
               r.wit[v].lane[l].due <= r.wit[w].lane[l].due
    BY Zenon, WalkedFirst
  <1> HIDE DEF walked
  <1>3. ASSUME added # {} PROVE SchedOK(q)
    <2>1. walked # {} /\ walked \in SUBSET ValidWitnesses(r)
      BY <1>2, <1>3
    <2>2. /\ SchedOK(a) /\ a.active = r.active
          /\ ValidWitnesses(a) = ValidWitnesses(r)
      BY <1>2, <2>1, AdvanceOK
    <2> HIDE DEF a
    <2>3. added \subseteq ValidWitnesses(a) /\ ValidWitnesses(a) \subseteq Candidates
      BY <1>2, <2>2 DEF ValidWitnesses
    <2>4. a \in [wit : [Candidates -> Candidate], time : [Lanes -> Times],
                 active : SUBSET Candidates]
      BY <2>2 DEF SchedOK
    <2> HIDE DEF added
    <2>5. /\ q \in [wit : [Candidates -> Candidate], time : [Lanes -> Times],
                    active : SUBSET Candidates]
          /\ q.wit = a.wit /\ q.time = a.time /\ q.active = a.active \union added
      BY <2>3, <2>4
    <2> HIDE DEF q
    <2>6. ValidWitnesses(q) = ValidWitnesses(a)
      BY <2>5 DEF ValidWitnesses
    <2> QED BY <2>2, <2>3, <2>5, <2>6 DEF SchedOK
  <1> QED BY <1>1, <1>3

-----------------------------------------------------------------------------
(* The steps. *)

LEMMA NewCandidateOK ==
    ASSUME NEW n \in Nat, NEW time \in [Lanes -> Times]
    PROVE  NewCandidate(n) \in Candidate /\ WitnessOK(NewCandidate(n), time)
           /\ NewCandidate(n).valid
  <1> DEFINE x == NewCandidate(n)
  <1>1. 0 \in Times /\ MaxTime \in Times /\ MaxTime \in Nat
    BY ScheduleAssumption DEF Times
  <1>2. NotScheduled \in [pos : Times, at : Times, due : Times]
    BY <1>1 DEF NotScheduled
  <1>3. x \in Candidate /\ x.valid
    BY <1>2 DEF NewCandidate, Candidate
  <1>4. \A l \in Lanes : LaneOK(x, l, time[l])
    <2> SUFFICES ASSUME NEW l \in Lanes PROVE LaneOK(x, l, time[l])
      OBVIOUS
    <2>1. x.lane[l] = NotScheduled /\ Speed(x, l) = 0
      BY DEF NewCandidate, Speed
    <2>2. x.lane[l].pos = 0 /\ x.lane[l].at = 0 /\ x.lane[l].due = MaxTime
      BY <2>1 DEF NotScheduled
    <2>3. time[l] \in Nat /\ time[l] <= MaxTime
      <3>1. time[l] \in Times
        OBVIOUS
      <3> QED BY <1>1, <3>1 DEF Times
    <2> HIDE DEF x
    <2>4. 0 + (MaxTime - 0) * 0 <= MaxTime /\ 0 <= time[l]
      BY <1>1, <2>3
    <2> QED BY <2>1, <2>2, <2>3, <2>4 DEF LaneOK
  <1> QED BY <1>3, <1>4 DEF WitnessOK

LEMMA ScheduleInitOK == ScheduleInit => SchedOK(sched)
  <1> SUFFICES ASSUME ScheduleInit PROVE SchedOK(sched)
    OBVIOUS
  <1> DEFINE p == CHOOSE p \in Pledges : p > 0
             time == [l \in Lanes |-> 0]
  <1>1. p \in Nat
    BY Zenon, ScheduleAssumption
  <1> HIDE DEF p
  <1>2. time \in [Lanes -> Times]
    BY ScheduleAssumption DEF Times
  <1>3. NewCandidate(p) \in Candidate /\ WitnessOK(NewCandidate(p), time) /\ NewCandidate(p).valid
    BY <1>1, <1>2, NewCandidateOK
  <1>4. sched = [wit |-> [w \in Candidates |-> NewCandidate(p)], time |-> time,
                 active |-> Candidates]
    BY DEF ScheduleInit, p
  <1> HIDE DEF time
  <1>5. /\ sched \in [wit : [Candidates -> Candidate], time : [Lanes -> Times],
                      active : SUBSET Candidates]
        /\ sched.time = time /\ sched.active = Candidates
        /\ \A w \in Candidates : sched.wit[w] = NewCandidate(p)
    BY <1>2, <1>3, <1>4
  <1> QED BY <1>3, <1>5 DEF SchedOK, ValidWitnesses

(* Changes that leave the turns alone. *)
LEMMA SameTurns ==
    ASSUME NEW s, SchedOK(s), NEW w \in Candidates, s.wit[w].valid, NEW y \in Candidate,
           y.valid, y.lane = s.wit[w].lane, y.votes = s.wit[w].votes,
           y.average = s.wit[w].average
    PROVE  SchedOK(WithWitness(s, w, y)) /\ WithWitness(s, w, y).wit[w].valid
  <1>1. \A l \in Lanes : LaneOK(s.wit[w], l, s.time[l])
    BY SchedParts
  <1>2. ASSUME NEW l \in Lanes PROVE LaneOK(y, l, s.time[l])
    <2>1. y.lane[l] = s.wit[w].lane[l] /\ Speed(y, l) = Speed(s.wit[w], l)
      BY DEF Speed
    <2>2. LaneOK(s.wit[w], l, s.time[l])
      BY <1>1
    <2> QED BY <2>1, <2>2, LaneSame
  <1>3. WitnessOK(y, s.time)
    BY <1>2 DEF WitnessOK
  <1> QED BY <1>3, WithWitnessOK

LEMMA VotesStep ==
    ASSUME SchedOK(sched), NEW w \in Candidates, NEW n \in VotesFor, AdjustWitnessVotes(w, n)
    PROVE  SchedOK(sched')
  <1> DEFINE t == sched.time["vote"]
             x == Run(sched.wit[w], "vote", t)
             z == [x EXCEPT !.votes = n]
             y == Plan(z, "vote", t)
  <1>1. sched.wit[w].valid /\ sched' = [sched EXCEPT !.wit[w] = y]
    BY DEF AdjustWitnessVotes
  <1>2. /\ sched.wit[w] \in Candidate /\ WitnessOK(sched.wit[w], sched.time) /\ "vote" \in Lanes
        /\ t \in Times /\ LaneOK(sched.wit[w], "vote", t)
    BY <1>1, SchedParts DEF Lanes
  <1>3. sched' = WithWitness(sched, w, y)
    <2> HIDE DEF y
    <2>1. sched \in [wit : [Candidates -> Candidate], time : [Lanes -> Times],
                     active : SUBSET Candidates]
      BY DEF SchedOK
    <2> QED BY <1>1, <2>1 DEF WithWitness
  <1> HIDE DEF t
  <1>4. /\ x \in Candidate /\ SameBut(sched.wit[w], x, "vote") /\ LaneOK(x, "vote", t)
        /\ x.lane["vote"].at = t
    BY <1>2, RunOK
  <1> HIDE DEF x
  <1>5. n \in Nat
    BY ScheduleAssumption
  <1>6. z \in Candidate /\ z.lane = x.lane /\ z.average = x.average /\ z.valid = x.valid
    BY <1>4, <1>5 DEF Candidate
  <1> HIDE DEF z
  <1>7. y \in Candidate /\ SameBut(z, y, "vote") /\ LaneOK(y, "vote", t)
    BY <1>2, <1>4, <1>6, PlanOK
  <1> HIDE DEF y
  <1>8. /\ y.valid /\ y.average = sched.wit[w].average
        /\ \A k \in Lanes \ {"vote"} : y.lane[k] = sched.wit[w].lane[k]
    BY <1>1, <1>4, <1>6, <1>7 DEF SameBut
  <1>9. OtherSpeeds(sched.wit[w], y, "vote")
    BY <1>8 DEF OtherSpeeds, Lanes, Speed
  <1>10. WitnessOK(y, sched.time)
    BY <1>1, <1>2, <1>7, <1>8, <1>9, OneLane DEF t
  <1>11. SchedOK(WithWitness(sched, w, y))
    BY <1>7, <1>8, <1>10, WithWitnessOK
  <1> QED BY <1>3, <1>11

LEMMA PledgeStep ==
    ASSUME SchedOK(sched), NEW w \in Candidates, NEW n \in Pledges, WitnessUpdatePledge(w, n)
    PROVE  SchedOK(sched')
  <1>1. sched.wit[w].valid
    BY DEF WitnessUpdatePledge
  <1>2. PICK average \in sched.wit[w].average..sched.wit[w].pledge :
            LET s == UpdateWitnessAvgPledge(sched, w, average)
            IN sched' = UpdateWitnessAvgPledge([s EXCEPT !.wit[w].pledge = n], w,
                                               IF average > n THEN n ELSE average)
    BY DEF WitnessUpdatePledge
  <1> DEFINE s == UpdateWitnessAvgPledge(sched, w, average)
             y == [s.wit[w] EXCEPT !.pledge = n]
             q == [s EXCEPT !.wit[w].pledge = n]
             m == IF average > n THEN n ELSE average
  <1>3. sched' = UpdateWitnessAvgPledge(q, w, m)
    BY <1>2
  <1>4. n \in Nat /\ average \in Nat /\ m \in Nat
    <2>1. sched.wit[w] \in Candidate
      BY SchedParts
    <2>2. sched.wit[w].average \in Nat /\ sched.wit[w].pledge \in Nat
      BY <2>1 DEF Candidate
    <2> QED BY <2>2, ScheduleAssumption
  <1> HIDE DEF m
  <1>5. SchedOK(s) /\ s.wit[w].valid
    BY <1>1, <1>4, AveragePledgeOK
  <1> HIDE DEF s
  <1>6. /\ s \in [wit : [Candidates -> Candidate], time : [Lanes -> Times],
                  active : SUBSET Candidates]
        /\ s.wit[w] \in Candidate
    BY <1>5 DEF SchedOK
  <1>7. q = WithWitness(s, w, y)
    BY <1>6 DEF WithWitness
  <1>8. /\ y \in Candidate /\ y.valid = s.wit[w].valid /\ y.lane = s.wit[w].lane
        /\ y.votes = s.wit[w].votes /\ y.average = s.wit[w].average
    BY <1>4, <1>6 DEF Candidate
  <1> HIDE DEF y, q
  <1>9. SchedOK(q) /\ q.wit[w].valid
    BY Zenon, <1>5, <1>7, <1>8, SameTurns
  <1> QED BY <1>3, <1>4, <1>9, AveragePledgeOK

(* The changes of a witness that no lane runs by. *)
LEMMA PlainStep ==
    ASSUME SchedOK(sched), NEW w \in Candidates,
           \/ \E n \in MinedPledges : MiningPledge(w, n)
           \/ WitnessKey(w)
    PROVE  SchedOK(sched')
  <1> DEFINE x == sched.wit[w]
  <1>1. x \in Candidate /\ sched \in [wit : [Candidates -> Candidate], time : [Lanes -> Times],
                                      active : SUBSET Candidates]
    BY DEF SchedOK
  <1>2. x.valid
    BY DEF MiningPledge, WitnessKey
  <1>3. ASSUME NEW n \in MinedPledges, MiningPledge(w, n) PROVE SchedOK(sched')
    <2> DEFINE y == [x EXCEPT !.mined = n]
    <2>1. n \in Nat
      BY ScheduleAssumption
    <2>2. /\ y \in Candidate /\ y.valid = x.valid /\ y.lane = x.lane /\ y.votes = x.votes
          /\ y.average = x.average
      BY <1>1, <2>1 DEF Candidate
    <2>3. sched' = WithWitness(sched, w, y)
      BY <1>1, <1>3 DEF MiningPledge, WithWitness
    <2> HIDE DEF y
    <2> QED BY Zenon, <1>2, <2>2, <2>3, SameTurns
  <1>4. ASSUME WitnessKey(w) PROVE SchedOK(sched')
    <2> DEFINE y == [x EXCEPT !.key = ~x.key]
    <2>1. (~x.key) \in BOOLEAN
      OBVIOUS
    <2>2. /\ y \in Candidate /\ y.valid = x.valid /\ y.lane = x.lane /\ y.votes = x.votes
          /\ y.average = x.average
      BY Zenon, <1>1, <2>1 DEF Candidate
    <2>3. sched' = WithWitness(sched, w, y)
      BY <1>1, <1>4 DEF WitnessKey, WithWitness
    <2> HIDE DEF y
    <2> QED BY Zenon, <1>2, <2>2, <2>3, SameTurns
  <1> QED BY <1>3, <1>4

(* A witness that is not on the schedule resigns. *)
LEMMA ResignStep ==
    ASSUME SchedOK(sched), NEW w \in Candidates, ResignWitness(w)
    PROVE  SchedOK(sched')
  <1> DEFINE x == sched.wit[w]
             lanes == [l \in Lanes |-> [x.lane[l] EXCEPT !.due = MaxTime]]
             y == [x EXCEPT !.valid = FALSE, !.lane = lanes]
  <1>1. x \in Candidate /\ sched \in [wit : [Candidates -> Candidate], time : [Lanes -> Times],
                                      active : SUBSET Candidates]
    BY DEF SchedOK
  <1>2. lanes \in [Lanes -> [pos : Times, at : Times, due : Times]]
    <2>1. MaxTime \in Times
      BY ScheduleAssumption DEF Times
    <2>2. x.lane \in [Lanes -> [pos : Times, at : Times, due : Times]]
      BY <1>1 DEF Candidate
    <2> HIDE DEF x
    <2> QED BY <2>1, <2>2
  <1>3. w \notin sched.active
        /\ sched' = [sched EXCEPT !.wit[w].valid = FALSE, !.wit[w].lane = lanes]
    BY DEF ResignWitness
  <1> HIDE DEF lanes
  <1>4. sched' = WithWitness(sched, w, y)
    BY Zenon, <1>1, <1>3 DEF WithWitness
  <1>5. y \in Candidate /\ ~y.valid
    BY Zenon, <1>1, <1>2 DEF Candidate
  <1> HIDE DEF y
  <1>6. WitnessOK(y, sched.time)
    BY <1>5 DEF WitnessOK
  <1> QED BY <1>3, <1>4, <1>5, <1>6, WithWitnessOK

LEMMA CreateStep ==
    ASSUME SchedOK(sched), NEW w \in Candidates, NEW n \in Pledges, CreateWitness(w, n)
    PROVE  SchedOK(sched')
  <1>1. sched \in [wit : [Candidates -> Candidate], time : [Lanes -> Times],
                   active : SUBSET Candidates]
    BY DEF SchedOK
  <1>2. sched' = WithWitness(sched, w, NewCandidate(n))
    BY <1>1 DEF CreateWitness, WithWitness
  <1>3. n \in Nat /\ sched.time \in [Lanes -> Times]
    BY <1>1, ScheduleAssumption
  <1>4. /\ NewCandidate(n) \in Candidate /\ WitnessOK(NewCandidate(n), sched.time)
        /\ NewCandidate(n).valid
    BY <1>3, NewCandidateOK
  <1> QED BY <1>2, <1>4, WithWitnessOK

LEMMA RoundStep ==
    ASSUME SchedOK(sched), UpdateWitnessSchedule
    PROVE  SchedOK(sched')
  <1> DEFINE keyed == {w \in Candidates : sched.wit[w].key}
             pledged == {w \in Candidates : sched.wit[w].pledge >= MinProducePledge}
             first == Walked(ByVotes(sched), TopMax, keyed)
             top == [sched EXCEPT !.active = first \intersect keyed]
             rest == LaneRound(top, "vote", RestMax, Candidates)
  <1>1. sched' = LaneRound(rest, "pledge", PledgeMax, pledged)
    BY Zenon DEF UpdateWitnessSchedule
  <1>2. first \subseteq ValidWitnesses(sched)
    BY DEF Walked, ByVotes
  <1> HIDE DEF first
  <1>3. SchedOK(top)
    <2>1. /\ sched \in [wit : [Candidates -> Candidate], time : [Lanes -> Times],
                        active : SUBSET Candidates]
          /\ \A v \in Candidates : WitnessOK(sched.wit[v], sched.time)
      BY DEF SchedOK
    <2>2. /\ top \in [wit : [Candidates -> Candidate], time : [Lanes -> Times],
                      active : SUBSET Candidates]
          /\ top.wit = sched.wit /\ top.time = sched.time /\ top.active = first \intersect keyed
      BY <2>1
    <2> HIDE DEF top, keyed
    <2>3. ValidWitnesses(top) = ValidWitnesses(sched)
      BY <2>2 DEF ValidWitnesses
    <2> QED BY <1>2, <2>1, <2>2, <2>3 DEF SchedOK
  <1> HIDE DEF top, pledged
  <1>4. "vote" \in Lanes /\ "pledge" \in Lanes /\ RestMax \in Nat /\ PledgeMax \in Nat
    BY ScheduleAssumption DEF Lanes
  <1>5. SchedOK(rest)
    BY <1>3, <1>4, LaneRoundOK
  <1> HIDE DEF rest
  <1> QED BY <1>1, <1>4, <1>5, LaneRoundOK

LEMMA ScheduleStep == SchedOK(sched) /\ [ScheduleNext]_svars => SchedOK(sched)'
  <1> SUFFICES ASSUME SchedOK(sched), [ScheduleNext]_svars PROVE SchedOK(sched')
    BY DEF SchedOK, WitnessOK, LaneOK, ValidWitnesses
  <1>1. CASE ScheduleRound
    BY <1>1, RoundStep DEF ScheduleRound
  <1>2. CASE ScheduleCall
    <2>1. PICK w \in Candidates :
              \/ \E n \in VotesFor : AdjustWitnessVotes(w, n)
              \/ \E n \in Pledges : WitnessUpdatePledge(w, n) \/ CreateWitness(w, n)
              \/ \E n \in MinedPledges : MiningPledge(w, n)
              \/ AveragePledge(w) \/ WitnessKey(w) \/ ResignWitness(w)
      BY <1>2 DEF ScheduleCall
    <2>2. ASSUME AveragePledge(w) PROVE SchedOK(sched')
      <3>1. sched.wit[w].valid
        BY <2>2 DEF AveragePledge
      <3>2. PICK n \in (sched.wit[w].average + 1)..sched.wit[w].pledge :
                sched' = UpdateWitnessAvgPledge(sched, w, n)
        BY <2>2 DEF AveragePledge
      <3>3. n \in Nat
        <4>1. sched.wit[w] \in Candidate
          BY SchedParts
        <4>2. sched.wit[w].average \in Nat /\ sched.wit[w].pledge \in Nat
          BY <4>1 DEF Candidate
        <4> QED BY <4>2
      <3> QED BY <3>1, <3>2, <3>3, AveragePledgeOK
    <2> QED BY <2>1, <2>2, VotesStep, PledgeStep, CreateStep, PlainStep, ResignStep
  <1>3. CASE UNCHANGED svars
    BY <1>3 DEF svars
  <1> QED BY <1>1, <1>2, <1>3 DEF ScheduleNext

(* No turn of a witness is ever in the past, nobody has run further than a *)
(* lap, and whoever is on the schedule is a witness: update_witness_       *)
(* schedule and what changes votes and pledges between rounds keep it so   *)
(* also when the virtual time overflows, whatever its range.               *)
THEOREM TurnsAhead == ScheduleSpec => []ScheduleSound
  <1>1. SchedOK(sched) => ScheduleSound
    <2> SUFFICES ASSUME SchedOK(sched) PROVE ScheduleSound
      OBVIOUS
    <2>1. sched.active \subseteq ValidWitnesses(sched)
      BY DEF SchedOK
    <2>2. ASSUME NEW w \in ValidWitnesses(sched), NEW l \in Lanes
          PROVE  LET x == sched.wit[w].lane[l]
                     t == sched.time[l]
                 IN /\ x.at \in 0..t /\ x.due \in t..MaxTime
                    /\ x.pos + (t - x.at) * Speed(sched.wit[w], l) \in 0..MaxTime
      <3> DEFINE at == sched.wit[w].lane[l].at
                 pos == sched.wit[w].lane[l].pos
                 due == sched.wit[w].lane[l].due
                 t == sched.time[l]
                 s == Speed(sched.wit[w], l)
      <3>1. w \in Candidates /\ sched.wit[w].valid
        BY DEF ValidWitnesses
      <3>2. sched.wit[w] \in Candidate /\ t \in Times /\ LaneOK(sched.wit[w], l, t)
        BY <3>1, SchedParts
      <3>3. at <= t /\ t <= due /\ pos + (due - at) * s <= MaxTime
        BY <3>2 DEF LaneOK
      <3>4. /\ at \in Nat /\ pos \in Nat /\ due \in Nat /\ due <= MaxTime /\ MaxTime \in Nat
        BY Zenon, <3>2, LaneType
      <3>5. s \in Nat
        BY <3>2, SpeedType
      <3>6. t \in Nat
        BY <3>2, <3>4 DEF Times
      <3> HIDE DEF at, pos, due, t, s
      <3>7. PICK a \in Nat : t = at + a
        <4>1. t - at \in Nat /\ t = at + (t - at)
          BY <3>3, <3>4, <3>6
        <4> QED BY <4>1
      <3>8. PICK b \in Nat : due = t + b
        <4>1. due - t \in Nat /\ due = t + (due - t)
          BY <3>3, <3>4, <3>6
        <4> QED BY <4>1
      <3>9. t - at = a /\ due - at = a + b
        BY <3>4, <3>6, <3>7, <3>8
      <3>10. (a + b) * s = a * s + b * s /\ a * s \in Nat /\ b * s \in Nat
        BY <3>5
      <3>11. pos + a * s + b * s <= MaxTime
        BY <3>3, <3>4, <3>9, <3>10
      <3>12. pos + a * s \in 0..MaxTime
        BY <3>4, <3>10, <3>11
      <3>13. pos + (t - at) * s \in 0..MaxTime
        BY <3>9, <3>12
      <3>14. at \in 0..t /\ due \in t..MaxTime
        BY <3>3, <3>4, <3>6
      <3> QED BY <3>13, <3>14 DEF at, pos, due, t, s
    <2> QED BY <2>1, <2>2 DEF ScheduleSound
  <1>2. ScheduleInit => SchedOK(sched)
    BY ScheduleInitOK
  <1>3. SchedOK(sched) /\ [ScheduleNext]_svars => SchedOK(sched)'
    BY ScheduleStep
  <1> QED BY <1>1, <1>2, <1>3, PTL DEF ScheduleSpec
==============================================================================
