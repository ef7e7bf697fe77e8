----------------------------- MODULE LeaveProofs -----------------------------
(***************************************************************************)
(* Leave for every set of members, types, requests and handlers.  Wherever *)
(* the org chart leads, a request finds the nearest supervisor who can     *)
(* decide it and never its own member; and where the read of a transaction *)
(* locks its row, requests implement DecideOnce and the used days of every *)
(* balance are the days of its approved requests.                          *)
(***************************************************************************)
EXTENDS Leave, DeductionProofs, FiniteSetTheorems

FullRow ==
    [status : {"pending", "approved", "rejected", "cancelled"}, member : Members,
     type : Types, from : Nat, to : Nat]

RequestRow == {NoRequest} \cup FullRow

AtWork ==
    [pc : {"submit", "cancel", "decide", "announceSubmitted", "announceDecided"},
     request : Requests, row : FullRow, decision : Decisions]

BalanceRow == [exists : BOOLEAN, allocated : Nat, used : Int]

OrgTypeOK ==
    /\ supervisor \in [Members -> Members \cup {Nobody}]
    /\ delegation \in [Members \X Members -> {"none", "active", "inactive"}]
    /\ types \in SUBSET Types

TypeOK ==
    /\ OrgTypeOK
    /\ balance \in [Members -> [Types -> BalanceRow]]
    /\ request \in [Requests -> RequestRow]
    /\ booked \in [Requests -> Nat]
    /\ handler \in [Handlers -> {Resting} \cup AtWork]

-----------------------------------------------------------------------------
(* Who decides.  The loop of resolveApprover keeps this state. *)

ClimbState == [at : Members, seen : SUBSET Members, answers : SUBSET (Members \cup {Nobody})]

LEMMA TurnType ==
    ASSUME OrgTypeOK, NEW was \in ClimbState
    PROVE  Turn(was) \in ClimbState
  <1>1. supervisor[was.at] \in Members \cup {Nobody}
    BY DEF OrgTypeOK, ClimbState
  <1>2. \A boss : StandIns(boss) \in SUBSET (Members \cup {Nobody})
    BY DEF StandIns
  <1>3. QED
    BY <1>1, <1>2 DEF Turn, ClimbState

LEMMA MembersCounted ==
    ASSUME LeaveAssumption
    PROVE  Cardinality(Members) \in Nat
  BY FS_CardinalityType DEF LeaveAssumption

LEMMA ClimbStep ==
    ASSUME OrgTypeOK, LeaveAssumption, NEW m \in Members, NEW start \in SUBSET Members
    PROVE  /\ Climb(m, start) \in [0..Cardinality(Members) -> ClimbState]
           /\ Climb(m, start)[0] = [at |-> m, seen |-> start, answers |-> {}]
           /\ \A k \in 1..Cardinality(Members) :
                 Climb(m, start)[k] = Turn(Climb(m, start)[k-1])
  <1>0. PICK n \in Nat : n = Cardinality(Members)
    BY MembersCounted
  <1> DEFINE first == [at |-> m, seen |-> start, answers |-> {}]
             F == [i \in 1..n |-> [v \in ClimbState |-> Turn(v)]]
             Step(g) == [k \in 0..n |-> IF k = 0 THEN first ELSE Turn(g[k-1])]
  <1>1. first \in ClimbState
    BY DEF ClimbState
  <1>2. PICK g \in [0..n -> ClimbState] : Solves(g, n, first, F)
    <2>1. F \in [1..n -> [ClimbState -> ClimbState]]
      BY TurnType
    <2> HIDE DEF F, first
    <2>2. QED
      BY <1>1, <2>1, RecursionExists, Zenon
  <1>3. g = Step(g)
    <2>1. \A i \in 1..n, v \in ClimbState : F[i][v] = Turn(v)
      OBVIOUS
    <2>2. \A i \in 1..n : i - 1 \in 0..n /\ g[i-1] \in ClimbState
      OBVIOUS
    <2> HIDE DEF F, first
    <2>3. \A i \in 0..n : i # 0 => F[i][g[i-1]] = Turn(g[i-1])
      <3>1. \A i \in 0..n : i # 0 => i \in 1..n
        OBVIOUS
      <3>2. QED
        BY <2>1, <2>2, <3>1, Zenon
    <2>4. QED
      BY <1>2, <2>3 DEF Solves
  <1>4. Climb(m, start) = Step(Climb(m, start))
    BY <1>0, <1>3 DEF Climb
  <1> HIDE DEF F, first
  <1>5. Climb(m, start)[0] = first
    BY <1>4
  <1>6. \A k \in 1..n : Climb(m, start)[k] = Turn(Climb(m, start)[k-1])
    BY <1>4
  <1>7. \A k \in 0..n : Climb(m, start)[k] \in ClimbState
    <2> DEFINE P == {k \in 0..n : Climb(m, start)[k] \in ClimbState}
    <2>1. 0 \in P
      BY <1>1, <1>5
    <2>2. ASSUME NEW k \in 0..n, k \in P, k < n
          PROVE  k + 1 \in P
      <3>1. k + 1 \in 1..n /\ (k + 1) - 1 = k
        BY <2>2
      <3>2. Climb(m, start)[k+1] = Turn(Climb(m, start)[k])
        BY <1>6, <3>1
      <3>3. QED
        BY <2>2, <3>1, <3>2, TurnType
    <2> HIDE DEF P
    <2>3. 0..n \subseteq P
      BY <2>1, <2>2, IntervalInduction
    <2>4. QED
      BY <2>3 DEF P
  <1>8. Climb(m, start) \in [0..n -> ClimbState]
    BY <1>4, <1>7
  <1>9. QED
    BY <1>0, <1>5, <1>6, <1>8 DEF first

LEMMA TurnCases ==
    ASSUME OrgTypeOK, NEW was \in ClimbState, was.answers = {},
           NEW boss, boss = supervisor[was.at]
    PROVE  \/ /\ boss \in {Nobody} \cup was.seen
              /\ Turn(was).answers = {Nobody}
           \/ /\ boss \in Members \ was.seen /\ boss # Nobody /\ ~Passes(boss)
              /\ Turn(was).answers # {}
              /\ Turn(was).answers = IF OnLeave(boss) THEN StandIns(boss) ELSE {boss}
           \/ /\ boss \in Members \ was.seen /\ Passes(boss)
              /\ Turn(was) = [at |-> boss, seen |-> was.seen \cup {boss}, answers |-> {}]
  <1>0. boss \in Members \cup {Nobody}
    BY DEF OrgTypeOK, ClimbState
  <1>1. CASE boss = Nobody \/ boss \in was.seen
    BY <1>1 DEF Turn, ClimbState
  <1>2. CASE boss # Nobody /\ boss \notin was.seen /\ ~OnLeave(boss)
    <2>1. Turn(was).answers = {boss} /\ ~Passes(boss)
      BY <1>2 DEF Turn, ClimbState, Passes
    <2>2. QED
      BY <1>0, <1>2, <2>1
  <1>3. CASE boss # Nobody /\ boss \notin was.seen /\ OnLeave(boss) /\ StandIns(boss) # {}
    <2>1. Turn(was).answers = StandIns(boss) /\ ~Passes(boss)
      BY <1>3 DEF Turn, ClimbState, Passes
    <2>2. QED
      BY <1>0, <1>3, <2>1
  <1>4. CASE boss # Nobody /\ boss \notin was.seen /\ OnLeave(boss) /\ StandIns(boss) = {}
    <2>1. Turn(was) = [at |-> boss, seen |-> was.seen \cup {boss}, answers |-> {}]
      BY <1>4 DEF Turn, ClimbState
    <2>2. QED
      BY <1>0, <1>4, <2>1 DEF Passes
  <1>5. QED
    BY <1>1, <1>2, <1>3, <1>4

(* What has been climbed when the loop still goes on after k turns: a      *)
(* chain of k supervisors who pass the request on.                         *)
GoesOn(climb, m, k) ==
    /\ climb[k].seen = {climb[j].at : j \in 0..k}
    /\ IsFiniteSet(climb[k].seen) /\ Cardinality(climb[k].seen) = k + 1
    /\ ChainOf(m, k, [j \in 0..k |-> climb[j].at])

LEMMA ClimbGoesOn ==
    ASSUME OrgTypeOK, LeaveAssumption, NEW m \in Members,
           NEW n \in Nat, NEW climb \in [0..n -> ClimbState],
           climb[0] = [at |-> m, seen |-> {m}, answers |-> {}],
           \A k \in 1..n : climb[k] = Turn(climb[k-1])
    PROVE  \A k \in 0..n : climb[k].answers = {} => GoesOn(climb, m, k)
  <1> DEFINE P == {k \in 0..n : climb[k].answers = {} => GoesOn(climb, m, k)}
  <1>1. GoesOn(climb, m, 0)
    <2>1. climb[0].at = m /\ climb[0].seen = {m}
      OBVIOUS
    <2>2. \A j : j \in 0..0 <=> j = 0
      OBVIOUS
    <2>3. {climb[j].at : j \in 0..0} = {m}
      BY <2>1, <2>2
    <2>4. IsFiniteSet({m}) /\ Cardinality({m}) = 1
      BY FS_Singleton, Zenon
    <2>5. ChainOf(m, 0, [j \in 0..0 |-> climb[j].at])
      BY <2>1, <2>2 DEF ChainOf
    <2>6. QED
      BY <2>1, <2>3, <2>4, <2>5 DEF GoesOn
  <1>2. ASSUME NEW k \in 0..n, k \in P, k < n
        PROVE  k + 1 \in P
    <2> SUFFICES ASSUME climb[k+1].answers = {}
                 PROVE  GoesOn(climb, m, k + 1)
      BY <1>2
    <2>0. k + 1 \in 1..n /\ k \in Nat /\ climb[k] \in ClimbState /\ climb[k+1] = Turn(climb[k])
      BY <1>2
    <2>1. climb[k].answers = {}
      BY <2>0 DEF Turn
    <2>2. GoesOn(climb, m, k)
      BY <1>2, <2>1
    <2>3. PICK boss : boss = supervisor[climb[k].at]
      OBVIOUS
    <2>4. /\ boss \in Members \ climb[k].seen /\ Passes(boss)
          /\ climb[k+1] = [at |-> boss, seen |-> climb[k].seen \cup {boss}, answers |-> {}]
      BY <2>0, <2>1, <2>3, TurnCases
    <2>5. climb[k+1].at = boss /\ climb[k+1].seen = climb[k].seen \cup {boss}
      BY <2>4
    <2>6. climb[k+1].seen = {climb[j].at : j \in 0..(k+1)}
      <3>1. \A j : j \in 0..(k+1) <=> j \in 0..k \/ j = k + 1
        BY <2>0
      <3>2. climb[k].seen = {climb[j].at : j \in 0..k}
        BY <2>2 DEF GoesOn
      <3>3. QED
        BY <2>5, <3>1, <3>2
    <2>7. IsFiniteSet(climb[k+1].seen) /\ Cardinality(climb[k+1].seen) = (k + 1) + 1
      <3>1. /\ IsFiniteSet(climb[k].seen) /\ Cardinality(climb[k].seen) = k + 1
            /\ boss \notin climb[k].seen
        BY <2>2, <2>4 DEF GoesOn
      <3>2. PICK seen : seen = climb[k].seen
        OBVIOUS
      <3>3. IsFiniteSet(seen \cup {boss}) /\ Cardinality(seen \cup {boss}) = Cardinality(seen) + 1
        BY <3>1, <3>2, FS_AddElement, Zenon
      <3>4. QED
        BY <2>5, <3>1, <3>2, <3>3
    <2>8. ChainOf(m, k + 1, [j \in 0..(k+1) |-> climb[j].at])
      <3> DEFINE old == [j \in 0..k |-> climb[j].at]
                 new == [j \in 0..(k+1) |-> climb[j].at]
      <3>1. ChainOf(m, k, old)
        BY <2>2 DEF GoesOn
      <3>2. /\ new[k+1] = boss
            /\ \A j \in 0..k : new[j] = old[j] /\ new[j] = climb[j].at
        BY <2>0, <2>5
      <3>3. \A j \in 0..k : new[j] # boss
        <4>1. climb[k].seen = {climb[j].at : j \in 0..k} /\ boss \notin climb[k].seen
          BY <2>2, <2>4 DEF GoesOn
        <4>2. QED
          BY <3>2, <4>1
      <3>4. boss = supervisor[new[k]] /\ Passes(boss)
        BY <2>0, <2>3, <2>4, <3>2
      <3> HIDE DEF old, new
      <3>5. /\ \A j : j \in 0..(k+1) <=> j \in 0..k \/ j = k + 1
            /\ \A j : j \in 1..(k+1) <=> j \in 1..k \/ j = k + 1
            /\ \A j \in 1..k : j \in 0..k /\ j - 1 \in 0..k
            /\ k \in 0..k /\ 0 \in 0..k /\ (k + 1) - 1 = k
        BY <2>0
      <3>6. new[0] = m
        BY <3>1, <3>2, <3>5 DEF ChainOf
      <3>7. \A j \in 1..(k+1) : new[j] = supervisor[new[j-1]] /\ Passes(new[j])
        BY <3>1, <3>2, <3>4, <3>5 DEF ChainOf
      <3>8. \A i, j \in 0..(k+1) : new[i] = new[j] => i = j
        BY <3>1, <3>2, <3>3, <3>5 DEF ChainOf
      <3>9. ChainOf(m, k + 1, new)
        BY <3>6, <3>7, <3>8 DEF ChainOf
      <3>10. QED
        BY <3>9 DEF new
    <2>9. QED
      BY <2>6, <2>7, <2>8 DEF GoesOn
  <1>3. 0 \in P
    BY <1>1
  <1> HIDE DEF P
  <1>4. 0..n \subseteq P
    BY <1>2, <1>3, IntervalInduction
  <1>5. QED
    BY <1>4 DEF P

(* Among finitely many members the loop ends, and keeps its answers.       *)
Climbs(climb, m, n) ==
    /\ climb \in [0..n -> ClimbState]
    /\ climb[0] = [at |-> m, seen |-> {m}, answers |-> {}]
    /\ \A k \in 1..n : climb[k] = Turn(climb[k-1])

LEMMA ClimbEnds ==
    ASSUME OrgTypeOK, LeaveAssumption, NEW m \in Members,
           NEW n \in Nat, n = Cardinality(Members), NEW climb, Climbs(climb, m, n)
    PROVE  \E k \in 0..n :
             /\ climb[k].answers = {}
             /\ GoesOn(climb, m, k)
             /\ Turn(climb[k]).answers # {}
             /\ climb[n].answers = Turn(climb[k]).answers
  <1> USE DEF Climbs
  <1>1. n \in 0..n /\ climb[n] \in ClimbState
    OBVIOUS
  <1>2. \A k \in 0..n : climb[k].answers = {} => GoesOn(climb, m, k)
    BY ClimbGoesOn
  <1>3. climb[n].answers # {}
    <2> SUFFICES ASSUME climb[n].answers = {} PROVE FALSE
      OBVIOUS
    <2>1. Cardinality(climb[n].seen) = n + 1
      BY <1>1, <1>2 DEF GoesOn
    <2>2. climb[n].seen \subseteq Members
      BY <1>1 DEF ClimbState
    <2>3. Cardinality(climb[n].seen) <= Cardinality(Members)
      BY <2>2, FS_Subset, Zenon DEF LeaveAssumption
    <2>4. QED
      BY <2>1, <2>3
  <1> DEFINE T == {k \in 0..n : climb[k].answers # {}}
  <1>4. PICK k \in T : \A j \in T : k <= j
    <2>1. n \in T
      BY <1>1, <1>3
    <2>2. T \subseteq Nat
      OBVIOUS
    <2> HIDE DEF T
    <2>3. QED
      BY <2>1, <2>2, LeastNatural
  <1>5. k \in 0..n /\ climb[k].answers # {}
    OBVIOUS
  <1>6. k # 0
    <2>1. climb[0].answers = {}
      OBVIOUS
    <2>2. QED
      BY <1>5, <2>1
  <1>7. /\ k \in 1..n /\ k - 1 \in 0..n /\ climb[k-1].answers = {}
        /\ climb[k] = Turn(climb[k-1])
    <2>1. k \in 1..n /\ k - 1 \in 0..n /\ k - 1 \notin T
      BY <1>4, <1>5, <1>6
    <2>2. climb[k-1].answers = {}
      BY <2>1
    <2>3. QED
      BY <2>1, <2>2
  <1>8. climb[n] = climb[k]
    <2> DEFINE P == {j \in 0..n : j >= k => climb[j] = climb[k]}
    <2>1. 0 \in P
      BY <1>5, <1>6
    <2>2. ASSUME NEW j \in 0..n, j \in P, j < n
          PROVE  j + 1 \in P
      <3>1. CASE j + 1 <= k
        BY <1>5, <2>2, <3>1
      <3>2. CASE j + 1 > k
        <4>1. climb[j] = climb[k] /\ j + 1 \in 1..n /\ (j + 1) - 1 = j
          BY <1>5, <2>2, <3>2
        <4>2. climb[j+1] = Turn(climb[j])
          BY <4>1
        <4>3. climb[j+1] = climb[j]
          BY <1>5, <4>1, <4>2 DEF Turn
        <4>4. QED
          BY <4>1, <4>3
      <3>3. QED
        BY <1>5, <2>2, <3>1, <3>2
    <2> HIDE DEF P
    <2>3. 0..n \subseteq P
      BY <2>1, <2>2, IntervalInduction
    <2>4. n \in P
      BY <1>1, <2>3
    <2>5. QED
      BY <1>5, <2>4 DEF P
  <1>9. GoesOn(climb, m, k - 1)
    BY <1>2, <1>7
  <1>10. QED
    BY <1>5, <1>7, <1>8, <1>9

(* The approver of a request, in one picture.                              *)
LEMMA NearestDecides ==
    ASSUME OrgTypeOK, LeaveAssumption, NEW m \in Members
    PROVE  \E n \in 0..Cardinality(Members) : \E chain \in [0..n -> Members] :
             LET next == supervisor[chain[n]]
             IN  /\ ChainOf(m, n, chain)
                 /\ \/ /\ next \in {Nobody} \cup {chain[k] : k \in 0..n}
                       /\ Approvers(m) = {Nobody}
                    \/ /\ next \in Members \ {chain[k] : k \in 0..n}
                       /\ ~Passes(next)
                       /\ Approvers(m) = IF OnLeave(next) THEN StandIns(next) ELSE {next}
  <1>0. PICK size \in Nat : size = Cardinality(Members)
    BY MembersCounted
  <1>1. PICK climb : climb = Climb(m, {m})
    OBVIOUS
  <1>2. {m} \in SUBSET Members
    OBVIOUS
  <1>3. Climbs(climb, m, size)
    BY <1>0, <1>1, <1>2, ClimbStep DEF Climbs
  <1>4. PICK n \in 0..size :
          /\ climb[n].answers = {}
          /\ GoesOn(climb, m, n)
          /\ Turn(climb[n]).answers # {}
          /\ climb[size].answers = Turn(climb[n]).answers
    BY <1>0, <1>3, ClimbEnds
  <1>5. Approvers(m) = Turn(climb[n]).answers
    BY <1>0, <1>1, <1>4 DEF Approvers, ApproversAbove
  <1>6. PICK chain : chain = [j \in 0..n |-> climb[j].at]
    OBVIOUS
  <1>7. n \in 0..n /\ climb[n] \in ClimbState /\ \A j \in 0..n : climb[j] \in ClimbState
    BY <1>3 DEF Climbs
  <1>8. chain \in [0..n -> Members]
    BY <1>6, <1>7 DEF ClimbState
  <1>9. \A j \in 0..n : chain[j] = climb[j].at
    BY <1>6
  <1>10. ChainOf(m, n, chain) /\ climb[n].seen = {climb[j].at : j \in 0..n}
    BY <1>4, <1>6 DEF GoesOn
  <1>11. climb[n].seen = {chain[j] : j \in 0..n} /\ climb[n].at = chain[n]
    BY <1>7, <1>9, <1>10
  <1>12. PICK was \in ClimbState :
           /\ was = climb[n] /\ was.answers = {} /\ Turn(was).answers # {}
           /\ Approvers(m) = Turn(was).answers
    BY <1>4, <1>5, <1>7
  <1>13. PICK boss : boss = supervisor[was.at]
    OBVIOUS
  <1>14. \/ /\ boss \in {Nobody} \cup was.seen
             /\ Approvers(m) = {Nobody}
         \/ /\ boss \in Members \ was.seen
             /\ ~Passes(boss)
             /\ Approvers(m) = IF OnLeave(boss) THEN StandIns(boss) ELSE {boss}
    <2>1. CASE Turn(was) = [at |-> boss, seen |-> was.seen \cup {boss}, answers |-> {}]
      BY <1>12, <2>1
    <2>2. QED
      BY <1>12, <1>13, <2>1, TurnCases
  <1>15. was.seen = {chain[j] : j \in 0..n} /\ boss = supervisor[chain[n]]
    BY <1>11, <1>12, <1>13
  <1>16. QED
    BY <1>0, <1>8, <1>10, <1>14, <1>15

LEMMA OrgStep ==
    ASSUME OrgTypeOK, [Next]_vars \/ [LockingNext]_vars
    PROVE  OrgTypeOK'
  <1>1. CASE Administer
    <2>1. ASSUME NEW t \in Types, CreateType(t) PROVE OrgTypeOK'
      BY <2>1 DEF OrgTypeOK, CreateType
    <2>2. ASSUME NEW m \in Members, ViewBalances(m) PROVE OrgTypeOK'
      BY <2>2 DEF OrgTypeOK, ViewBalances, org
    <2>3. ASSUME NEW m \in Members, NEW d \in Members,
                 CreateDelegation(m, d) \/ \E on \in BOOLEAN : UpdateDelegation(m, d, on)
          PROVE  OrgTypeOK'
      <3>1. PICK x \in {"none", "active", "inactive"} :
              delegation' = [delegation EXCEPT ![<<m, d>>] = x]
        BY <2>3 DEF CreateDelegation, UpdateDelegation
      <3>2. UNCHANGED <<supervisor, types>>
        BY <2>3 DEF CreateDelegation, UpdateDelegation
      <3>3. QED
        BY <3>1, <3>2 DEF OrgTypeOK
    <2>4. ASSUME NEW m \in Members, NEW s \in Members \cup {Nobody}, SetSupervisor(m, s)
          PROVE  OrgTypeOK'
      BY <2>4 DEF OrgTypeOK, SetSupervisor
    <2>5. CASE NextDay
      BY <2>5 DEF OrgTypeOK, NextDay
    <2>6. QED
      BY <1>1, <2>1, <2>2, <2>3, <2>4, <2>5 DEF Administer
  <1>2. ASSUME NEW h \in Handlers, NEW R, Reads(h, R)
        PROVE  UNCHANGED org
    <2>1. PICK r \in R :
            \/ \E m \in Members, t \in Types, from, to \in Day : ReadForSubmit(h, r, m, t, from, to)
            \/ ReadForCancel(h, r)
            \/ \E by \in Members, d \in Decisions : ReadForDecide(h, by, r, d)
      BY <1>2, Zenon DEF Reads
    <2>2. ASSUME NEW m, NEW t, NEW from, NEW to, ReadForSubmit(h, r, m, t, from, to)
          PROVE  UNCHANGED org
      BY <2>2, Zenon DEF ReadForSubmit, Read
    <2>3. ASSUME ReadForCancel(h, r)
          PROVE  UNCHANGED org
      BY <2>3, Zenon DEF ReadForCancel, Read
    <2>4. ASSUME NEW by, NEW d, ReadForDecide(h, by, r, d)
          PROVE  UNCHANGED org
      BY <2>4, Zenon DEF ReadForDecide, Read
    <2>5. QED
      BY <2>1, <2>2, <2>3, <2>4, Zenon
  <1>3. ASSUME NEW h \in Handlers, Writes(h) \/ Die(h)
        PROVE  UNCHANGED org
    BY <1>3 DEF Writes, WriteRequest, WriteCancel, WriteDecision, Announce, Die
  <1>4. UNCHANGED org => OrgTypeOK'
    BY DEF org, OrgTypeOK
  <1>5. QED
    BY <1>1, <1>2, <1>3, <1>4 DEF Next, LockingNext, vars

THEOREM OrgStaysTyped == Spec => []OrgTypeOK
  <1>1. Init => OrgTypeOK
    BY DEF Init, OrgTypeOK
  <1>2. OrgTypeOK /\ [Next]_vars => OrgTypeOK'
    BY OrgStep
  <1>3. QED
    BY <1>1, <1>2, PTL DEF Spec

(* Whatever the org chart, circles and members on leave included, a        *)
(* request goes to the nearest supervisor who is at work or whose stand-in *)
(* decides, and to nobody when there is none (resolveApprover).            *)
THEOREM NearestSupervisorDecides == Spec => []NearestAvailableDecides
  <1>1. OrgTypeOK => NearestAvailableDecides
    BY NearestDecides, LeaveAssumption DEF NearestAvailableDecides
  <1>2. QED
    BY <1>1, OrgStaysTyped, PTL

(* Even in a circle of supervisors the approver of a request is its own    *)
(* member only as the stand-in of a supervisor on leave.                   *)
THEOREM NobodyApprovesOwnLeave == Spec => []OwnRequestNeedsDelegation
  <1>1. ASSUME OrgTypeOK, NEW m \in Members, m \in Approvers(m)
        PROVE  \E s \in Members \ {m} : OnLeave(s) /\ m \in StandIns(s)
    <2>0. PICK n \in 0..Cardinality(Members) : \E chain \in [0..n -> Members] :
             LET next == supervisor[chain[n]]
             IN  /\ ChainOf(m, n, chain)
                 /\ \/ /\ next \in {Nobody} \cup {chain[k] : k \in 0..n}
                       /\ Approvers(m) = {Nobody}
                    \/ /\ next \in Members \ {chain[k] : k \in 0..n}
                       /\ ~Passes(next)
                       /\ Approvers(m) = IF OnLeave(next) THEN StandIns(next) ELSE {next}
      BY <1>1, NearestDecides, LeaveAssumption, Zenon
    <2>1. PICK chain \in [0..n -> Members] :
            /\ ChainOf(m, n, chain)
            /\ \/ Approvers(m) = {Nobody}
               \/ /\ supervisor[chain[n]] \in Members \ {chain[k] : k \in 0..n}
                  /\ Approvers(m) = IF OnLeave(supervisor[chain[n]])
                                    THEN StandIns(supervisor[chain[n]])
                                    ELSE {supervisor[chain[n]]}
      BY <2>0
    <2>2. Approvers(m) # {Nobody}
      BY <1>1, LeaveAssumption DEF LeaveAssumption
    <2>3. chain[0] = m /\ 0 \in 0..n
      BY <2>1, MembersCounted, LeaveAssumption DEF ChainOf
    <2>4. PICK s : s = supervisor[chain[n]]
      OBVIOUS
    <2>5. s \in Members /\ s # m
      BY <2>1, <2>2, <2>3, <2>4
    <2>6. Approvers(m) = IF OnLeave(s) THEN StandIns(s) ELSE {s}
      BY <2>1, <2>2, <2>4
    <2>7. QED
      BY <1>1, <2>5, <2>6
  <1>2. OrgTypeOK => OwnRequestNeedsDelegation
    BY <1>1 DEF OwnRequestNeedsDelegation
  <1>3. QED
    BY <1>2, OrgStaysTyped, PTL

-----------------------------------------------------------------------------
(* Locked rows: what a transaction has read still holds when it writes.    *)

ReadsHold ==
    \A h \in Handlers :
        LET r == handler[h].request
        IN  /\ handler[h].pc = "submit" =>
                  request[r].status = "none" /\ handler[h].row.status = "pending"
            /\ handler[h].pc \in {"cancel", "decide"} =>
                  request[r].status = "pending" /\ handler[h].row = request[r]

OneTransaction ==
    \A h, k \in Handlers, r \in Requests :
        InTransaction(h, r) /\ InTransaction(k, r) => h = k

LockInv == TypeOK /\ ReadsHold /\ OneTransaction

LEMMA EnsuredKeeps ==
    ASSUME LeaveAssumption, balance \in [Members -> [Types -> BalanceRow]],
           NEW m \in Members, NEW T
    PROVE  /\ Ensured(m, T) \in [Members -> [Types -> BalanceRow]]
           /\ \A k \in Members, t \in Types :
                 \/ Ensured(m, T)[k][t] = balance[k][t]
                 \/ /\ ~balance[k][t].exists
                    /\ Ensured(m, T)[k][t].exists /\ Ensured(m, T)[k][t].used = 0
           /\ \A t \in T \cap Types : Ensured(m, T)[m][t].exists
  <1> DEFINE new == [t \in Types |-> [exists |-> TRUE, allocated |-> DefaultDays[t], used |-> 0]]
             kept == [t \in Types |-> IF t \in T /\ ~balance[m][t].exists
                                      THEN new[t] ELSE balance[m][t]]
  <1>1. \A t \in Types : new[t] \in BalanceRow /\ new[t].exists /\ new[t].used = 0
    BY DEF LeaveAssumption, BalanceRow
  <1>2. \A t \in Types : balance[m][t] \in BalanceRow
    OBVIOUS
  <1>3. Ensured(m, T) = [balance EXCEPT ![m] = kept]
    BY DEF Ensured
  <1>4. \A t \in Types : kept[t] = IF t \in T /\ ~balance[m][t].exists
                                   THEN new[t] ELSE balance[m][t]
    OBVIOUS
  <1> HIDE DEF new
  <1>5. kept \in [Types -> BalanceRow]
    BY <1>1, <1>2
  <1> HIDE DEF kept
  <1>6. Ensured(m, T) \in [Members -> [Types -> BalanceRow]]
    BY <1>3, <1>5
  <1>7. \A k \in Members : Ensured(m, T)[k] = IF k = m THEN kept ELSE balance[k]
    BY <1>3
  <1>8. QED
    BY <1>1, <1>4, <1>6, <1>7

LEMMA AdministerEffect ==
    ASSUME LeaveAssumption, TypeOK, Administer
    PROVE  /\ UNCHANGED <<request, booked, handler>>
           /\ \/ UNCHANGED balance
              \/ \E m \in Members, T \in SUBSET Types : balance' = Ensured(m, T)
           /\ TypeOK'
  <1>1. UNCHANGED <<request, booked, handler>>
    BY DEF Administer, CreateType, ViewBalances, CreateDelegation, UpdateDelegation,
           SetSupervisor, NextDay
  <1>2. \/ UNCHANGED balance
        \/ \E m \in Members, T \in SUBSET Types : balance' = Ensured(m, T)
    BY DEF Administer, CreateType, ViewBalances, CreateDelegation, UpdateDelegation,
           SetSupervisor, NextDay, TypeOK, OrgTypeOK
  <1>3. balance' \in [Members -> [Types -> BalanceRow]]
    BY <1>2, EnsuredKeeps DEF TypeOK
  <1>4. OrgTypeOK'
    BY OrgStep DEF TypeOK, Next
  <1>5. QED
    BY <1>1, <1>2, <1>3, <1>4 DEF TypeOK

(* What a transaction that begins has read.                                *)
Begins(h, r, pc, row, d) ==
    /\ Read(h, pc, r, row, d)
    /\ UNCHANGED balance
    /\ pc = "submit" =>
          request[r].status = "none" /\ row \in FullRow /\ row.status = "pending"
    /\ pc \in {"cancel", "decide"} => request[r].status = "pending" /\ row = request[r]

LEMMA LockRead ==
    ASSUME LockInv, NEW h \in Handlers, Reads(h, Unlocked)
    PROVE  LockInv' /\ UNCHANGED <<request, booked, balance>>
  <1>1. PICK r, pc, d, row :
          /\ r \in Unlocked /\ pc \in {"submit", "cancel", "decide"} /\ d \in Decisions
          /\ Begins(h, r, pc, row, d)
    <2>1. ASSUME NEW r \in Unlocked, NEW m \in Members, NEW t \in Types,
                 NEW from \in Day, NEW to \in Day, ReadForSubmit(h, r, m, t, from, to)
          PROVE  \E row : Begins(h, r, "submit", row, "approved")
      <3> DEFINE row == [status |-> "pending", member |-> m, type |-> t,
                         from |-> from, to |-> to]
      <3>1. row \in FullRow /\ row.status = "pending"
        BY LeaveAssumption DEF FullRow, Day, LeaveAssumption
      <3>2. /\ Read(h, "submit", r, row, "approved")
            /\ UNCHANGED balance
            /\ request[r].status = "none"
        BY <2>1 DEF ReadForSubmit
      <3>3. Begins(h, r, "submit", row, "approved")
        BY <3>1, <3>2 DEF Begins
      <3>4. QED
        BY <3>3, Zenon
    <2>2. ASSUME NEW r \in Unlocked, ReadForCancel(h, r)
          PROVE  Begins(h, r, "cancel", request[r], "approved")
      BY <2>2 DEF ReadForCancel, Begins
    <2>3. ASSUME NEW r \in Unlocked, NEW by, NEW d \in Decisions, ReadForDecide(h, by, r, d)
          PROVE  Begins(h, r, "decide", request[r], d)
      BY <2>3 DEF ReadForDecide, Begins
    <2>4. "approved" \in Decisions
      BY DEF Decisions
    <2>5. PICK r \in Unlocked :
            \/ \E m \in Members, t \in Types, from, to \in Day :
                  ReadForSubmit(h, r, m, t, from, to)
            \/ ReadForCancel(h, r)
            \/ \E by \in Members, d \in Decisions : ReadForDecide(h, by, r, d)
      BY DEF Reads
    <2>6. CASE \E m \in Members, t \in Types, from, to \in Day :
                  ReadForSubmit(h, r, m, t, from, to)
      <3>1. PICK row : Begins(h, r, "submit", row, "approved")
        BY <2>1, <2>6, Zenon
      <3>2. QED
        BY <2>4, <3>1, Zenon
    <2>7. CASE ReadForCancel(h, r)
      BY <2>2, <2>4, <2>7, Zenon
    <2>8. CASE \E by \in Members, d \in Decisions : ReadForDecide(h, by, r, d)
      BY <2>3, <2>8, Zenon
    <2>9. QED
      BY <2>5, <2>6, <2>7, <2>8, Zenon
  <1>2. r \in Requests /\ \A k \in Handlers : ~InTransaction(k, r)
    BY <1>1 DEF Unlocked
  <1>3. row \in FullRow
    BY <1>1, <1>2 DEF Begins, LockInv, TypeOK, RequestRow, NoRequest
  <1>4. PICK work : work = [pc |-> pc, request |-> r, row |-> row, decision |-> d]
    OBVIOUS
  <1>5. work \in AtWork /\ work.pc = pc /\ work.request = r /\ work.row = row
    BY <1>1, <1>2, <1>3, <1>4 DEF AtWork
  <1>6. /\ handler' = [handler EXCEPT ![h] = work]
        /\ UNCHANGED <<org, request, booked, balance>>
    BY <1>1, <1>4 DEF Begins, Read
  <1>7. /\ handler' \in [Handlers -> {Resting} \cup AtWork]
        /\ handler'[h] = work
        /\ \A k \in Handlers : k # h => handler'[k] = handler[k]
    BY <1>5, <1>6 DEF LockInv, TypeOK
  <1>8. TypeOK'
    BY <1>6, <1>7 DEF LockInv, TypeOK, OrgTypeOK, org
  <1>9. ReadsHold'
    BY <1>1, <1>5, <1>6, <1>7 DEF Begins, LockInv, ReadsHold
  <1>10. \A k \in Handlers, q \in Requests : k # h => InTransaction(k, q)' = InTransaction(k, q)
    BY <1>7 DEF InTransaction
  <1>11. \A q \in Requests : InTransaction(h, q)' => q = r
    BY <1>5, <1>7 DEF InTransaction
  <1>12. OneTransaction'
    BY <1>2, <1>10, <1>11 DEF LockInv, OneTransaction
  <1>13. QED
    BY <1>6, <1>8, <1>9, <1>12 DEF LockInv

(* A write finds the request as the transaction read it, changes only its  *)
(* row, and its decision books the days of that row.                       *)
Written(h, r, row) ==
    /\ InTransaction(h, r)
    /\ row \in FullRow
    /\ request' = [request EXCEPT ![r] = row]
    /\ booked' = IF row.status = "approved" THEN [booked EXCEPT ![r] = @ + 1] ELSE booked
    /\ \/ request[r].status = "none" /\ row.status = "pending"
       \/ /\ request[r].status = "pending" /\ row.status # "pending"
          /\ request[r] \in FullRow /\ row = [request[r] EXCEPT !.status = row.status]
    /\ balance' = CASE row.status = "pending"  -> Ensured(row.member, {row.type})
                     [] row.status = "approved" ->
                          [balance EXCEPT ![row.member][row.type].used = @ + DaysOf(row)]
                     [] OTHER                   -> balance
    /\ UNCHANGED org
    /\ handler' \in [Handlers -> {Resting} \cup AtWork]
    /\ handler'[h].pc \notin {"submit", "cancel", "decide"}
    /\ \A k \in Handlers : k # h => handler'[k] = handler[k]

LEMMA HandlerMoves ==
    ASSUME TypeOK, NEW h \in Handlers,
           \/ handler' = [handler EXCEPT ![h] = Resting]
           \/ ~Rests(h) /\ handler' = [handler EXCEPT ![h].pc = "announceSubmitted"]
           \/ ~Rests(h) /\ handler' = [handler EXCEPT ![h].pc = "announceDecided"]
    PROVE  /\ handler' \in [Handlers -> {Resting} \cup AtWork]
           /\ handler'[h].pc \notin {"submit", "cancel", "decide"}
           /\ \A k \in Handlers : k # h => handler'[k] = handler[k]
  <1>1. handler \in [Handlers -> {Resting} \cup AtWork]
    BY DEF TypeOK
  <1>2. PICK new \in {Resting} \cup AtWork :
          /\ new.pc \notin {"submit", "cancel", "decide"}
          /\ handler' = [handler EXCEPT ![h] = new]
    <2>1. CASE handler' = [handler EXCEPT ![h] = Resting]
      <3>1. Resting.pc = "rest"
        BY DEF Resting
      <3>2. QED
        BY <2>1, <3>1
    <2>2. ASSUME NEW pc \in {"announceSubmitted", "announceDecided"}, ~Rests(h),
                 handler' = [handler EXCEPT ![h].pc = pc]
          PROVE  /\ [handler[h] EXCEPT !.pc = pc] \in AtWork
                 /\ [handler[h] EXCEPT !.pc = pc].pc = pc
                 /\ handler' = [handler EXCEPT ![h] = [handler[h] EXCEPT !.pc = pc]]
      <3>1. handler[h] \in AtWork
        BY <1>1, <2>2 DEF Rests, Resting
      <3>2. QED
        BY <1>1, <2>2, <3>1 DEF AtWork
    <2>3. QED
      BY <2>1, <2>2
  <1>3. QED
    BY <1>1, <1>2

LEMMA WriteEffect ==
    ASSUME LeaveAssumption, LockInv, NEW h \in Handlers,
           WriteRequest(h) \/ WriteCancel(h) \/ WriteDecision(h)
    PROVE  \E r \in Requests : \E row : Written(h, r, row)
  <1>1. PICK r, was : r = handler[h].request /\ was = handler[h].row
    OBVIOUS
  <1>2. /\ handler[h].pc \in {"submit", "cancel", "decide"} /\ ~Rests(h)
        /\ handler[h] \in AtWork
    BY DEF LockInv, TypeOK, WriteRequest, WriteCancel, WriteDecision, Rests, Resting
  <1>3. r \in Requests /\ was \in FullRow /\ InTransaction(h, r)
    BY <1>1, <1>2 DEF AtWork, InTransaction
  <1>4. request \in [Requests -> RequestRow]
    BY DEF LockInv, TypeOK
  <1>5. /\ UNCHANGED org
        /\ handler' \in [Handlers -> {Resting} \cup AtWork]
        /\ handler'[h].pc \notin {"submit", "cancel", "decide"}
        /\ \A k \in Handlers : k # h => handler'[k] = handler[k]
    <2>1. \/ handler' = [handler EXCEPT ![h] = Resting]
          \/ handler' = [handler EXCEPT ![h].pc = "announceSubmitted"]
          \/ handler' = [handler EXCEPT ![h].pc = "announceDecided"]
      BY DEF WriteRequest, WriteCancel, WriteDecision
    <2>2. QED
      BY <1>2, <2>1, HandlerMoves DEF LockInv, WriteRequest, WriteCancel, WriteDecision
  <1>6. CASE WriteRequest(h)
    <2>1. request[r].status = "none" /\ was.status = "pending"
      BY <1>1, <1>6 DEF LockInv, ReadsHold, WriteRequest
    <2>2. /\ request' = [request EXCEPT ![r] = was] /\ UNCHANGED booked
          /\ balance' = Ensured(was.member, {was.type})
      BY <1>1, <1>6 DEF WriteRequest
    <2>3. Written(h, r, was)
      BY <1>3, <1>5, <2>1, <2>2 DEF Written
    <2>4. QED
      BY <1>3, <2>3
  <1>7. CASE WriteCancel(h)
    <2>1. request[r].status = "pending" /\ was = request[r]
      BY <1>1, <1>7 DEF LockInv, ReadsHold, WriteCancel
    <2>2. PICK row : row = [was EXCEPT !.status = "cancelled"]
      OBVIOUS
    <2>3. row \in FullRow /\ row.status = "cancelled" /\ row = [request[r] EXCEPT !.status = "cancelled"]
      BY <1>3, <2>1, <2>2 DEF FullRow
    <2>4. request' = [request EXCEPT ![r] = row] /\ UNCHANGED <<booked, balance>>
      BY <1>1, <1>3, <1>4, <1>7, <2>3 DEF WriteCancel
    <2>5. Written(h, r, row)
      BY <1>3, <1>5, <2>1, <2>3, <2>4 DEF Written
    <2>6. QED
      BY <1>3, <2>5
  <1>8. CASE WriteDecision(h)
    <2>1. request[r].status = "pending" /\ was = request[r]
      BY <1>1, <1>8 DEF LockInv, ReadsHold, WriteDecision
    <2>2. PICK d \in Decisions : d = handler[h].decision
      BY <1>2 DEF AtWork
    <2>3. PICK row : row = [was EXCEPT !.status = d]
      OBVIOUS
    <2>4. row \in FullRow /\ row.status = d /\ row = [request[r] EXCEPT !.status = d]
      BY <1>3, <2>1, <2>3 DEF FullRow, Decisions
    <2>5. request' = [request EXCEPT ![r] = row]
      BY <1>1, <1>3, <1>4, <1>8, <2>2, <2>4 DEF WriteDecision
    <2>6. /\ row.member = was.member /\ row.type = was.type /\ DaysOf(row) = DaysOf(was)
      BY <1>3, <2>3 DEF FullRow, DaysOf
    <2>7. CASE d = "approved"
      <3>1. /\ booked' = [booked EXCEPT ![r] = @ + 1]
            /\ balance' = [balance EXCEPT ![row.member][row.type].used = @ + DaysOf(row)]
        BY <1>1, <1>8, <2>2, <2>6, <2>7 DEF WriteDecision, Book
      <3>2. QED
        BY <1>3, <1>5, <2>1, <2>4, <2>5, <2>7, <3>1 DEF Written
    <2>8. CASE d = "rejected"
      <3>1. UNCHANGED <<booked, balance>>
        BY <1>8, <2>2, <2>8 DEF WriteDecision
      <3>2. QED
        BY <1>3, <1>5, <2>1, <2>4, <2>5, <2>8, <3>1 DEF Written
    <2>9. QED
      BY <2>7, <2>8 DEF Decisions
  <1>9. QED
    BY <1>6, <1>7, <1>8

LEMMA WrittenType ==
    ASSUME LeaveAssumption, TypeOK, NEW h \in Handlers, NEW r \in Requests, NEW row,
           Written(h, r, row)
    PROVE  TypeOK'
  <1>1. request' \in [Requests -> RequestRow]
    BY DEF Written, TypeOK, RequestRow
  <1>2. booked' \in [Requests -> Nat]
    BY DEF Written, TypeOK
  <1>3. balance' \in [Members -> [Types -> BalanceRow]]
    <2>1. balance \in [Members -> [Types -> BalanceRow]] /\ row \in FullRow
      BY DEF TypeOK, Written
    <2>2. row.member \in Members /\ row.type \in Types /\ DaysOf(row) \in Int
      BY <2>1 DEF FullRow, DaysOf
    <2>3. CASE row.status = "pending"
      BY <2>1, <2>2, <2>3, EnsuredKeeps DEF Written
    <2>4. CASE row.status = "approved"
      <3>1. balance' = [balance EXCEPT ![row.member][row.type].used = @ + DaysOf(row)]
        BY <2>4 DEF Written
      <3>2. PICK m \in Members, t \in Types, days \in Int :
              m = row.member /\ t = row.type /\ days = DaysOf(row)
        BY <2>2
      <3>3. PICK new : new = [balance[m][t] EXCEPT !.used = @ + days]
        OBVIOUS
      <3>4. new \in BalanceRow
        BY <2>1, <3>3 DEF BalanceRow
      <3>5. balance' = [balance EXCEPT ![m] = [balance[m] EXCEPT ![t] = new]]
        BY <2>1, <3>1, <3>2, <3>3
      <3>6. QED
        BY <2>1, <3>4, <3>5
    <2>5. CASE row.status \notin {"pending", "approved"}
      BY <2>1, <2>5 DEF Written
    <2>6. QED
      BY <2>3, <2>4, <2>5
  <1>4. OrgTypeOK'
    BY DEF Written, org, TypeOK, OrgTypeOK
  <1>5. QED
    BY <1>1, <1>2, <1>3, <1>4 DEF Written, TypeOK

(* After its write a handler has nothing left that must hold, and no other *)
(* transaction works on the row it wrote.                                  *)
LEMMA LockMove ==
    ASSUME LockInv, TypeOK', NEW h \in Handlers,
           \/ UNCHANGED request
           \/ \E r \in Requests : \E row :
                InTransaction(h, r) /\ request' = [request EXCEPT ![r] = row],
           handler'[h].pc \notin {"submit", "cancel", "decide"},
           \A k \in Handlers : k # h => handler'[k] = handler[k]
    PROVE  LockInv'
  <1>1. ASSUME NEW k \in Handlers, handler'[k].pc \in {"submit", "cancel", "decide"}
        PROVE  /\ k # h /\ handler'[k] = handler[k]
               /\ request'[handler'[k].request] = request[handler[k].request]
    <2>1. k # h /\ handler'[k] = handler[k]
      BY <1>1
    <2>2. PICK q \in Requests : q = handler[k].request
      BY <1>1, <2>1 DEF LockInv, TypeOK, AtWork, Resting
    <2>3. InTransaction(k, q)
      BY <1>1, <2>1, <2>2 DEF InTransaction
    <2>4. ~InTransaction(h, q)
      BY <2>1, <2>3 DEF LockInv, OneTransaction
    <2>5. request'[q] = request[q]
      BY <2>4 DEF LockInv, TypeOK
    <2>6. QED
      BY <2>1, <2>2, <2>5
  <1>2. ReadsHold'
    BY <1>1 DEF LockInv, ReadsHold
  <1>3. OneTransaction'
    BY DEF LockInv, OneTransaction, InTransaction
  <1>4. QED
    BY <1>2, <1>3 DEF LockInv

LEMMA RestEffect ==
    ASSUME TypeOK, NEW h \in Handlers, Announce(h) \/ Die(h)
    PROVE  /\ UNCHANGED <<org, request, booked, balance>> /\ TypeOK'
           /\ handler'[h].pc \notin {"submit", "cancel", "decide"}
           /\ \A k \in Handlers : k # h => handler'[k] = handler[k]
  <1>1. /\ UNCHANGED <<org, request, booked, balance>>
        /\ handler' = [handler EXCEPT ![h] = Resting]
    BY DEF Announce, Die
  <1>2. QED
    BY <1>1, HandlerMoves DEF TypeOK, OrgTypeOK, org

Status == [r \in Requests |-> request[r].status]

LEMMA LockStep ==
    ASSUME LeaveAssumption, LockInv, [LockingNext]_vars
    PROVE  LockInv' /\ [Once!Next]_(Once!vars)
  <1>1. CASE \E h \in Handlers : Reads(h, Unlocked)
    <2>1. LockInv' /\ UNCHANGED <<request, booked>>
      BY <1>1, LockRead
    <2>2. QED
      BY <2>1 DEF Once!vars
  <1>2. ASSUME NEW h \in Handlers, WriteRequest(h) \/ WriteCancel(h) \/ WriteDecision(h)
        PROVE  LockInv' /\ [Once!Next]_(Once!vars)
    <2>1. PICK r, row : r \in Requests /\ Written(h, r, row)
      BY <1>2, WriteEffect, Zenon
    <2>2. TypeOK'
      BY <2>1, WrittenType DEF LockInv
    <2>3. LockInv'
      BY <2>1, <2>2, LockMove DEF Written
    <2>4. PICK s \in {"pending", "approved", "rejected", "cancelled"} : s = row.status
      BY <2>1 DEF Written, FullRow
    <2>5. Status' = [Status EXCEPT ![r] = s]
      BY <2>1, <2>4 DEF Written, Status, LockInv, TypeOK
    <2>6. Status[r] = request[r].status
      BY <2>1 DEF Status
    <2>7. Once!Submit(r) \/ Once!Cancel(r) \/ Once!Approve(r) \/ Once!Reject(r)
      BY <2>1, <2>4, <2>5, <2>6 DEF Written, Status,
         Once!Submit, Once!Cancel, Once!Approve, Once!Reject
    <2>8. Once!Next
      BY <2>1, <2>7 DEF Once!Next
    <2>9. QED
      BY <2>3, <2>8, Zenon
  <1>3. ASSUME NEW h \in Handlers, Announce(h) \/ Die(h)
        PROVE  LockInv' /\ [Once!Next]_(Once!vars)
    <2>1. UNCHANGED <<request, booked>>
      BY <1>3, RestEffect DEF LockInv
    <2>2. LockInv'
      BY <1>3, <2>1, RestEffect, LockMove DEF LockInv
    <2>3. QED
      BY <2>1, <2>2 DEF Once!vars
  <1>4. CASE Administer \/ UNCHANGED vars
    <2>1. UNCHANGED <<request, booked, handler>>
      BY <1>4, AdministerEffect DEF LockInv, vars
    <2>2. TypeOK'
      BY <1>4, AdministerEffect DEF LockInv, TypeOK, OrgTypeOK, vars, org
    <2>3. QED
      BY <2>1, <2>2 DEF LockInv, ReadsHold, OneTransaction, InTransaction, Once!vars
  <1>5. QED
    BY <1>1, <1>2, <1>3, <1>4 DEF LockingNext, Writes

LEMMA InitLocked ==
    ASSUME LeaveAssumption, Init
    PROVE  LockInv
  <1>1. TypeOK
    <2>1. NoBalance \in BalanceRow
      BY DEF NoBalance, BalanceRow
    <2>2. QED
      BY <2>1 DEF Init, TypeOK, OrgTypeOK, RequestRow
  <1>2. \A h \in Handlers : handler[h].pc = "rest"
    BY DEF Init, Resting
  <1>3. QED
    BY <1>1, <1>2 DEF LockInv, ReadsHold, OneTransaction, InTransaction

(* Where the read of a transaction locks its row, any number of handlers   *)
(* implements DecideOnce: nothing is decided twice, and every approval     *)
(* books its days exactly once.                                            *)
THEOREM LockedLeaveDecidesOnce == LockingSpec => OnceSpec
  <1>1. Init => LockInv /\ Once!Init
    <2>1. Init => Once!Init
      BY DEF Init, NoRequest, Once!Init
    <2>2. QED
      BY <2>1, InitLocked, LeaveAssumption
  <1>2. LockInv /\ [LockingNext]_vars => LockInv' /\ [Once!Next]_(Once!vars)
    BY LockStep, LeaveAssumption
  <1>3. QED
    BY <1>1, <1>2, PTL DEF LockingSpec, OnceSpec, Once!Spec

-----------------------------------------------------------------------------
(* Days and balances.  A request that was submitted has its balance, which *)
(* is never made anew; one that is yet to be made has no days used.        *)

BalancesExist ==
    /\ \A r \in Requests :
          request[r].status # "none" => balance[request[r].member][request[r].type].exists
    /\ \A m \in Members, t \in Types : ~balance[m][t].exists => balance[m][t].used = 0

BookInv == LockInv /\ BalancesExist /\ UsedMatchesApproved

(* The days request row r of the rows counts for, of member m and type t.  *)
DaysFor(rows, m, t) ==
    [r \in Requests |->
        IF rows[r].status = "approved" /\ rows[r].member = m /\ rows[r].type = t
        THEN DaysOf(rows[r]) ELSE 0]

LEMMA ApprovedDaysSum ==
    ASSUME NEW m, NEW t
    PROVE  ApprovedDays(m, t) = SumOf(DaysFor(request, m, t), NumRequests)
  BY DEF ApprovedDays, DaysFor

LEMMA DaysForType ==
    ASSUME LeaveAssumption, NEW rows \in [Requests -> RequestRow], NEW m, NEW t
    PROVE  DaysFor(rows, m, t) \in [1..NumRequests -> Int]
  <1>1. \A r \in Requests : DaysOf(rows[r]) \in Int
    BY DEF RequestRow, FullRow, NoRequest, DaysOf
  <1>2. QED
    BY <1>1 DEF DaysFor, Requests

(* Rows that count for the same days as before.                            *)
LEMMA BookSame ==
    ASSUME BookInv, LockInv', UNCHANGED request,
           \/ UNCHANGED balance
           \/ \E m \in Members, T \in SUBSET Types : balance' = Ensured(m, T),
           LeaveAssumption
    PROVE  BookInv'
  <1>1. \A k \in Members, t \in Types :
           \/ balance'[k][t] = balance[k][t]
           \/ /\ ~balance[k][t].exists
              /\ balance'[k][t].exists /\ balance'[k][t].used = 0
    <2>1. CASE UNCHANGED balance
      BY <2>1
    <2>2. ASSUME NEW m \in Members, NEW T, balance' = Ensured(m, T)
          PROVE  \A k \in Members, t \in Types :
                   \/ balance'[k][t] = balance[k][t]
                   \/ /\ ~balance[k][t].exists
                      /\ balance'[k][t].exists /\ balance'[k][t].used = 0
      BY <2>2, EnsuredKeeps DEF BookInv, LockInv, TypeOK
    <2>3. QED
      BY <2>1, <2>2
  <1>2. \A k \in Members, t \in Types : balance'[k][t].used = balance[k][t].used
    BY <1>1 DEF BookInv, BalancesExist
  <1>3. \A r \in Requests : request[r].status # "none" =>
           request[r].member \in Members /\ request[r].type \in Types
    BY DEF BookInv, LockInv, TypeOK, RequestRow, NoRequest, FullRow
  <1>4. BalancesExist'
    BY <1>1, <1>3 DEF BookInv, BalancesExist
  <1>5. \A m, t : ApprovedDays(m, t)' = ApprovedDays(m, t)
    BY ApprovedDaysSum DEF ApprovedDays, DaysOf
  <1>6. UsedMatchesApproved'
    BY <1>2, <1>5 DEF BookInv, UsedMatchesApproved
  <1>7. QED
    BY <1>4, <1>6 DEF BookInv

(* The row that is written counts for nothing yet.                         *)
LEMMA DaysWritten ==
    ASSUME LeaveAssumption, TypeOK, NEW h, NEW r \in Requests, NEW row, Written(h, r, row),
           NEW m, NEW t
    PROVE  ApprovedDays(m, t)' =
              ApprovedDays(m, t)
                + (IF row.status = "approved" /\ row.member = m /\ row.type = t
                   THEN DaysOf(row) ELSE 0)
  <1>1. request \in [Requests -> RequestRow] /\ row \in FullRow
    BY DEF TypeOK, Written
  <1>2. request' = [request EXCEPT ![r] = row] /\ request[r].status # "approved"
    BY DEF Written
  <1>3. PICK days \in Int :
          days = IF row.status = "approved" /\ row.member = m /\ row.type = t
                 THEN DaysOf(row) ELSE 0
    BY <1>1 DEF FullRow, DaysOf
  <1>4. PICK old \in [1..NumRequests -> Int] : old = DaysFor(request, m, t)
    BY <1>1, DaysForType
  <1>5. r \in 1..NumRequests /\ NumRequests \in Nat
    BY DEF Requests, LeaveAssumption
  <1>6. old[r] = 0
    BY <1>2, <1>4 DEF DaysFor
  <1>7. DaysFor(request', m, t) = [old EXCEPT ![r] = days]
    BY <1>1, <1>2, <1>3, <1>4 DEF DaysFor
  <1>8. SumOf([old EXCEPT ![r] = days], NumRequests) = SumOf(old, NumRequests) - old[r] + days
    BY <1>5, SumOfOverwrite
  <1>9. ApprovedDays(m, t)' = SumOf(DaysFor(request', m, t), NumRequests)
    BY DEF ApprovedDays, DaysFor, DaysOf
  <1>10. SumOf(old, NumRequests) \in Int
    BY <1>5, PartialSumsStep DEF SumOf
  <1>11. QED
    BY <1>3, <1>4, <1>6, <1>7, <1>8, <1>9, <1>10, ApprovedDaysSum

LEMMA BookWrite ==
    ASSUME LeaveAssumption, BookInv, LockInv', NEW h \in Handlers, NEW r \in Requests, NEW row,
           Written(h, r, row)
    PROVE  BookInv'
  <1>1. /\ balance \in [Members -> [Types -> BalanceRow]]
        /\ request \in [Requests -> RequestRow] /\ row \in FullRow
    BY DEF Written, BookInv, LockInv, TypeOK
  <1>2. PICK a \in Members, b \in Types, days \in Int :
          a = row.member /\ b = row.type /\ days = DaysOf(row)
    BY <1>1 DEF FullRow, DaysOf
  <1>3. \A m, t : ApprovedDays(m, t)' =
                    ApprovedDays(m, t)
                      + (IF row.status = "approved" /\ a = m /\ b = t THEN days ELSE 0)
    BY <1>2, DaysWritten DEF BookInv, LockInv
  <1>4. \A m \in Members, t \in Types : balance[m][t].used \in Int
    BY <1>1 DEF BalanceRow
  <1>5. /\ \A m \in Members, t \in Types :
              /\ balance'[m][t].used =
                    balance[m][t].used
                      + (IF row.status = "approved" /\ a = m /\ b = t THEN days ELSE 0)
              /\ balance[m][t].exists => balance'[m][t].exists
              /\ ~balance'[m][t].exists => balance'[m][t].used = 0
        /\ balance'[a][b].exists
    <2>1. CASE row.status = "pending"
      <3>1. balance' = Ensured(a, {b})
        BY <1>2, <2>1 DEF Written
      <3>2. /\ \A m \in Members, t \in Types :
                  \/ balance'[m][t] = balance[m][t]
                  \/ /\ ~balance[m][t].exists
                     /\ balance'[m][t].exists /\ balance'[m][t].used = 0
            /\ balance'[a][b].exists
        BY <1>1, <3>1, EnsuredKeeps
      <3>3. QED
        BY <1>4, <2>1, <3>2 DEF BookInv, BalancesExist
    <2>2. ASSUME row.status # "pending"
          PROVE  balance[a][b].exists
      <3>1. request[r].status = "pending" /\ row = [request[r] EXCEPT !.status = row.status]
            /\ request[r] \in FullRow
        BY <2>2 DEF Written
      <3>2. request[r].member = a /\ request[r].type = b
        BY <1>2, <3>1 DEF FullRow
      <3>3. QED
        BY <3>1, <3>2 DEF BookInv, BalancesExist
    <2>3. CASE row.status = "approved"
      <3>1. balance' = [balance EXCEPT ![a][b].used = @ + days]
        BY <1>2, <2>3 DEF Written
      <3>2. PICK new : new = [balance[a][b] EXCEPT !.used = @ + days]
        OBVIOUS
      <3>3. new.used = balance[a][b].used + days /\ new.exists = balance[a][b].exists
        BY <1>1, <3>2 DEF BalanceRow
      <3>4. balance' = [balance EXCEPT ![a] = [balance[a] EXCEPT ![b] = new]]
        BY <1>1, <3>1, <3>2
      <3>5. \A m \in Members, t \in Types :
               balance'[m][t] = IF m = a /\ t = b THEN new ELSE balance[m][t]
        BY <1>1, <3>4
      <3>6. new.exists
        BY <2>2, <2>3, <3>3
      <3>7. QED
        BY <1>4, <2>3, <3>3, <3>5, <3>6 DEF BookInv, BalancesExist
    <2>4. CASE row.status \notin {"pending", "approved"}
      <3>1. balance' = balance
        BY <2>4 DEF Written
      <3>2. QED
        BY <1>4, <2>2, <2>4, <3>1 DEF BookInv, BalancesExist
    <2>5. QED
      BY <2>1, <2>3, <2>4
  <1>6. UsedMatchesApproved'
    BY <1>3, <1>5 DEF BookInv, UsedMatchesApproved
  <1>7. BalancesExist'
    <2>1. ASSUME NEW q \in Requests, request'[q].status # "none"
          PROVE  balance'[request'[q].member][request'[q].type].exists
      <3>1. CASE q = r
        <4>1. request'[q] = row
          BY <1>1, <3>1 DEF Written
        <4>2. QED
          BY <1>2, <1>5, <4>1
      <3>2. CASE q # r
        <4>1. request'[q] = request[q]
          BY <1>1, <3>2 DEF Written
        <4>2. request[q].member \in Members /\ request[q].type \in Types
          BY <1>1, <2>1, <4>1 DEF RequestRow, NoRequest, FullRow
        <4>3. balance[request[q].member][request[q].type].exists
          BY <2>1, <4>1 DEF BookInv, BalancesExist
        <4>4. QED
          BY <1>5, <4>1, <4>2, <4>3
      <3>3. QED
        BY <3>1, <3>2
    <2>2. QED
      BY <1>5, <2>1 DEF BalancesExist
  <1>8. QED
    BY <1>6, <1>7 DEF BookInv

LEMMA BookStep ==
    ASSUME LeaveAssumption, BookInv, [LockingNext]_vars
    PROVE  BookInv'
  <1>1. LockInv /\ LockInv'
    BY LockStep DEF BookInv
  <1>2. CASE \E h \in Handlers : Reads(h, Unlocked)
    <2>1. UNCHANGED <<request, balance>>
      BY <1>1, <1>2, LockRead
    <2>2. QED
      BY <1>1, <2>1, BookSame
  <1>3. ASSUME NEW h \in Handlers, WriteRequest(h) \/ WriteCancel(h) \/ WriteDecision(h)
        PROVE  BookInv'
    <2>1. PICK r, row : r \in Requests /\ Written(h, r, row)
      BY <1>1, <1>3, WriteEffect, Zenon
    <2>2. QED
      BY <1>1, <2>1, BookWrite
  <1>4. ASSUME NEW h \in Handlers, Announce(h) \/ Die(h)
        PROVE  BookInv'
    <2>1. UNCHANGED <<request, balance>>
      BY <1>1, <1>4, RestEffect DEF LockInv
    <2>2. QED
      BY <1>1, <2>1, BookSame
  <1>5. CASE Administer \/ UNCHANGED vars
    <2>1. /\ UNCHANGED request
          /\ \/ UNCHANGED balance
             \/ \E m \in Members, T \in SUBSET Types : balance' = Ensured(m, T)
      BY <1>1, <1>5, AdministerEffect DEF LockInv, vars
    <2>2. QED
      BY <1>1, <2>1, BookSame
  <1>6. QED
    BY <1>2, <1>3, <1>4, <1>5 DEF LockingNext, Writes

(* Where the read of a transaction locks its row, the used days of every   *)
(* balance are the days of its approved requests, however the decisions    *)
(* race and whenever the balance was made (decide's increment).            *)
THEOREM BalancesFollowApprovals == LockingSpec => []UsedMatchesApproved
  <1>1. Init => BookInv
    <2> SUFFICES ASSUME Init PROVE BookInv
      OBVIOUS
    <2>1. BalancesExist
      BY DEF Init, BalancesExist, NoRequest, NoBalance
    <2>2. ASSUME NEW m \in Members, NEW t \in Types
          PROVE  balance[m][t].used = ApprovedDays(m, t)
      <3>1. DaysFor(request, m, t) = [p \in 1..NumRequests |-> 0]
        BY DEF Init, DaysFor, NoRequest, Requests
      <3>2. SumOf(DaysFor(request, m, t), NumRequests) = 0
        BY <3>1, SumOfNothing, LeaveAssumption DEF LeaveAssumption
      <3>3. balance[m][t].used = 0
        BY DEF Init, NoBalance
      <3>4. QED
        BY <3>2, <3>3, ApprovedDaysSum
    <2>3. QED
      BY <2>1, <2>2, InitLocked, LeaveAssumption DEF BookInv, UsedMatchesApproved
  <1>2. BookInv /\ [LockingNext]_vars => BookInv'
    BY BookStep, LeaveAssumption
  <1>3. BookInv => UsedMatchesApproved
    BY DEF BookInv
  <1>4. QED
    BY <1>1, <1>2, <1>3, PTL DEF LockingSpec

=============================================================================
