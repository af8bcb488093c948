---------------------------- MODULE MonitorProofs ----------------------------
(***************************************************************************)
(* The monitor acts on a stalled node in time and restarts a node once per *)
(* check, the collator with alice, for every network and period.           *)
(***************************************************************************)
EXTENDS Monitor, TLAPS

LEMMA ConstantFacts ==
  /\ Alice \in Watched /\ Bob \in Watched /\ Alice # Bob
  /\ Watched \subseteq Nodes
  /\ Collator # NoCollator => Collator \in Watched
  /\ Collator # Alice /\ Collator # Bob
  /\ Alice # NoCollator /\ Bob # NoCollator
  /\ NoCollator \notin Watched
  /\ BiteHeight \in Height /\ Height \subseteq Nat
  /\ Period \in Nat /\ Horizon \in Nat
BY NodesAssumption, BoundsAssumption DEF Watched, Height, Period, Horizon

\* What going on after a check does to the task's variables.
LEMMA AdvanceTyped ==
  ASSUME TypeOK, NEW s \in BOOLEAN, Advance(s)
  PROVE  /\ pc' \in {"readBest", "loop"}
         /\ node' \in Watched
         /\ seen' \in Height
         /\ first' \in BOOLEAN
         /\ aliceRestarted' \in BOOLEAN
         /\ counter' \in 0 .. CheckEvery
<1>1. NextNode(node, s) \in Watched \cup {NoCollator}
  BY ConstantFacts DEF NextNode
<1>2. CASE NextNode(node, s) # NoCollator
  <2>1. /\ pc' = "readBest"
        /\ node' = NextNode(node, s)
        /\ seen' = BiteHeight
        /\ UNCHANGED <<first, counter>>
    BY <1>2 DEF Advance
  <2>2. aliceRestarted' = s
    BY <1>2, Zenon DEF Advance
  <2>3. aliceRestarted' \in BOOLEAN
    BY <2>2
  <2> QED BY <1>1, <1>2, <2>1, <2>3, ConstantFacts DEF TypeOK
<1>3. CASE NextNode(node, s) = NoCollator
  <2>1. /\ pc' = "loop"
        /\ node' = Alice
        /\ seen' = BiteHeight
        /\ counter' = 0
    BY <1>3 DEF Advance
  <2>2. aliceRestarted' = FALSE /\ first' = FALSE
    BY <1>3, Zenon DEF Advance
  <2>3. aliceRestarted' \in BOOLEAN /\ first' \in BOOLEAN
    BY <2>2, Zenon
  <2>4. counter' \in 0 .. CheckEvery
    BY <2>1, BoundsAssumption
  <2> QED BY <2>1, <2>3, <2>4, ConstantFacts
<1> QED BY <1>2, <1>3

\* A restart keeps the types and leaves the nodes outside ns as they were.
LEMMA RestartTyped ==
  ASSUME TypeOK, NEW ns \in SUBSET Nodes, RestartNodes(ns)
  PROVE  /\ best' \in [Nodes -> Height]
         /\ finalized' = finalized
         /\ alive' \in [Nodes -> BOOLEAN]
         /\ stalledFor' \in [Nodes -> 0 .. Horizon]
         /\ restarts' \in [Nodes -> Nat]
         /\ \A n \in ns : stalledFor'[n] = 0 /\ restarts'[n] = restarts[n] + 1
         /\ \A n \in Nodes \ ns : /\ best'[n] = best[n]
                                  /\ alive'[n] = alive[n]
                                  /\ stalledFor'[n] = stalledFor[n]
                                  /\ restarts'[n] = restarts[n]
<1>1. PICK ok \in SUBSET ns :
        /\ alive' = [n \in Nodes |-> n \in ok \/ alive[n]]
        /\ \E back \in [ok -> Height] :
             best' = [n \in Nodes |-> IF n \in ok THEN back[n] ELSE best[n]]
  BY DEF RestartNodes
<1>2. PICK back \in [ok -> Height] :
        best' = [n \in Nodes |-> IF n \in ok THEN back[n] ELSE best[n]]
  BY <1>1
<1>3. /\ best' \in [Nodes -> Height]
      /\ \A n \in Nodes \ ns : best'[n] = best[n]
  BY <1>2 DEF TypeOK
<1>4. alive' \in [Nodes -> BOOLEAN]
  BY <1>1
<1>5. \A n \in Nodes \ ns : alive'[n] = alive[n]
  <2> SUFFICES ASSUME NEW n \in Nodes \ ns PROVE alive'[n] = alive[n]
    OBVIOUS
  <2>1. n \notin ok /\ alive'[n] = (n \in ok \/ alive[n])
    BY <1>1
  <2>2. alive[n] \in BOOLEAN
    BY DEF TypeOK
  <2> QED BY <2>1, <2>2
<1>6. /\ stalledFor' = [n \in Nodes |-> IF n \in ns THEN 0 ELSE stalledFor[n]]
      /\ restarts' = [n \in Nodes |-> IF n \in ns THEN restarts[n] + 1 ELSE restarts[n]]
      /\ finalized' = finalized
  BY DEF RestartNodes
<1> QED
  BY <1>3, <1>4, <1>5, <1>6, ConstantFacts DEF TypeOK

LEMMA RestartedInNodes == ASSUME TypeOK PROVE RestartedWith(node) \in SUBSET Nodes
BY ConstantFacts DEF TypeOK, RestartedWith

\* The three ways a check ends.
LEMMA NoProgressTyped == ASSUME TypeOK, NoProgress PROVE TypeOK'
<1>1. CASE first
  BY <1>1 DEF NoProgress, TypeOK, nodeVars, histVars
<1>2. CASE ~first
  <2>1. /\ RestartNodes(RestartedWith(node))
        /\ Advance(aliceRestarted \/ node = Alice)
        /\ UNCHANGED <<checkpoint, stop>>
    BY <1>2 DEF NoProgress
  <2>2. (aliceRestarted \/ node = Alice) \in BOOLEAN
    OBVIOUS
  <2>3. /\ pc' \in {"readBest", "loop"}
        /\ node' \in Watched
        /\ seen' \in Height
        /\ first' \in BOOLEAN
        /\ aliceRestarted' \in BOOLEAN
        /\ counter' \in 0 .. CheckEvery
    BY <2>1, <2>2, AdvanceTyped
  <2>4. /\ best' \in [Nodes -> Height]
        /\ finalized' = finalized
        /\ alive' \in [Nodes -> BOOLEAN]
        /\ stalledFor' \in [Nodes -> 0 .. Horizon]
        /\ restarts' \in [Nodes -> Nat]
    BY <2>1, RestartedInNodes, RestartTyped
  <2> QED
    BY <2>1, <2>3, <2>4 DEF TypeOK
<1> QED BY <1>1, <1>2 DEF TypeOK

LEMMA InitTyped == Init => TypeOK
<1>1. INITIAL \in Checkpoint
  BY BoundsAssumption DEF INITIAL, Checkpoint
<1>2. Init => first \in BOOLEAN /\ aliceRestarted \in BOOLEAN /\ stop \in BOOLEAN
               /\ alive \in [Nodes -> BOOLEAN]
  BY Zenon DEF Init
<1>3. Init => counter \in 0 .. CheckEvery /\ stalledFor \in [Nodes -> 0 .. Horizon]
               /\ restarts \in [Nodes -> Nat]
  BY ConstantFacts, BoundsAssumption DEF Init
<1>4. Init => /\ best \in [Nodes -> Height] /\ finalized \in [Nodes -> Height]
              /\ checkpoint \in [Watched -> Checkpoint]
              /\ pc = "readBest" /\ node \in Watched /\ seen \in Height
  BY <1>1, ConstantFacts DEF Init
<1> QED
  BY <1>2, <1>3, <1>4 DEF TypeOK

\* Every variable keeps its type in every step.
THEOREM TypeCorrect == Spec => []TypeOK
<1>2. TypeOK /\ [Next]_vars => TypeOK'
  <2> SUFFICES ASSUME TypeOK, [Next]_vars PROVE TypeOK'
    OBVIOUS
  <2> USE DEF nodeVars, taskVars, histVars, vars
  <2>1. ASSUME NEW n \in Nodes, ImportBlock(n) PROVE TypeOK'
    BY <2>1, BoundsAssumption DEF ImportBlock, TypeOK, Height
  <2>2. ASSUME NEW n \in Nodes, FinalizeBlock(n) PROVE TypeOK'
    BY <2>2, BoundsAssumption DEF FinalizeBlock, TypeOK, Height
  <2>3. ASSUME NEW n \in Nodes, Stall(n) PROVE TypeOK'
    BY <2>3, ConstantFacts DEF Stall, TypeOK
  <2>4. CASE TouchStopFile
    BY <2>4 DEF TouchStopFile, TypeOK
  <2>5. CASE ReadBest
    BY <2>5, ConstantFacts DEF ReadBest, TypeOK
  <2>6. CASE ReadFinalized
    <3>1. CASE Progressed(seen, finalized[node], checkpoint[node])
      <4>1. [best |-> seen, finalized |-> finalized[node]] \in Checkpoint
        BY ConstantFacts, BoundsAssumption DEF TypeOK, Checkpoint, Height
      <4>2. checkpoint' \in [Watched -> Checkpoint]
        BY <2>6, <3>1, <4>1 DEF ReadFinalized, TypeOK
      <4>3. Advance(aliceRestarted) /\ UNCHANGED <<nodeVars, stop, histVars>>
        BY <2>6, <3>1 DEF ReadFinalized
      <4>4. aliceRestarted \in BOOLEAN
        BY DEF TypeOK
      <4> QED
        BY <4>2, <4>3, <4>4, AdvanceTyped DEF TypeOK
    <3>2. CASE ~Progressed(seen, finalized[node], checkpoint[node])
      BY <2>6, <3>2, NoProgressTyped DEF ReadFinalized
    <3> QED BY <3>1, <3>2
  <2>7. CASE ReadFails
    BY <2>7, NoProgressTyped DEF ReadFails
  <2>8. CASE LoopEnds
    BY <2>8 DEF LoopEnds, TypeOK
  <2>9. CASE Sleep
    BY <2>9 DEF Sleep, TypeOK
  <2>10. CASE Wake
    BY <2>10, ConstantFacts, BoundsAssumption DEF Wake, Due, TypeOK
  <2>11. CASE UNCHANGED vars
    BY <2>11 DEF TypeOK
  <2> QED
    BY <2>1, <2>2, <2>3, <2>4, <2>5, <2>6, <2>7, <2>8, <2>9, <2>10, <2>11
    DEF Next, Task, Environment, Done
<1> QED BY InitTyped, <1>2, PTL DEF Spec

-----------------------------------------------------------------------------
(***************************************************************************)
(* The inductive invariant behind StallCaughtInTwoPeriods.  The bound of   *)
(* the property is not inductive: it says nothing of the middle of a       *)
(* check, nor of what a node did since its last checkpoint.  Age is how    *)
(* many minutes ago a node was last judged; a dead node whose heights are  *)
(* past its checkpoint was alive since then.                               *)
(***************************************************************************)
Checking == pc \in {"readBest", "readFinalized"}
Waiting  == pc \in {"loop", "asleep"}

\* The running check is done with n.
Judged(n) ==
  \/ n = Alice /\ node # Alice
  \/ n = Bob /\ node = Collator
  \/ n = Collator /\ aliceRestarted

Age(n) == IF Waiting THEN counter
          ELSE IF first \/ Judged(n) THEN 0
          ELSE Period

Ahead(n) == Progressed(best[n], finalized[n], checkpoint[n])

TaskInv ==
  /\ pc = "readFinalized" => seen <= best[node]
  /\ Waiting => ~first /\ ~aliceRestarted /\ node = Alice
  /\ Checking /\ node \in {Alice, Collator} => ~aliceRestarted
  /\ Checking /\ ~first => counter = CheckEvery
  /\ first => counter = 0 /\ \A n \in Nodes : stalledFor[n] = 0

StallInv ==
  Checking \/ Waiting =>
    \A n \in Watched : ~alive[n] => /\ stalledFor[n] <= Period + Age(n)
                                    /\ Ahead(n) => stalledFor[n] <= Age(n)

RestartInv ==
  /\ \A n \in Nodes : restarts[n] <= 1
  /\ Checking => \A n \in Nodes : first \/ ~Judged(n) => restarts[n] = 0
  /\ Collator # NoCollator => restarts[Alice] <= restarts[Collator]

IInv == TypeOK /\ TaskInv /\ StallInv /\ RestartInv

LEMMA AgeTyped ==
  ASSUME NEW n \in Nodes
  PROVE  /\ TypeOK => Age(n) \in Nat
         /\ TypeOK' => Age(n)' \in Nat
BY ConstantFacts, BoundsAssumption DEF TypeOK, Age

\* Where the task goes after node was judged, alice restarted so far iff s.
LEMMA NextStop ==
  ASSUME TypeOK, TaskInv, Checking, NEW s \in BOOLEAN, Advance(s),
         aliceRestarted => s, node = Collator => ~s
  PROVE  \/ /\ node = Alice /\ node' = Bob
            /\ pc' = "readBest" /\ (aliceRestarted' <=> s)
            /\ first' = first /\ counter' = counter
         \/ /\ node = Bob /\ ~s /\ Collator # NoCollator /\ node' = Collator
            /\ pc' = "readBest" /\ ~aliceRestarted'
            /\ first' = first /\ counter' = counter
         \/ /\ node = Collator \/ (node = Bob /\ (s \/ Collator = NoCollator))
            /\ pc' = "loop" /\ node' = Alice /\ ~aliceRestarted'
            /\ ~first' /\ counter' = 0
<1>1. CASE node = Alice
  <2>1. NextNode(node, s) = Bob /\ Bob # NoCollator
    BY <1>1, ConstantFacts DEF NextNode
  <2>2. /\ node' = Bob /\ pc' = "readBest" /\ counter' = counter
        /\ aliceRestarted' = s /\ first' = first
    BY <2>1, Zenon DEF Advance
  <2> QED BY <1>1, <2>2, Zenon
<1>2. CASE node = Bob /\ ~s /\ Collator # NoCollator
  <2>1. NextNode(node, s) = Collator
    BY <1>2, ConstantFacts DEF NextNode
  <2>2. /\ node' = Collator /\ pc' = "readBest" /\ counter' = counter
        /\ aliceRestarted' = s /\ first' = first
    BY <1>2, <2>1, Zenon DEF Advance
  <2> QED BY <1>2, <2>2, Zenon
<1>3. CASE node = Collator \/ (node = Bob /\ (s \/ Collator = NoCollator))
  <2>1. NextNode(node, s) = NoCollator
    BY <1>3, ConstantFacts DEF NextNode, TypeOK
  <2>2. /\ node' = Alice /\ pc' = "loop" /\ counter' = 0
        /\ aliceRestarted' = FALSE /\ first' = FALSE
    BY <2>1, Zenon DEF Advance
  <2> QED BY <1>3, <2>2, Zenon
<1>4. node \in {Alice, Bob, Collator}
  BY DEF TypeOK, Watched
<1> QED BY <1>1, <1>2, <1>3, <1>4

\* A node that is still to be judged stays so, and its age is unchanged; only
\* the node just checked, and the collator restarted with alice, are done.
LEMMA JudgedAfter ==
  ASSUME TypeOK, TaskInv, Checking, NEW s \in BOOLEAN, Advance(s),
         aliceRestarted => s, node = Collator => ~s,
         NEW n \in Nodes, n # node, ~Judged(n), ~(n = Collator /\ s)
  PROVE  /\ n \in Watched /\ ~first => Checking' /\ ~Judged(n)' /\ Age(n)' = Age(n)
         /\ first => Age(n) = 0
<1> USE DEF Checking, Waiting, Judged
<1>1. first => Age(n) = 0
  BY Zenon DEF Age
<1>2. ASSUME n \in Watched, ~first PROVE Checking' /\ ~Judged(n)' /\ Age(n)' = Age(n)
  <2>1. n \in {Alice, Bob, Collator} /\ node \in {Alice, Bob, Collator}
    BY <1>2 DEF TypeOK, Watched
  <2>2. Checking' /\ ~first' /\ ~Judged(n)'
    BY <1>2, <2>1, NextStop, ConstantFacts
  <2>3. Age(n) = Period
    BY <1>2, ConstantFacts DEF Age
  <2>4. Age(n)' = Period
    BY <2>2, ConstantFacts DEF Age
  <2> QED BY <2>2, <2>3, <2>4
<1> QED BY <1>1, <1>2

LEMMA TaskAfter ==
  ASSUME TypeOK, TaskInv, Checking, NEW s \in BOOLEAN, Advance(s),
         aliceRestarted => s, node = Collator => ~s
  PROVE  /\ pc' # "readFinalized"
         /\ Waiting' => ~first' /\ ~aliceRestarted' /\ node' = Alice
         /\ Checking' /\ node' \in {Alice, Collator} => ~aliceRestarted'
         /\ Checking' /\ ~first' => counter' = CheckEvery
         /\ first' => first /\ counter' = 0
BY NextStop, ConstantFacts DEF Checking, Waiting, TaskInv

-----------------------------------------------------------------------------
(* One lemma per way a check ends, each for the three parts of IInv.       *)

LEMMA GoodCheck ==
  ASSUME IInv, TypeOK', pc = "readFinalized", ReadFinalized,
         Progressed(seen, finalized[node], checkpoint[node])
  PROVE  TaskInv' /\ StallInv' /\ RestartInv'
<1> DEFINE s == aliceRestarted
<1> USE DEF Checking, Waiting
<1>1. /\ Advance(s) /\ UNCHANGED <<best, finalized, alive, stop, stalledFor, restarts>>
      /\ checkpoint' = [checkpoint EXCEPT ![node] =
                          [best |-> seen, finalized |-> finalized[node]]]
  BY DEF ReadFinalized, nodeVars, histVars
<1>2. TypeOK /\ TaskInv /\ StallInv /\ RestartInv /\ Checking
  BY DEF IInv
<1>3. s \in BOOLEAN /\ (node = Collator => ~s) /\ node \in Watched
  BY <1>2 DEF TypeOK, TaskInv
<1>4. TaskInv'
  <2>1. first' => counter' = 0 /\ first
    BY <1>1, <1>2, <1>3, TaskAfter
  <2>2. /\ pc' # "readFinalized"
        /\ Waiting' => ~first' /\ ~aliceRestarted' /\ node' = Alice
        /\ Checking' /\ node' \in {Alice, Collator} => ~aliceRestarted'
        /\ Checking' /\ ~first' => counter' = CheckEvery
    BY <1>1, <1>2, <1>3, TaskAfter
  <2>3. first' => \A n \in Nodes : stalledFor'[n] = 0
    BY <1>1, <1>2, <2>1 DEF TaskInv
  <2> QED BY <2>1, <2>2, <2>3 DEF TaskInv
<1>5. StallInv'
  <2> SUFFICES ASSUME NEW n \in Watched, ~alive[n]
               PROVE  /\ stalledFor[n] <= Period + Age(n)'
                      /\ Ahead(n)' => stalledFor[n] <= Age(n)'
    BY <1>1 DEF StallInv
  <2>1. /\ stalledFor[n] <= Period + Age(n)
        /\ Ahead(n) => stalledFor[n] <= Age(n)
    BY <1>2 DEF StallInv
  <2>2. Age(n)' \in Nat /\ Age(n) \in Nat /\ Period \in Nat /\ stalledFor[n] \in Nat
    <3>1. n \in Nodes
      BY ConstantFacts
    <3>2. stalledFor[n] \in Nat /\ Period \in Nat
      BY <1>2, <3>1, ConstantFacts DEF TypeOK
    <3> QED BY <1>2, <3>1, <3>2, AgeTyped
  <2>3. CASE n = node
    <3>1. Ahead(n)
      BY <1>2, <2>3, ConstantFacts, BoundsAssumption
      DEF Ahead, Progressed, TaskInv, TypeOK, Height, Checkpoint
    <3>2. ~Ahead(n)'
      BY <1>1, <1>2, <2>3, ConstantFacts DEF Ahead, Progressed, TypeOK, Height
    <3>3. Age(n) <= Period
      BY <1>2, <2>2, ConstantFacts DEF Age
    <3> QED BY <2>1, <2>2, <3>1, <3>2, <3>3
  <2>4. CASE n # node
    <3>1. Ahead(n)' <=> Ahead(n)
      BY <1>1, <1>2, <2>4, Zenon DEF Ahead, TypeOK
    <3>2. CASE Judged(n)
      <4>1. Age(n) = 0
        BY <3>2, <1>2, Zenon DEF Age
      <4> QED BY <2>1, <2>2, <3>1, <4>1
    <3>3. CASE ~Judged(n) /\ ~first
      <4>1. ~(n = Collator /\ s)
        BY <3>3, Zenon DEF Judged
      <4>2. Age(n)' = Age(n)
        BY <1>1, <1>2, <1>3, <2>4, <3>3, <4>1, JudgedAfter, ConstantFacts
      <4> QED BY <2>1, <3>1, <4>2
    <3>4. CASE first
      <4>1. stalledFor[n] = 0
        BY <1>2, <3>4, ConstantFacts DEF TaskInv
      <4> QED BY <2>2, <4>1
    <3> QED BY <3>2, <3>3, <3>4
  <2> QED BY <2>3, <2>4
<1>6. RestartInv'
  <2>1. ASSUME Checking', NEW n \in Nodes, first' \/ ~Judged(n)' PROVE restarts[n] = 0
    <3>1. CASE first
      BY <1>2, <3>1 DEF RestartInv
    <3>2. CASE ~first
      <4>1. ~first'
        BY <1>1, <1>2, <1>3, <3>2, TaskAfter
      <4>2. ~Judged(n)
        BY <1>1, <1>2, <1>3, <2>1, <4>1, NextStop, ConstantFacts DEF Judged, TaskInv
      <4> QED BY <1>2, <4>2 DEF RestartInv
    <3> QED BY <3>1, <3>2
  <2> QED BY <1>1, <1>2, <2>1 DEF RestartInv
<1> QED BY <1>4, <1>5, <1>6

LEMMA FailedCheck ==
  ASSUME IInv, TypeOK', Checking, NoProgress
  PROVE  TaskInv' /\ StallInv' /\ RestartInv'
<1> DEFINE s == aliceRestarted \/ node = Alice
           ns == RestartedWith(node)
<1> USE DEF Checking, Waiting
<1>1. TypeOK /\ TaskInv /\ StallInv /\ RestartInv
  BY DEF IInv
<1>2. CASE first
  <2>1. pc' = "panicked" /\ UNCHANGED <<first, counter, stalledFor, restarts>>
    BY <1>2 DEF NoProgress, histVars
  <2> QED BY <1>1, <1>2, <2>1 DEF TaskInv, StallInv, RestartInv
<1>3. CASE ~first
  <2>1. Advance(s) /\ RestartNodes(ns) /\ UNCHANGED checkpoint
    BY <1>3 DEF NoProgress
  <2>2. /\ s \in BOOLEAN /\ (aliceRestarted => s) /\ (node = Collator => ~s)
        /\ node \in Watched /\ ns \in SUBSET Nodes
    BY <1>1, RestartedInNodes, ConstantFacts DEF TypeOK, TaskInv
  <2>3. /\ \A n \in ns : stalledFor'[n] = 0 /\ restarts'[n] = restarts[n] + 1
        /\ \A n \in Nodes \ ns : /\ best'[n] = best[n]
                                 /\ alive'[n] = alive[n]
                                 /\ stalledFor'[n] = stalledFor[n]
                                 /\ restarts'[n] = restarts[n]
        /\ finalized' = finalized
    BY <1>1, <2>1, <2>2, RestartTyped
  <2>4. node \in ns /\ (Collator \in Watched /\ node = Alice => Collator \in ns)
    BY ConstantFacts DEF RestartedWith
  <2>5. \A n \in ns : ~Judged(n)
    BY <1>1, <2>2, ConstantFacts DEF RestartedWith, Judged, TaskInv, Watched
  <2>6. ~first'
    BY <1>1, <1>3, <2>1, <2>2, TaskAfter
  <2>7. TaskInv'
    <3>1. /\ pc' # "readFinalized"
          /\ Waiting' => ~first' /\ ~aliceRestarted' /\ node' = Alice
          /\ Checking' /\ node' \in {Alice, Collator} => ~aliceRestarted'
          /\ Checking' /\ ~first' => counter' = CheckEvery
      BY <1>1, <2>1, <2>2, TaskAfter
    <3> QED BY <2>6, <3>1 DEF TaskInv
  <2>8. StallInv'
    <3> SUFFICES ASSUME NEW n \in Watched, ~alive'[n]
                 PROVE  /\ stalledFor'[n] <= Period + Age(n)'
                        /\ Ahead(n)' => stalledFor'[n] <= Age(n)'
      BY DEF StallInv
    <3>1. n \in Nodes
      BY ConstantFacts
    <3>2. Age(n)' \in Nat /\ Age(n) \in Nat /\ Period \in Nat /\ stalledFor[n] \in Nat
      <4>1. stalledFor[n] \in Nat /\ Period \in Nat
        BY <1>1, <3>1, ConstantFacts DEF TypeOK
      <4> QED BY <1>1, <3>1, <4>1, AgeTyped
    <3>3. CASE n \in ns
      BY <2>3, <3>2, <3>3
    <3>4. CASE n \notin ns
      <4>1. ~alive[n] /\ stalledFor'[n] = stalledFor[n] /\ best'[n] = best[n]
        BY <2>3, <3>1, <3>4, Zenon
      <4>2. Ahead(n)' <=> Ahead(n)
        BY <2>1, <2>3, <4>1, Zenon DEF Ahead
      <4>3. /\ stalledFor[n] <= Period + Age(n)
            /\ Ahead(n) => stalledFor[n] <= Age(n)
        BY <1>1, <4>1 DEF StallInv
      <4>4. CASE Judged(n)
        <5>1. Age(n) = 0
          BY <4>4, Zenon DEF Age
        <5> QED BY <3>2, <4>1, <4>2, <4>3, <5>1
      <4>5. CASE ~Judged(n)
        <5>1. n # node /\ ~(n = Collator /\ s)
          BY <2>4, <3>4, <4>5, Zenon DEF Judged
        <5>2. Age(n)' = Age(n)
          BY <1>1, <1>3, <2>1, <2>2, <3>1, <4>5, <5>1, JudgedAfter
        <5> QED BY <4>1, <4>2, <4>3, <5>2
      <4> QED BY <4>4, <4>5
    <3> QED BY <3>3, <3>4
  <2>9. RestartInv'
    <3>1. \A n \in ns : restarts[n] = 0
      BY <1>1, <2>2, <2>5 DEF RestartInv
    <3>2. \A n \in Nodes : restarts'[n] <= 1
      BY <1>1, <2>2, <2>3, <3>1 DEF RestartInv
    <3>3. ASSUME Checking', NEW n \in Nodes, ~Judged(n)' PROVE restarts'[n] = 0
      <4>1. n \notin ns /\ ~Judged(n)
        BY <1>1, <2>1, <2>2, <3>3, NextStop, ConstantFacts
        DEF Judged, TaskInv, RestartedWith
      <4> QED BY <1>1, <2>3, <4>1 DEF RestartInv
    <3>4. Collator # NoCollator => restarts'[Alice] <= restarts'[Collator]
      <4> SUFFICES ASSUME Collator # NoCollator
                   PROVE  restarts'[Alice] <= restarts'[Collator]
        OBVIOUS
      <4>1. /\ restarts[Alice] <= restarts[Collator]
            /\ Alice \in Nodes /\ Collator \in Nodes
            /\ restarts[Alice] \in Nat /\ restarts[Collator] \in Nat
        BY <1>1, ConstantFacts DEF RestartInv, TypeOK
      <4>2. Alice \in ns => Collator \in ns
        BY ConstantFacts DEF RestartedWith
      <4> QED BY <2>3, <4>1, <4>2
    <3> QED BY <2>6, <3>2, <3>3, <3>4 DEF RestartInv
  <2> QED BY <2>7, <2>8, <2>9
<1> QED BY <1>2, <1>3 DEF IInv, TypeOK

-----------------------------------------------------------------------------
\* IInv holds initially and every step keeps it.
THEOREM Inductive == Spec => []IInv
<1> USE DEF Checking, Waiting
<1>1. Init => IInv
  <2> SUFFICES ASSUME Init, TypeOK PROVE TaskInv /\ StallInv /\ RestartInv
    <3>1. Init => TypeOK
      BY InitTyped
    <3> QED BY <3>1 DEF IInv
  <2>1. TaskInv /\ RestartInv
    BY ConstantFacts DEF Init, TaskInv, RestartInv
  <2>2. StallInv
    <3>1. \A n \in Watched : alive[n]
      BY ConstantFacts, Zenon DEF Init
    <3> QED BY <3>1, Zenon DEF StallInv
  <2> QED BY <2>1, <2>2
<1>2. IInv /\ [Next]_vars /\ TypeOK' => IInv'
  <2> SUFFICES ASSUME IInv, [Next]_vars, TypeOK' PROVE TaskInv' /\ StallInv' /\ RestartInv'
    BY DEF IInv
  <2>0. TypeOK /\ TaskInv /\ StallInv /\ RestartInv
    BY DEF IInv
  <2>1. CASE \E n \in Nodes : ImportBlock(n) \/ FinalizeBlock(n) \/ Stall(n)
    <3> PICK n \in Nodes : ImportBlock(n) \/ FinalizeBlock(n) \/ Stall(n)
      BY <2>1
    <3>1. UNCHANGED <<checkpoint, pc, node, seen, first, aliceRestarted, counter, restarts>>
      BY DEF ImportBlock, FinalizeBlock, Stall, taskVars, histVars
    <3>2. \A m \in Nodes :
            /\ best'[m] >= best[m]
            /\ stalledFor'[m] = stalledFor[m] \/ stalledFor'[m] = 0
            /\ ~alive'[m] => /\ best'[m] = best[m] /\ finalized'[m] = finalized[m]
                             /\ ~alive[m] \/ stalledFor'[m] = 0
      <4>1. CASE ImportBlock(n)
        <5>1. /\ alive[n] /\ alive' = alive /\ finalized' = finalized /\ stalledFor' = stalledFor
              /\ best' = [best EXCEPT ![n] = @ + 1]
          BY <4>1 DEF ImportBlock, histVars
        <5>2. \A m \in Nodes : best[m] \in Nat
          BY <2>0, ConstantFacts DEF TypeOK
        <5>3. \A m \in Nodes : ~alive[m] => m # n
          BY <5>1, Zenon
        <5> QED BY <2>0, <5>1, <5>2, <5>3 DEF TypeOK
      <4>2. CASE FinalizeBlock(n)
        <5>1. /\ alive[n] /\ alive' = alive /\ best' = best /\ stalledFor' = stalledFor
              /\ finalized' = [finalized EXCEPT ![n] = @ + 1]
          BY <4>2 DEF FinalizeBlock, histVars
        <5>2. \A m \in Nodes : best[m] \in Nat
          BY <2>0, ConstantFacts DEF TypeOK
        <5>3. \A m \in Nodes : ~alive[m] => m # n
          BY <5>1, Zenon
        <5> QED BY <2>0, <5>1, <5>2, <5>3 DEF TypeOK
      <4>3. CASE Stall(n)
        <5>1. /\ best' = best /\ finalized' = finalized
              /\ stalledFor' = [stalledFor EXCEPT ![n] = 0]
              /\ alive' = [alive EXCEPT ![n] = FALSE]
          BY <4>3 DEF Stall
        <5>2. \A m \in Nodes : best[m] \in Nat
          BY <2>0, ConstantFacts DEF TypeOK
        <5>3. \A m \in Nodes : m # n => alive'[m] = alive[m]
          BY <2>0, <5>1, Zenon DEF TypeOK
        <5> QED BY <2>0, <5>1, <5>2, <5>3 DEF TypeOK
      <4> QED BY <4>1, <4>2, <4>3
    <3>3. TaskInv'
      BY <2>0, <3>1, <3>2, ConstantFacts DEF TaskInv, TypeOK, Height
    <3>4. \A m \in Watched : Age(m)' = Age(m) /\ Age(m) \in Nat
      BY <2>0, <3>1, AgeTyped, ConstantFacts DEF Age, Judged
    <3>5. StallInv'
      BY <2>0, <3>1, <3>2, <3>4, ConstantFacts DEF StallInv, Ahead, Progressed, TypeOK
    <3>6. RestartInv'
      BY <2>0, <3>1 DEF RestartInv, Judged
    <3> QED BY <3>3, <3>5, <3>6
  <2>2. CASE TouchStopFile \/ UNCHANGED vars
    <3>1. UNCHANGED <<nodeVars, taskVars, histVars>>
      BY <2>2 DEF TouchStopFile, vars
    <3> QED
      BY <2>0, <3>1
      DEF nodeVars, taskVars, histVars, TaskInv, StallInv, RestartInv, Age, Judged, Ahead
  <2>3. CASE ReadBest
    <3>1. /\ pc = "readBest" /\ pc' = "readFinalized" /\ seen' = best[node]
          /\ UNCHANGED <<checkpoint, node, first, aliceRestarted, counter, nodeVars, histVars>>
      BY <2>3 DEF ReadBest
    <3>2. TaskInv'
      BY <2>0, <3>1, ConstantFacts DEF TaskInv, TypeOK, Height, nodeVars, histVars
    <3>3. StallInv' /\ RestartInv'
      BY <2>0, <3>1
      DEF StallInv, RestartInv, Age, Judged, Ahead, nodeVars, histVars
    <3> QED BY <3>2, <3>3
  <2>4. CASE ReadFinalized
    <3>1. CASE Progressed(seen, finalized[node], checkpoint[node])
      BY <2>4, <3>1, GoodCheck DEF ReadFinalized
    <3>2. CASE ~Progressed(seen, finalized[node], checkpoint[node])
      BY <2>4, <3>2, FailedCheck DEF ReadFinalized
    <3> QED BY <3>1, <3>2
  <2>5. CASE ReadFails
    BY <2>5, FailedCheck DEF ReadFails
  <2>6. CASE LoopEnds \/ Sleep
    <3>1. /\ pc = "loop" /\ pc' \in {"stopped", "asleep"}
          /\ UNCHANGED <<checkpoint, node, seen, first, aliceRestarted, counter, nodeVars, histVars>>
      BY <2>6 DEF LoopEnds, Sleep
    <3> QED
      BY <2>0, <3>1
      DEF TaskInv, StallInv, RestartInv, Age, Judged, Ahead, nodeVars, histVars
  <2>7. CASE Wake
    <3>1. /\ pc = "asleep"
          /\ UNCHANGED <<checkpoint, node, seen, first, aliceRestarted, best, finalized, alive>>
          /\ \A n \in Nodes : stalledFor'[n] <= stalledFor[n] + 1
      BY <2>0, <2>7, ConstantFacts DEF Wake, nodeVars, TypeOK
    <3>2. ~first /\ ~aliceRestarted /\ node = Alice
      BY <2>0, <3>1 DEF TaskInv
    <3>3. CASE Due(counter)
      <4>1. /\ pc' = "readBest" /\ counter' = counter /\ counter = CheckEvery
            /\ restarts' = [n \in Nodes |-> 0]
        BY <2>0, <2>7, <3>3, BoundsAssumption DEF Wake, Due, TypeOK
      <4>2. TaskInv' /\ RestartInv'
        BY <3>1, <3>2, <4>1, ConstantFacts DEF TaskInv, RestartInv
      <4>3. \A n \in Watched : Age(n) = CheckEvery /\ Age(n)' = Period
        BY <3>1, <3>2, <4>1, ConstantFacts DEF Age, Judged
      <4>4. StallInv'
        BY <2>0, <3>1, <4>1, <4>3, ConstantFacts, BoundsAssumption
        DEF StallInv, Ahead, Period, TypeOK
      <4> QED BY <4>2, <4>4
    <3>4. CASE ~Due(counter)
      <4>1. pc' = "loop" /\ counter' = counter + 1 /\ restarts' = restarts
        BY <2>7, <3>4 DEF Wake
      <4>2. TaskInv' /\ RestartInv'
        BY <2>0, <3>1, <3>2, <4>1 DEF TaskInv, RestartInv
      <4>3. \A n \in Watched : Age(n) = counter /\ Age(n)' = counter + 1
        BY <3>1, <4>1 DEF Age
      <4>4. StallInv'
        BY <2>0, <3>1, <4>1, <4>3, ConstantFacts DEF StallInv, Ahead, TypeOK
      <4> QED BY <4>2, <4>4
    <3> QED BY <3>3, <3>4
  <2> QED
    BY <2>1, <2>2, <2>3, <2>4, <2>5, <2>6, <2>7 DEF Next, Task, Environment, Done
<1> QED BY <1>1, <1>2, TypeCorrect, PTL DEF Spec

\* A watched node that stalls is acted on within two periods, in every network
\* and for every period: at the latest by the second check after its last block.
THEOREM StallsAreCaught == Spec => []StallCaughtInTwoPeriods
<1>1. IInv => StallCaughtInTwoPeriods
  <2> SUFFICES ASSUME IInv, Waiting, NEW n \in Watched, ~alive[n]
               PROVE  stalledFor[n] <= 2 * Period
    BY DEF StallCaughtInTwoPeriods, Waiting
  <2>1. stalledFor[n] <= Period + Age(n)
    BY DEF IInv, StallInv
  <2>2. Age(n) = counter
    BY DEF Age
  <2>3. counter <= Period /\ counter \in Nat /\ Period \in Nat /\ stalledFor[n] \in Nat
    BY ConstantFacts, BoundsAssumption DEF IInv, TypeOK, Period
  <2> QED BY <2>1, <2>2, <2>3
<1> QED BY <1>1, Inductive, PTL

\* No check makes two restart calls for one node.
THEOREM RestartsOncePerCheck == Spec => []OneRestartPerCheck
<1>1. IInv => OneRestartPerCheck
  BY DEF IInv, RestartInv, OneRestartPerCheck
<1> QED BY <1>1, Inductive, PTL

\* Alice is never restarted by a check without the collator.
THEOREM CollatorRestartsWithAlice == Spec => []CollatorFollowsAlice
<1>1. IInv => CollatorFollowsAlice
  BY DEF IInv, RestartInv, CollatorFollowsAlice
<1> QED BY <1>1, Inductive, PTL

=============================================================================
