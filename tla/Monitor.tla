------------------------------- MODULE Monitor -------------------------------
(***************************************************************************)
(* The progress monitor of a spawned network: monit.rs, started by         *)
(* post_spawn_loop (network.rs) with the stop file of the base path.       *)
(*                                                                         *)
(* The monitor is one task.  Once a minute it looks for the stop file and, *)
(* when its counter has run up, it reads two metrics of each node it       *)
(* watches (two awaited requests, so blocks may arrive between them) and   *)
(* restarts a node whose heights did not pass its last checkpoint.  The    *)
(* nodes and the user run concurrently with it.                            *)
(*                                                                         *)
(* Outside src/, modelled from the calls: the nodes themselves (a node is  *)
(* "alive" when it imports blocks; heights only move forward while it runs *)
(* and a restarted node may come back below its best block, never below    *)
(* what it finalized).  The task started without a stop file (a loop with  *)
(* a ten minute sleep, which no caller asks for) is left out.              *)
(***************************************************************************)
EXTENDS Integers

CONSTANTS
  Nodes,        \* every node of the spawned network
  Alice, Bob,   \* the two validators post_spawn_loop hands to the monitor
  Collator,     \* the first collator of the first parachain, or NoCollator
  NoCollator,   \* there is no parachain
  CheckEvery,   \* the counter value at which a check is made (15)
  BiteHeight,   \* the block the fork starts at: no node reports less
  MaxHeight     \* bound: the highest block a node reaches in the model

ASSUME NodesAssumption ==
  /\ Alice \in Nodes
  /\ Bob \in Nodes \ {Alice}
  /\ NoCollator \notin Nodes
  /\ Collator \in (Nodes \ {Alice, Bob}) \cup {NoCollator}

ASSUME BoundsAssumption ==
  /\ CheckEvery \in Nat \ {0}
  /\ BiteHeight \in Nat \ {0}      \* a live chain is past its genesis
  /\ MaxHeight \in Nat /\ BiteHeight <= MaxHeight

VARIABLES
  best, finalized,  \* per node, the block_height metrics it reports
  alive,            \* per node, does it import and finalize blocks?
  checkpoint,       \* per watched node, the heights of its last good check
  pc,               \* where the monitor's task is
  node,             \* the node being checked
  seen,             \* the best height read, while the finalized one is awaited
  first,            \* the checks before the loop, which must succeed
  aliceRestarted,   \* alice_was_restarted of the running check
  counter,          \* minutes the loop has counted
  stop,             \* the stop file exists
  stalledFor,       \* history: whole minutes since a dead node stalled or was
                    \*   last acted on
  restarts          \* history: per node, restart calls of the latest check

nodeVars == <<best, finalized, alive>>
taskVars == <<checkpoint, pc, node, seen, first, aliceRestarted, counter>>
histVars == <<stalledFor, restarts>>
vars == <<nodeVars, taskVars, stop, histVars>>

Watched == {Alice, Bob, Collator} \ {NoCollator}

\* A minute of sleep is counted before the counter is compared, so two checks
\* are CheckEvery + 1 minutes apart.
Period == CheckEvery + 1

\* Bound: stalledFor is not counted past this many minutes.
Horizon == 2 * Period + 1

Height == BiteHeight .. MaxHeight
Checkpoint == [best : 0 .. MaxHeight, finalized : -1 .. MaxHeight]
INITIAL == [best |-> 0, finalized |-> -1]

Init ==
  /\ best = [n \in Nodes |-> BiteHeight]
  /\ finalized = [n \in Nodes |-> BiteHeight]
  /\ alive = [n \in Nodes |-> TRUE]
  /\ checkpoint = [n \in Watched |-> INITIAL]
  /\ pc = "readBest" /\ node = Alice
  /\ seen = BiteHeight
  /\ first = TRUE
  /\ aliceRestarted = FALSE
  /\ counter = 0
  /\ stop \in BOOLEAN      \* a stop file of an earlier run is still there
  /\ stalledFor = [n \in Nodes |-> 0]
  /\ restarts = [n \in Nodes |-> 0]

-----------------------------------------------------------------------------
(* The nodes and the user.                                                 *)

ImportBlock(n) ==
  /\ alive[n] /\ best[n] < MaxHeight
  /\ best' = [best EXCEPT ![n] = @ + 1]
  /\ UNCHANGED <<finalized, alive, taskVars, stop, histVars>>

FinalizeBlock(n) ==
  /\ alive[n] /\ finalized[n] < best[n]
  /\ finalized' = [finalized EXCEPT ![n] = @ + 1]
  /\ UNCHANGED <<best, alive, taskVars, stop, histVars>>

Stall(n) ==
  /\ alive[n]
  /\ alive' = [alive EXCEPT ![n] = FALSE]
  /\ stalledFor' = [stalledFor EXCEPT ![n] = 0]
  /\ UNCHANGED <<best, finalized, taskVars, stop, restarts>>

TouchStopFile ==
  /\ ~stop
  /\ stop' = TRUE
  /\ UNCHANGED <<nodeVars, taskVars, histVars>>

-----------------------------------------------------------------------------
(* The check of one node.                                                  *)

\* Variant with a plausible slip: a check that a stalled node passes.
ProgressedOrEqual(b, f, cp) == b >= cp.best /\ f >= cp.finalized

\* progress(): both heights must have passed the checkpoint.
Progressed(b, f, cp) == b > cp.best /\ f > cp.finalized

\* Variant: the collator is checked in every round.
NextNodeAlways(n, skipCollator) ==
  CASE n = Alice -> Bob
    [] n = Bob -> Collator
    [] OTHER -> NoCollator

\* The node checked after n; NoCollator when the round is over.  The collator
\* was restarted with alice, so it is only checked when alice was not.
NextNode(n, skipCollator) ==
  CASE n = Alice -> Bob
    [] n = Bob /\ ~skipCollator -> Collator
    [] OTHER -> NoCollator

\* Go on to the next node, or back to the loop with the counter at zero (and
\* the locals of the check at some fixed value: nothing reads them again).
Advance(skipCollator) ==
  LET next == NextNode(node, skipCollator) IN
  /\ seen' = BiteHeight
  /\ IF next # NoCollator
     THEN /\ pc' = "readBest"
          /\ node' = next
          /\ aliceRestarted' = skipCollator
          /\ UNCHANGED <<first, counter>>
     ELSE /\ pc' = "loop"
          /\ node' = Alice
          /\ aliceRestarted' = FALSE
          /\ first' = FALSE
          /\ counter' = 0

\* Variant: alice is restarted alone.
RestartedAlone(n) == {n}

\* Which nodes the restart call is made for when the check of n failed.
RestartedWith(n) == IF n = Alice THEN {Alice, Collator} \ {NoCollator} ELSE {n}

\* restart(): the call may fail, which is only logged.  Unfinalized blocks may
\* be gone after it; the checkpoints are left as they are.
RestartNodes(ns) ==
  /\ restarts' = [n \in Nodes |-> IF n \in ns THEN restarts[n] + 1 ELSE restarts[n]]
  /\ stalledFor' = [n \in Nodes |-> IF n \in ns THEN 0 ELSE stalledFor[n]]
  /\ \E ok \in SUBSET ns :
       /\ alive' = [n \in Nodes |-> n \in ok \/ alive[n]]
       /\ \E back \in [ok -> Height] :
            /\ \A n \in ok : back[n] \in finalized[n] .. best[n]
            /\ best' = [n \in Nodes |-> IF n \in ok THEN back[n] ELSE best[n]]
  /\ UNCHANGED finalized

\* A check that failed: a panic (expect) before the loop, a restart inside it.
NoProgress ==
  /\ UNCHANGED <<checkpoint, stop>>
  /\ IF first
     THEN /\ pc' = "panicked"
          /\ UNCHANGED <<node, seen, first, aliceRestarted, counter, nodeVars, histVars>>
     ELSE /\ RestartNodes(RestartedWith(node))
          /\ Advance(aliceRestarted \/ node = Alice)

ReadBest ==
  /\ pc = "readBest"
  /\ pc' = "readFinalized"
  /\ seen' = best[node]
  /\ UNCHANGED <<checkpoint, node, first, aliceRestarted, counter, nodeVars, stop, histVars>>

ReadFinalized ==
  /\ pc = "readFinalized"
  /\ IF Progressed(seen, finalized[node], checkpoint[node])
     THEN /\ checkpoint' = [checkpoint EXCEPT ![node] =
                              [best |-> seen, finalized |-> finalized[node]]]
          /\ Advance(aliceRestarted)
          /\ UNCHANGED <<nodeVars, stop, histVars>>
     ELSE NoProgress

\* Either request fails: the `?` of progress() makes it a check that failed.
ReadFails ==
  /\ pc \in {"readBest", "readFinalized"}
  /\ NoProgress

-----------------------------------------------------------------------------
(* The loop.                                                               *)

\* The stop file is looked for before every sleep; an error ends the loop too.
LoopEnds ==
  /\ pc = "loop"
  /\ pc' = "stopped"
  /\ UNCHANGED <<checkpoint, node, seen, first, aliceRestarted, counter, nodeVars, stop, histVars>>

\* Variant: the loop goes on although the file is there.
SleepAnyway ==
  /\ pc = "loop"
  /\ pc' = "asleep"
  /\ UNCHANGED <<checkpoint, node, seen, first, aliceRestarted, counter, nodeVars, stop, histVars>>

Sleep ==
  /\ pc = "loop" /\ ~stop
  /\ pc' = "asleep"
  /\ UNCHANGED <<checkpoint, node, seen, first, aliceRestarted, counter, nodeVars, stop, histVars>>

\* Variant: the counter is compared off by one.
DueLate(c) == c > CheckEvery

\* The counter has run up to a check.
Due(c) == c >= CheckEvery

\* A minute later: count it, or check every node when the counter has run up.
Wake ==
  /\ pc = "asleep"
  /\ stalledFor' = [n \in Nodes |-> IF ~alive[n] /\ stalledFor[n] < Horizon
                                    THEN stalledFor[n] + 1 ELSE stalledFor[n]]
  /\ IF Due(counter)
     THEN /\ pc' = "readBest"
          /\ restarts' = [n \in Nodes |-> 0]
          /\ UNCHANGED counter
     ELSE /\ pc' = "loop"
          /\ counter' = counter + 1
          /\ UNCHANGED restarts
  /\ UNCHANGED <<checkpoint, node, seen, first, aliceRestarted, nodeVars, stop>>

-----------------------------------------------------------------------------
Task == ReadBest \/ ReadFinalized \/ ReadFails \/ LoopEnds \/ Sleep \/ Wake

Environment ==
  \/ \E n \in Nodes : ImportBlock(n) \/ FinalizeBlock(n) \/ Stall(n)
  \/ TouchStopFile

\* The task is over: the process goes on to the teardown, or has died.
Done == pc \in {"stopped", "panicked"} /\ UNCHANGED vars

Next == Task \/ Environment \/ Done

\* tokio keeps polling the one task; the loop's test ends it when the file is
\* there.  Nothing is assumed of the nodes or of the user.
Spec == Init /\ [][Next]_vars /\ WF_vars(Task)

-----------------------------------------------------------------------------
TypeOK ==
  /\ best \in [Nodes -> Height]
  /\ finalized \in [Nodes -> Height]
  /\ alive \in [Nodes -> BOOLEAN]
  /\ checkpoint \in [Watched -> Checkpoint]
  /\ pc \in {"readBest", "readFinalized", "loop", "asleep", "stopped", "panicked"}
  /\ node \in Watched
  /\ seen \in Height
  /\ first \in BOOLEAN
  /\ aliceRestarted \in BOOLEAN
  /\ counter \in 0 .. CheckEvery
  /\ stop \in BOOLEAN
  /\ stalledFor \in [Nodes -> 0 .. Horizon]
  /\ restarts \in [Nodes -> Nat]

\* A watched node that stopped is acted on within two periods, whatever the
\* interleaving of its last blocks with the two metric reads: one check may
\* still see blocks made since the check before it, the next one cannot.
StallCaughtInTwoPeriods ==
  pc \in {"loop", "asleep"} =>
    \A n \in Watched : ~alive[n] => stalledFor[n] <= 2 * Period

\* One check restarts a node at most once: the collator restarted along with
\* alice is not judged, and restarted again, against its old checkpoint.
OneRestartPerCheck == \A n \in Nodes : restarts[n] <= 1

\* A parachain node never outlives its relay node's restart: when a check
\* restarted alice, it restarted the collator too before the next sleep.
CollatorFollowsAlice ==
  pc \in {"loop", "asleep"} /\ Collator # NoCollator
    => restarts[Alice] <= restarts[Collator]

\* The stop file ends the task, however many restarts and checks come first.
StopIsHonoured == stop ~> pc \in {"stopped", "panicked"}

=============================================================================
