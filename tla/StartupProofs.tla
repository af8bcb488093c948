----------------------------- MODULE StartupProofs -----------------------------
(***************************************************************************)
(* What holds of Startup for any number of parachains and any heights and  *)
(* timeouts: a verdict of the divergence check stands, and the upgrades    *)
(* are enacted in order.                                                   *)
(***************************************************************************)
EXTENDS Startup, TLAPS

Priming == {"primeFrom", "prime"}
Comparing == {"forkHash", "sourceHash"}
Upgrading == {"version", "submit", "upgrade"}
Primed == {"ready", "verified", "running"} \cup Comparing \cup Upgrading

\* A chain that follows its source has blocks of the source only.
FollowInv == \A c \in Chains : follows[c] => ~later /\ height[c] <= source[c]

\* A chain whose finality was waited for has finalized a block since.
PrimeInv ==
  \A c \in Chains : pc \in Primed \/ (pc \in Priming /\ c < at) => final[c] > 0

\* The hash that was read is still the one of the chain.
HashInv ==
  pc = "sourceHash" =>
    /\ hash = "source" => follows[at] /\ height[at] >= Offset
    /\ hash # "source" => ~follows[at]

\* There is no verdict before the comparison, and one that stands after it.
VerdictInv ==
  /\ pc \in {"blocks", "ready"} \cup Priming => \A c \in Chains : verdict[c] = "none"
  /\ FollowerIsCaught

\* The chains before the one that is upgraded have their upgrades.
UpgradeInv ==
  /\ pc \in {"blocks", "ready", "verified"} => at = RC
  /\ pc \notin Upgrading \cup {"running", "failed"} => upgraded = {}
  /\ pc \in Upgrading => \A c \in carried : c < at => upgrade[c] = "enacted"
  /\ pc \in {"submit", "upgrade"} => from >= 0 /\ at \in carried
  /\ UpgradesEnacted

Inv == TypeOK /\ FollowInv /\ PrimeInv /\ HashInv /\ VerdictInv /\ UpgradeInv

-----------------------------------------------------------------------------
\* The places where the task is, spelled out.
LEMMA Pcs ==
  /\ Priming = {"primeFrom", "prime"} /\ Upgrading = {"version", "submit", "upgrade"}
  /\ Primed = {"ready", "verified", "running", "forkHash", "sourceHash",
               "version", "submit", "upgrade"}
BY DEF Priming, Comparing, Upgrading, Primed

\* The first state of a startup is well typed and nothing is decided in it.
LEMMA InitInv == ASSUME Init PROVE Inv
<1> USE StartupAssumption DEF Init
<1>1. TypeOK
  BY DEF TypeOK, Chains, RC, Height, Status
<1>2. FollowInv /\ PrimeInv /\ HashInv
  BY DEF FollowInv, PrimeInv, HashInv, Priming, Primed, Comparing, Upgrading
<1>3. VerdictInv /\ UpgradeInv
  BY DEF VerdictInv, FollowerIsCaught, UpgradeInv, UpgradesEnacted, Upgrading
<1> QED BY <1>1, <1>2, <1>3 DEF Inv

-----------------------------------------------------------------------------
\* The chains move on: a primed chain does not start to follow its source, and
\* no enacted upgrade is lost.
LEMMA EnvironmentKeepsInv == ASSUME Inv, Environment PROVE Inv'
<1> USE StartupAssumption
<1>1. PICK c \in Chains :
        \/ Produce(c) \/ Finalize(c) \/ SourceGrows(c) \/ ReachSource(c)
        \/ UserApplies(c) \/ Include(c) \/ Enact(c)
  BY DEF Environment
<1>2. UNCHANGED <<given, task>> /\ pc # "failed"
  BY DEF Environment
<1> USE <1>2 DEF Inv, given, task
<1>3. CASE Produce(c)
  <2> USE <1>3 DEF Produce
  <2>1. TypeOK' BY DEF TypeOK, Height, Status
  <2>2. FollowInv' BY DEF TypeOK, FollowInv, Height
  <2>3. PrimeInv' BY DEF PrimeInv
  <2>4. HashInv' BY DEF TypeOK, HashInv, Height
  <2>5. VerdictInv' /\ UpgradeInv'
    BY DEF VerdictInv, FollowerIsCaught, UpgradeInv, UpgradesEnacted
  <2> QED BY <2>1, <2>2, <2>3, <2>4, <2>5
<1>4. CASE Finalize(c)
  <2> USE <1>4 DEF Finalize
  <2>1. TypeOK' BY DEF TypeOK, Height, Status
  <2>2. FollowInv' /\ HashInv' BY DEF FollowInv, HashInv
  <2>3. PrimeInv' BY DEF TypeOK, PrimeInv, Height
  <2>4. VerdictInv' /\ UpgradeInv'
    BY DEF VerdictInv, FollowerIsCaught, UpgradeInv, UpgradesEnacted
  <2> QED BY <2>1, <2>2, <2>3, <2>4
<1>5. CASE SourceGrows(c)
  <2> USE <1>5 DEF SourceGrows
  <2>1. TypeOK' BY DEF TypeOK, Height, Status
  <2>2. FollowInv' BY DEF TypeOK, FollowInv, Height
  <2>3. PrimeInv' /\ HashInv' BY DEF PrimeInv, HashInv
  <2>4. VerdictInv' /\ UpgradeInv'
    BY DEF VerdictInv, FollowerIsCaught, UpgradeInv, UpgradesEnacted
  <2> QED BY <2>1, <2>2, <2>3, <2>4
<1>6. CASE ReachSource(c)
  <2> USE <1>6 DEF ReachSource
  <2>0. pc \notin Primed
    BY DEF PrimeInv
  <2>1. TypeOK' BY DEF TypeOK, Height, Status
  <2>2. FollowInv' BY DEF TypeOK, FollowInv, Height
  <2>3. PrimeInv' BY DEF PrimeInv
  <2>4. HashInv' BY <2>0 DEF HashInv, Primed, Comparing
  <2>5. VerdictInv' /\ UpgradeInv'
    BY <2>0, Pcs DEF TypeOK, VerdictInv, FollowerIsCaught, UpgradeInv, UpgradesEnacted
  <2> QED BY <2>1, <2>2, <2>3, <2>4, <2>5
<1>7. CASE UserApplies(c) \/ Include(c) \/ Enact(c)
  <2> USE <1>7 DEF UserApplies, Include, Enact
  <2>1. TypeOK' BY DEF TypeOK, Status
  <2>2. FollowInv' /\ PrimeInv' /\ HashInv' BY DEF FollowInv, PrimeInv, HashInv
  <2>3. VerdictInv' BY DEF VerdictInv, FollowerIsCaught
  <2>4. UpgradeInv' BY DEF TypeOK, UpgradeInv, UpgradesEnacted
  <2> QED BY <2>1, <2>2, <2>3, <2>4
<1> QED BY <1>1, <1>3, <1>4, <1>5, <1>6, <1>7

-----------------------------------------------------------------------------
\* Every step of the task that leaves the chains alone, but for its round.
LEMMA WaitingKeepsInv ==
  ASSUME Inv, UNCHANGED <<chains, given, at, from, hash, verdict, upgraded>>,
         KeepWaiting, pc # "running"
  PROVE  Inv'
<1> USE StartupAssumption DEF Inv, KeepWaiting, chains, given
<1>1. TypeOK' BY DEF TypeOK, Expired, Height
<1>2. pc' \in {pc, "failed"}
  OBVIOUS
<1>3. FollowInv' BY DEF FollowInv
<1>4. PrimeInv' /\ HashInv' BY <1>2, Pcs DEF PrimeInv, HashInv
<1>5. VerdictInv' /\ UpgradeInv'
  BY <1>2, Pcs DEF VerdictInv, FollowerIsCaught, UpgradeInv, UpgradesEnacted
<1> QED BY <1>1, <1>3, <1>4, <1>5

\* A process that ends takes no chain's verdict back.
LEMMA FailureKeepsInv ==
  ASSUME Inv, UNCHANGED <<chains, given, at, from, waited, hash, verdict, upgraded>>,
         pc' = "failed"
  PROVE  Inv'
<1> USE DEF Inv, chains, given
<1>1. TypeOK' /\ FollowInv' BY DEF TypeOK, FollowInv
<1>2. PrimeInv' /\ HashInv' BY Pcs DEF PrimeInv, HashInv
<1>3. VerdictInv' /\ UpgradeInv'
  BY Pcs DEF VerdictInv, FollowerIsCaught, UpgradeInv, UpgradesEnacted
<1> QED BY <1>1, <1>2, <1>3

\* The startup checks and the priming.
LEMMA PrimingKeepsInv ==
  ASSUME Inv, UNCHANGED given, BlocksSeen \/ StreamEnds \/ PrimeFrom \/ Prime
  PROVE  Inv'
<1> USE StartupAssumption DEF Inv, chains, given
<1>1. CASE BlocksSeen \/ StreamEnds
  <2> USE <1>1 DEF BlocksSeen, StreamEnds
  <2>1. TypeOK' /\ FollowInv' /\ HashInv' BY DEF TypeOK, FollowInv, HashInv
  <2>2. PrimeInv' BY Pcs DEF PrimeInv, UpgradeInv, RC, Chains
  <2>3. VerdictInv' /\ UpgradeInv'
    BY Pcs DEF VerdictInv, FollowerIsCaught, UpgradeInv, UpgradesEnacted
  <2> QED BY <2>1, <2>2, <2>3
<1>2. CASE PrimeFrom
  <2> USE <1>2 DEF PrimeFrom
  <2>1. TypeOK' BY DEF TypeOK, Height
  <2>2. FollowInv' /\ HashInv' BY DEF FollowInv, HashInv
  <2>3. PrimeInv' BY Pcs DEF PrimeInv
  <2>4. VerdictInv' /\ UpgradeInv'
    BY Pcs DEF VerdictInv, FollowerIsCaught, UpgradeInv, UpgradesEnacted
  <2> QED BY <2>1, <2>2, <2>3, <2>4
<1>3. CASE Prime /\ final[at] > from
  <2> USE <1>3 DEF Prime, NextOr, LastPrimed
  <2>1. TypeOK' BY DEF TypeOK, Chains, RC
  <2>2. FollowInv' /\ HashInv' BY DEF FollowInv, HashInv
  <2>3. PrimeInv'
    <3>1. final[at] > 0
      BY DEF TypeOK, Height
    <3> QED BY <3>1, Pcs DEF TypeOK, PrimeInv, Chains, RC
  <2>4. VerdictInv' /\ UpgradeInv'
    BY Pcs DEF VerdictInv, FollowerIsCaught, UpgradeInv, UpgradesEnacted
  <2> QED BY <2>1, <2>2, <2>3, <2>4
<1>4. CASE Prime /\ ~(final[at] > from)
  BY <1>4, WaitingKeepsInv DEF Prime
<1> QED BY <1>1, <1>2, <1>3, <1>4

\* The divergence checks: each leaves a verdict that stands.
LEMMA ComparingKeepsInv ==
  ASSUME Inv, UNCHANGED given, ReadReady \/ NotRecorded \/ ForkHash \/ SourceHash
  PROVE  Inv'
<1> USE StartupAssumption DEF Inv, chains, given
<1>1. CASE ReadReady
  <2> USE <1>1 DEF ReadReady
  <2>1. TypeOK' /\ FollowInv' /\ HashInv' BY DEF TypeOK, FollowInv, HashInv
  <2>2. PrimeInv' BY Pcs DEF PrimeInv
  <2>3. VerdictInv' /\ UpgradeInv'
    BY Pcs DEF VerdictInv, FollowerIsCaught, UpgradeInv, UpgradesEnacted
  <2> QED BY <2>1, <2>2, <2>3
<1>2. ASSUME NEW v \in {"unrecorded", "unreachable", "behind", "diverged"},
             pc \in Comparing, Verdict(v), v \in {"behind", "diverged"} => ~follows[at],
             UNCHANGED <<chains, from, hash, upgraded>>
      PROVE  Inv'
  <2> USE <1>2 DEF Verdict, NextOr
  <2>1. TypeOK' BY DEF TypeOK, Chains, RC
  <2>2. FollowInv' /\ HashInv' BY DEF FollowInv, HashInv
  <2>3. PrimeInv' BY Pcs DEF PrimeInv, Comparing
  <2>4. VerdictInv'
    BY Pcs DEF TypeOK, VerdictInv, FollowerIsCaught
  <2>5. UpgradeInv'
    BY Pcs DEF UpgradeInv, UpgradesEnacted, Comparing
  <2> QED BY <2>1, <2>2, <2>3, <2>4, <2>5
<1>3. CASE NotRecorded
  BY <1>2, <1>3 DEF NotRecorded, Comparing
<1>4. CASE ForkHash /\ HashAt(at) # "none"
  <2> USE <1>4 DEF ForkHash
  <2>1. HashAt(at) \in {"own", "source"}
    BY DEF HashAt
  <2>2. TypeOK' /\ FollowInv' BY <2>1 DEF TypeOK, FollowInv
  <2>3. PrimeInv' BY Pcs DEF PrimeInv
  <2>4. HashInv' BY DEF TypeOK, HashInv, HashAt, FollowInv, Height
  <2>5. VerdictInv' /\ UpgradeInv'
    BY Pcs DEF VerdictInv, FollowerIsCaught, UpgradeInv, UpgradesEnacted
  <2> QED BY <2>2, <2>3, <2>4, <2>5
<1>5. CASE ForkHash /\ HashAt(at) = "none"
  BY <1>5, WaitingKeepsInv DEF ForkHash
<1>6. CASE SourceHash
  <2> USE <1>6 DEF SourceHash
  <2>1. source[at] < Offset => ~follows[at]
    BY DEF TypeOK, FollowInv, HashInv, Height
  <2>2. hash # "source" => ~follows[at]
    BY DEF HashInv
  <2>3. CASE Verdict("unreachable")
    BY <1>2, <2>3 DEF Comparing
  <2>4. CASE source[at] < Offset /\ Verdict("behind")
    BY <1>2, <2>1, <2>4 DEF Comparing
  <2>5. CASE hash # "source" /\ Verdict("diverged")
    BY <1>2, <2>2, <2>5 DEF Comparing
  <2>6. CASE pc' = "failed" /\ UNCHANGED <<at, waited, verdict>>
    BY <2>6, FailureKeepsInv
  <2> QED BY <2>3, <2>4, <2>5, <2>6
<1> QED BY <1>1, <1>3, <1>4, <1>5, <1>6

\* The upgrades, one chain after the other.
LEMMA UpgradingKeepsInv ==
  ASSUME Inv, UNCHANGED given, Verified \/ ReadVersion \/ Submit \/ AwaitUpgrade
  PROVE  Inv'
<1> USE StartupAssumption DEF Inv, chains, given, UpgradedAs
<1>1. CASE Verified
  <2> USE <1>1 DEF Verified
  <2>1. TypeOK' /\ FollowInv' /\ HashInv' BY DEF TypeOK, FollowInv, HashInv
  <2>2. PrimeInv' BY Pcs DEF PrimeInv
  <2>3. VerdictInv' BY Pcs DEF VerdictInv, FollowerIsCaught
  <2>4. UpgradeInv'
    <3>1. at = RC /\ upgraded = {}
      BY Pcs DEF UpgradeInv
    <3>2. \A c \in carried : ~(c < RC)
      BY DEF TypeOK, Chains, RC
    <3> QED BY <3>1, <3>2, Pcs DEF UpgradeInv, UpgradesEnacted
  <2> QED BY <2>1, <2>2, <2>3, <2>4
<1>2. CASE ReadVersion
  <2> USE <1>2 DEF ReadVersion, NextOr
  <2>1. TypeOK' BY DEF TypeOK, Chains, RC, Version
  <2>2. FollowInv' /\ HashInv' BY DEF FollowInv, HashInv
  <2>3. PrimeInv' BY Pcs DEF PrimeInv
  <2>4. VerdictInv' BY Pcs DEF VerdictInv, FollowerIsCaught
  <2>5. UpgradeInv'
    BY Pcs DEF TypeOK, UpgradeInv, UpgradesEnacted, Chains, RC, Version
  <2> QED BY <2>1, <2>2, <2>3, <2>4, <2>5
<1>3. CASE Submit
  <2> USE <1>3 DEF Submit
  <2>1. TypeOK' BY DEF TypeOK, Status
  <2>2. FollowInv' /\ HashInv' BY DEF FollowInv, HashInv
  <2>3. PrimeInv' BY Pcs DEF PrimeInv
  <2>4. VerdictInv' BY Pcs DEF VerdictInv, FollowerIsCaught
  <2>5. UpgradeInv' BY Pcs DEF TypeOK, UpgradeInv, UpgradesEnacted, Chains
  <2> QED BY <2>1, <2>2, <2>3, <2>4, <2>5
<1>4. CASE AwaitUpgrade /\ Higher(Version(at))
  <2> USE <1>4 DEF AwaitUpgrade, NextOr
  <2>1. upgrade[at] = "enacted"
    BY DEF TypeOK, UpgradeInv, Higher, Version
  <2>2. TypeOK'
    <3>1. at' \in Chains /\ waited' \in 0 .. Timeout
      BY DEF TypeOK, Chains, RC
    <3>2. upgraded' \in SUBSET Chains
      BY DEF TypeOK
    <3> QED BY <3>1, <3>2 DEF TypeOK
  <2>3. FollowInv' /\ HashInv' BY DEF FollowInv, HashInv
  <2>4. PrimeInv' BY Pcs DEF PrimeInv
  <2>5. VerdictInv' BY Pcs DEF VerdictInv, FollowerIsCaught
  <2>6. UpgradeInv'
    BY <2>1, Pcs DEF TypeOK, UpgradeInv, UpgradesEnacted, Chains, RC
  <2> QED BY <2>2, <2>3, <2>4, <2>5, <2>6
<1>5. CASE AwaitUpgrade /\ ~Higher(Version(at))
  BY <1>5, WaitingKeepsInv DEF AwaitUpgrade
<1> QED BY <1>1, <1>2, <1>3, <1>4, <1>5

LEMMA StepKeepsInv == Inv /\ [Next]_vars => Inv'
<1> SUFFICES ASSUME Inv, [Next]_vars PROVE Inv'
  OBVIOUS
<1>1. CASE Task
  BY <1>1, PrimingKeepsInv, ComparingKeepsInv, UpgradingKeepsInv DEF Task
<1>2. CASE Environment
  BY <1>2, EnvironmentKeepsInv
<1>3. CASE Interrupt
  <2>1. CASE StreamEnds
    BY <1>3, <2>1, PrimingKeepsInv DEF Interrupt
  <2>2. CASE Fail
    BY <1>3, <2>2, FailureKeepsInv DEF Interrupt, Fail
  <2> QED BY <1>3, <2>1, <2>2 DEF Interrupt
<1>4. CASE Over \/ UNCHANGED vars
  BY <1>4 DEF Over, vars, chains, given, task, Inv, TypeOK, FollowInv, PrimeInv, HashInv,
              VerdictInv, FollowerIsCaught, UpgradeInv, UpgradesEnacted
<1> QED BY <1>1, <1>2, <1>3, <1>4 DEF Next

\* The inductive invariant holds in every state of a startup.
THEOREM Inductive == Spec => []Inv
<1>1. Init => Inv
  BY InitInv
<1> QED BY <1>1, StepKeepsInv, PTL DEF Spec

\* Every state of a startup is well typed.
THEOREM TypeCorrect == Spec => []TypeOK
<1>1. Inv => TypeOK
  BY DEF Inv
<1> QED BY <1>1, Inductive, PTL

\* A chain that was found to have diverged never follows its source: finality
\* was waited for on every chain before the first of them was compared.
THEOREM VerdictsStand == Spec => []FollowerIsCaught
<1>1. Inv => FollowerIsCaught
  BY DEF Inv, VerdictInv
<1> QED BY <1>1, Inductive, PTL

\* A parachain is upgraded only on an upgraded relay chain, and
\* --apply-upgrade goes on only when every carried upgrade is enacted.
THEOREM RelayIsFirst == Spec => []RelayUpgradedFirst
<1>1. Inv => RelayUpgradedFirst
  BY StartupAssumption DEF Inv, TypeOK, UpgradeInv, RelayUpgradedFirst, UpgradedAs, RC, Chains, Upgrading
<1> QED BY <1>1, Inductive, PTL

\* A network that --apply-upgrade went on with is upgraded.
THEOREM UpgradesAreEnacted == Spec => []UpgradesEnacted
<1>1. Inv => UpgradesEnacted
  BY DEF Inv, UpgradeInv
<1> QED BY <1>1, Inductive, PTL

=============================================================================
