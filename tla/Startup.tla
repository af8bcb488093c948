-------------------------------- MODULE Startup --------------------------------
(***************************************************************************)
(* What a spawn does between its nodes' start and its loop (main.rs): it   *)
(* waits for finalized blocks (network.rs), verifies that every chain is a *)
(* fork of its own (verify.rs), and enacts the upgrades the bite carried   *)
(* (upgrade.rs).  One task, a chain at a time, that polls with timeouts;   *)
(* the chains, their sources and the user go on meanwhile.                 *)
(*                                                                         *)
(* Heights are counted from the block the network was spawned at, those of *)
(* the sources from the block that was bitten.  A chain stands for the     *)
(* node that is asked: alice, or a parachain's first collator.             *)
(*                                                                         *)
(* Outside src/, modelled from the calls: a chain produces and finalizes   *)
(* blocks and never gives up a finalized one; as long as it has finalized  *)
(* nothing of its own it may reach its source network and follow it; an    *)
(* extrinsic in the pool is included and its upgrade enacted later, or     *)
(* never.                                                                  *)
(***************************************************************************)
EXTENDS Integers

CONSTANTS
  NParas,      \* parachains: 1 .. NParas, in the network's order; 0 is the relay chain
  Offset,      \* DIVERGENCE_OFFSET (5)
  Blocks,      \* the finalized blocks a startup waits for (3)
  Timeout,     \* polls until any of the waits is given up
  MaxHeight    \* bound: the highest block of a chain and of a source

ASSUME StartupAssumption ==
  /\ NParas \in Nat /\ Blocks \in Nat /\ Timeout \in Nat /\ MaxHeight \in Nat
  /\ Offset \in Nat \ {0}

RC == 0
Chains == 0 .. NParas
Height == 0 .. MaxHeight

VARIABLES
  height, final,  \* per chain, the best and the finalized block
  source,         \* per chain, the head of the network it was bitten from
  follows,        \* is its best chain the source's?
  upgrade,        \* per chain, how far the upgrade in its state is
  later,          \* a post or after step: the snapshots are of a fork that ran
  carried,        \* the chains whose upgrade ready.json names
  pc, at,         \* where the task is, and the chain it is at
  from,           \* the height, or the version, that has to be passed
  waited,         \* polls of the running wait
  hash,           \* the fork's block at the height of comparison
  verdict,        \* per chain, what its divergence check said
  upgraded        \* the chains whose upgrade was reported

chains == <<height, final, source, follows, upgrade>>
given == <<later, carried>>
task == <<pc, at, from, waited, hash, verdict, upgraded>>
vars == <<chains, given, task>>

Init ==
  /\ height = [c \in Chains |-> 0] /\ final = [c \in Chains |-> 0]
  /\ source = [c \in Chains |-> 0] /\ follows = [c \in Chains |-> FALSE]
  /\ later \in BOOLEAN /\ carried \in SUBSET Chains
  /\ upgrade \in [Chains -> {"none", "authorized", "pending", "enacted"}]
  /\ \A c \in Chains :
       /\ upgrade[c] = "none" <=> c \notin carried
       /\ ~later => upgrade[c] \in {"none", "authorized"}
  /\ pc = "blocks" /\ at = RC
  /\ from = 0 /\ waited = 0 /\ hash = "none"
  /\ verdict = [c \in Chains |-> "none"] /\ upgraded = {}

-----------------------------------------------------------------------------
(* The chains, their sources and the user.                                 *)

Produce(c) ==
  /\ height[c] < MaxHeight /\ (follows[c] => height[c] < source[c])
  /\ height' = [height EXCEPT ![c] = @ + 1]
  /\ UNCHANGED <<final, source, follows, upgrade>>

Finalize(c) ==
  /\ final[c] < height[c]
  /\ final' = [final EXCEPT ![c] = @ + 1]
  /\ UNCHANGED <<height, source, follows, upgrade>>

SourceGrows(c) ==
  /\ source[c] < MaxHeight
  /\ source' = [source EXCEPT ![c] = @ + 1]
  /\ UNCHANGED <<height, final, follows, upgrade>>

\* A source bootnode was reintroduced: the longer chain wins, and its state.
ReachSource(c) ==
  /\ ~later /\ ~follows[c] /\ final[c] = 0 /\ height[c] <= source[c]
  /\ follows' = [follows EXCEPT ![c] = TRUE]
  /\ height' = [height EXCEPT ![c] = source[c]]
  /\ upgrade' = [upgrade EXCEPT ![c] = "none"]
  /\ UNCHANGED <<final, source>>

\* "Enact it yourself at any point" (README.md:120).
UserApplies(c) ==
  /\ upgrade[c] = "authorized"
  /\ upgrade' = [upgrade EXCEPT ![c] = "inPool"]
  /\ UNCHANGED <<height, final, source, follows>>

\* The extrinsic is included, and the new code becomes the runtime.
Include(c) ==
  /\ upgrade[c] = "inPool"
  /\ upgrade' = [upgrade EXCEPT ![c] = "pending"]
  /\ UNCHANGED <<height, final, source, follows>>

Enact(c) ==
  /\ upgrade[c] = "pending"
  /\ upgrade' = [upgrade EXCEPT ![c] = "enacted"]
  /\ UNCHANGED <<height, final, source, follows>>

-----------------------------------------------------------------------------
(* Waiting.                                                                *)

\* Variants: one poll too many; no end.
ExpiredLate(w) == w > Timeout
Expired(w) == w >= Timeout

WaitForEver == UNCHANGED <<pc, waited>>

\* A poll in vain: after the timeout an error, which ends the process.
KeepWaiting ==
  IF Expired(waited) THEN pc' = "failed" /\ UNCHANGED waited
                     ELSE waited' = waited + 1 /\ UNCHANGED pc

\* On to the next chain of the same round, or to the next round.
NextOr(round, last, next) ==
  /\ waited' = 0
  /\ IF at < last THEN pc' = round /\ at' = at + 1 ELSE pc' = next /\ at' = RC

-----------------------------------------------------------------------------
(* ensure_startup_producing_blocks                                         *)

\* The first of the finalized blocks may be the one spawned at; this wait has
\* no timeout.
BlocksSeen ==
  /\ pc = "blocks" /\ final[RC] >= Blocks - 1
  /\ pc' = "primeFrom"
  /\ UNCHANGED <<chains, at, from, waited, hash, verdict, upgraded>>

\* The subscription ends: the loop over it ends too.
StreamEnds ==
  /\ pc = "blocks"
  /\ pc' = "primeFrom"
  /\ UNCHANGED <<chains, at, from, waited, hash, verdict, upgraded>>

-----------------------------------------------------------------------------
(* verify_fork                                                             *)

\* Variant: only the relay chain's finality is waited for.
LastIsRelay == RC

\* wait_finality_primed: the relay chain, then every parachain.
LastPrimed == NParas

PrimeFrom ==
  /\ pc = "primeFrom"
  /\ pc' = "prime" /\ from' = final[at] /\ waited' = 0
  /\ UNCHANGED <<chains, at, hash, verdict, upgraded>>

Prime ==
  /\ pc = "prime"
  /\ IF final[at] > from THEN NextOr("primeFrom", LastPrimed, "ready")
                         ELSE KeepWaiting /\ UNCHANGED at
  /\ UNCHANGED <<chains, from, hash, verdict, upgraded>>

\* Without ready.json there is nothing to compare with.
ReadReady ==
  /\ pc = "ready"
  /\ \/ pc' = "forkHash" /\ UNCHANGED verdict
     \/ pc' = "verified" /\ verdict' = [c \in Chains |-> "unrecorded"]
  /\ UNCHANGED <<chains, at, from, waited, hash, upgraded>>

\* The check of one chain is over.
Verdict(v) ==
  /\ verdict' = [verdict EXCEPT ![at] = v]
  /\ NextOr("forkHash", NParas, "verified")

\* ready.json has no bite block or source for the chain.
NotRecorded ==
  /\ pc = "forkHash" /\ waited = 0
  /\ Verdict("unrecorded")
  /\ UNCHANGED <<chains, from, hash, upgraded>>

\* A later step starts above the height of comparison.
HashAt(c) == IF ~later /\ height[c] < Offset THEN "none"
             ELSE IF follows[c] THEN "source" ELSE "own"

ForkHash ==
  /\ pc = "forkHash"
  /\ IF HashAt(at) = "none"
     THEN KeepWaiting /\ UNCHANGED hash
     ELSE pc' = "sourceHash" /\ hash' = HashAt(at) /\ UNCHANGED waited
  /\ UNCHANGED <<chains, at, from, verdict, upgraded>>

\* Whatever keeps the source from answering skips the check.
SourceHash ==
  /\ pc = "sourceHash"
  /\ \/ Verdict("unreachable")
     \/ source[at] < Offset /\ Verdict("behind")
     \/ source[at] >= Offset /\ hash # "source" /\ Verdict("diverged")
     \/ /\ source[at] >= Offset /\ hash = "source"
        /\ pc' = "failed" /\ UNCHANGED <<at, waited, verdict>>
  /\ UNCHANGED <<chains, from, hash, upgraded>>

-----------------------------------------------------------------------------
(* apply_from_ready                                                        *)

\* With --apply-upgrade, or without.
Verified ==
  /\ pc = "verified"
  /\ pc' \in {"version", "running"}
  /\ UNCHANGED <<chains, at, from, waited, hash, verdict, upgraded>>

\* Variant: the parachains first.
RelayLast(i) == IF i = NParas THEN RC ELSE i + 1

\* The chain that is upgraded i-th.
UpgradedAs(i) == i

Version(c) == IF upgrade[c] = "enacted" THEN 1 ELSE 0

ReadVersion ==
  LET c == UpgradedAs(at) IN
  /\ pc = "version"
  /\ IF c \in carried THEN pc' = "submit" /\ from' = Version(c) /\ UNCHANGED <<at, waited>>
                      ELSE NextOr("version", NParas, "running") /\ UNCHANGED from
  /\ UNCHANGED <<chains, hash, verdict, upgraded>>

\* Rejected when the authorization is used up or the extrinsic is there already.
Submit ==
  LET c == UpgradedAs(at) IN
  /\ pc = "submit"
  /\ IF upgrade[c] = "authorized"
     THEN pc' = "upgrade" /\ upgrade' = [upgrade EXCEPT ![c] = "inPool"]
     ELSE pc' = "failed" /\ UNCHANGED upgrade
  /\ UNCHANGED <<height, final, source, follows, at, from, waited, hash, verdict, upgraded>>

\* Variant: the version that was there is enough.
NotBelow(version) == version >= from
Higher(version) == version > from

AwaitUpgrade ==
  LET c == UpgradedAs(at) IN
  /\ pc = "upgrade"
  /\ IF Higher(Version(c))
     THEN upgraded' = upgraded \cup {c} /\ NextOr("version", NParas, "running")
     ELSE KeepWaiting /\ UNCHANGED <<at, upgraded>>
  /\ UNCHANGED <<chains, from, hash, verdict>>

\* A request, a file or a submission that fails ends the process.
Fail ==
  /\ pc \notin {"running", "failed"}
  /\ pc' = "failed"
  /\ UNCHANGED <<chains, at, from, waited, hash, verdict, upgraded>>

-----------------------------------------------------------------------------
Task ==
  /\ \/ BlocksSeen \/ PrimeFrom \/ Prime
     \/ ReadReady \/ NotRecorded \/ ForkHash \/ SourceHash
     \/ Verified \/ ReadVersion \/ Submit \/ AwaitUpgrade
  /\ UNCHANGED given

\* The nodes end with the process.
Environment ==
  /\ pc # "failed"
  /\ \E c \in Chains :
       \/ Produce(c) \/ Finalize(c) \/ SourceGrows(c) \/ ReachSource(c)
       \/ UserApplies(c) \/ Include(c) \/ Enact(c)
  /\ UNCHANGED <<given, task>>

Interrupt == (StreamEnds \/ Fail) /\ UNCHANGED given
Over == pc \in {"running", "failed"} /\ UNCHANGED vars

Next == Task \/ Environment \/ Interrupt \/ Over

\* The task is polled; no chain has to produce, finalize or upgrade anything.
Spec == Init /\ [][Next]_vars /\ WF_vars(Task)

-----------------------------------------------------------------------------
Status == {"none", "authorized", "inPool", "pending", "enacted"}

TypeOK ==
  /\ height \in [Chains -> Height] /\ final \in [Chains -> Height]
  /\ source \in [Chains -> Height] /\ follows \in [Chains -> BOOLEAN]
  /\ upgrade \in [Chains -> Status]
  /\ later \in BOOLEAN /\ carried \in SUBSET Chains
  /\ pc \in {"blocks", "primeFrom", "prime", "ready", "forkHash", "sourceHash",
             "verified", "version", "submit", "upgrade", "running", "failed"}
  /\ at \in Chains /\ from \in Nat /\ waited \in 0 .. Timeout
  /\ hash \in {"none", "own", "source"}
  /\ verdict \in [Chains -> {"none", "unrecorded", "unreachable", "behind", "diverged"}]
  /\ upgraded \in SUBSET Chains

\* "Equal hashes mean the fork reached the source network and is following
\* *its* chain" (verify.rs:67): a chain found to have diverged, or to be ahead of
\* its source, does not follow it, neither then nor at any time the network runs.
FollowerIsCaught ==
  \A c \in Chains : verdict[c] \in {"diverged", "behind"} => ~follows[c]

\* "Apply every upgrade recorded in ready.json: relay first, then parachains"
\* (upgrade.rs:95): a parachain's upgrade is tried only on a relay chain that
\* runs its own, although the user may apply any of them at any time.
RelayUpgradedFirst ==
  pc \in {"submit", "upgrade"} /\ UpgradedAs(at) # RC /\ RC \in carried
    => upgrade[RC] = "enacted"

\* "... and wait for the spec version to bump" (README.md:120): the loop of a
\* network spawned with --apply-upgrade runs on upgraded chains, all of them.
UpgradesEnacted ==
  pc = "running" /\ upgraded # {} => \A c \in carried : upgrade[c] = "enacted"

\* Once the first blocks were seen, a startup ends: every later wait is given
\* up, also when a chain finalizes, produces or upgrades nothing any more.
StartupEnds == pc # "blocks" ~> pc \in {"running", "failed"}

=============================================================================
