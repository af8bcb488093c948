--------------------------------- MODULE Bite ---------------------------------
(***************************************************************************)
(* A bite as it happens (doppelganger.rs bite, sync.rs): one process       *)
(* prepares every parachain in turn, then waits for all their sync nodes   *)
(* at once, then packs what they imported and hands the heads to the relay *)
(* chain's sync node.  StepDirs has the files the bite ends with; here are *)
(* the nodes, the source chains that go on meanwhile, and what is read     *)
(* from which block at which moment.                                       *)
(*                                                                         *)
(* Outside src/, modelled from the calls: a sync node (doppelganger) takes *)
(* its target header from the file it is given, otherwise the head of its  *)
(* chain; when the import is complete it writes the block it is of and, of *)
(* a parachain, the head, and stays paused from then on; a metric reports  *)
(* whether it is syncing.  A sync may also freeze for ever, and so does    *)
(* one to the header of another chain.                                     *)
(***************************************************************************)
EXTENDS Integers, Sequences

CONSTANTS
  Paras,       \* the parachains, in the order of the command line
  RC,          \* the relay chain
  BiteAt,      \* per chain the block it is to be bitten at, or AtHead
  AtHead,      \* no block is given: whatever the head is when the node syncs
  Faults,      \* may a sync node die, or a request for its metric fail?
  MaxBlock     \* bound: the highest block of a source chain

ParaSet == {Paras[i] : i \in DOMAIN Paras}
Chains == ParaSet \cup {RC}
Number == 1 .. MaxBlock
Block == Chains \X Number

None == <<>>          \* no file, or an empty database
Partial == <<"?">>    \* a database whose import never completed
Unverified == 0       \* overrides made without the source's metadata

ASSUME ParasAssumption ==
  /\ Paras \in Seq(ParaSet) /\ Len(Paras) > 0
  /\ \A i, j \in DOMAIN Paras : Paras[i] = Paras[j] => i = j
  /\ RC \notin ParaSet

ASSUME BlocksAssumption ==
  /\ MaxBlock \in Nat \ {0}
  /\ AtHead \notin Number /\ BiteAt \in [Chains -> Number \cup {AtHead}]
  /\ Faults \in BOOLEAN

VARIABLES
  source,      \* per chain, the number of its live head
  pc,          \* where bite() is
  at,          \* the parachain its loops are at
  metaAt,      \* per chain, the block the overrides were made from
  header,      \* per chain, what the target header file its node is given says
  task,        \* per chain, its future: not polled yet, spawned, or resolved
  node,        \* per chain, its sync node
  faulted,     \* history: a sync node has died, or a failed request passed for an answer
  db, head,    \* per chain, the node's database and the head file it writes
  info,        \* per chain, the block in rc_info.txt or para-N.txt, also by the node
  snap,        \* per chain, what was packed
  heads        \* para_heads_env: per parachain, the head for the relay chain

files == <<metaAt, header, snap, heads>>
nodes == <<task, node, faulted, db, head, info>>
vars == <<source, pc, at, files, nodes>>

Pinned(c) == BiteAt[c] # AtHead

\* The blocks the command line gives are in the past: one that is not fails the
\* request for its header.  A base directory may hold what a bite that died
\* before its clean-up left: databases, heads and numbers of the source chains'
\* first blocks.
Init ==
  /\ source = [c \in Chains |-> IF Pinned(c) THEN BiteAt[c] ELSE 1]
  /\ pc = "prepare" /\ at = 1
  /\ metaAt = [c \in Chains |-> Unverified]
  /\ header = [c \in Chains |-> None]
  /\ task = [c \in Chains |-> "lazy"]
  /\ node = [c \in Chains |-> "off"]
  /\ faulted = FALSE
  /\ \E old \in SUBSET Chains :
       /\ db = [c \in Chains |-> IF c \in old THEN <<c, 1>> ELSE None]
       /\ head = [c \in Chains |-> IF c \in old \ {RC} THEN <<c, 1>> ELSE None]
       /\ info = [c \in Chains |-> IF c \in old THEN <<c, 1>> ELSE None]
  /\ snap = [c \in Chains |-> None]
  /\ heads = [p \in ParaSet |-> None]

-----------------------------------------------------------------------------
(* The source chains and the sync nodes.                                   *)

Extend(c) ==
  /\ source[c] < MaxBlock
  /\ source' = [source EXCEPT ![c] = @ + 1]
  /\ UNCHANGED <<pc, at, files, nodes>>

\* The metrics are up and the import begins.
NodeUp(c) ==
  /\ node[c] = "starting"
  /\ node' = [node EXCEPT ![c] = "syncing"]
  /\ db' = [db EXCEPT ![c] = Partial]
  /\ UNCHANGED <<source, pc, at, files, task, faulted, head, info>>

\* The import is complete: the state of the target, or of the head by now.
NodeSynced(c) ==
  LET block == IF header[c] # None THEN header[c] ELSE <<c, source[c]>> IN
  /\ node[c] = "syncing" /\ block[1] = c
  /\ node' = [node EXCEPT ![c] = "synced"]
  /\ db' = [db EXCEPT ![c] = block]
  /\ head' = IF c = RC THEN head ELSE [head EXCEPT ![c] = block]
  /\ info' = [info EXCEPT ![c] = block]
  /\ UNCHANGED <<source, pc, at, files, task, faulted>>

\* A node that dies before it is up never serves its metrics.
NodeDies(c) ==
  /\ Faults
  /\ node[c] \in {"starting", "syncing"}
  /\ node' = [node EXCEPT ![c] = IF @ = "starting" THEN "stillborn" ELSE "dead"]
  /\ faulted' = TRUE
  /\ UNCHANGED <<source, pc, at, files, task, db, head, info>>

-----------------------------------------------------------------------------
(* Before the syncs.                                                       *)

\* Variants: always read at the head; the head is forgotten.
MetaAtHead(c) == {source[c], Unverified}
MetaAtBlock(c) == {BiteAt[c], Unverified}

\* ChainMetadata::fetch, at the block of the bite or at the head; without an
\* answer the overrides are made blindly.
MetaBlocks(c) == {IF Pinned(c) THEN BiteAt[c] ELSE source[c], Unverified}

\* The nodes whose target header file is the one written for p: all pinned
\* parachains share para-header.json.
HeaderFiles(p) == {q \in ParaSet : Pinned(q)}

\* One round of the first loop.  Its future is only made, not polled.
PreparePara ==
  LET p == Paras[at] IN
  /\ pc = "prepare"
  /\ \E b \in MetaBlocks(p) : metaAt' = [metaAt EXCEPT ![p] = b]
  /\ header' = IF Pinned(p)
               THEN [c \in Chains |-> IF c \in HeaderFiles(p) THEN <<p, BiteAt[p]>> ELSE header[c]]
               ELSE header
  /\ IF at < Len(Paras) THEN at' = at + 1 /\ UNCHANGED pc ELSE pc' = "join" /\ at' = 1
  /\ UNCHANGED <<source, snap, heads, nodes>>

-----------------------------------------------------------------------------
(* The futures: sync_para, and sync_relay_only.                            *)

Polled(c) == IF c = RC THEN pc = "syncRelay" ELSE pc = "join"

SpawnNode(c) ==
  /\ Polled(c) /\ task[c] = "lazy"
  /\ task' = [task EXCEPT ![c] = "waiting"]
  /\ node' = [node EXCEPT ![c] = "starting"]
  /\ UNCHANGED <<source, pc, at, files, faulted, db, head, info>>

\* Variant: a metric that can't be read is taken for a node still syncing.
SyncingUnlessSaid(c) == {node[c] \in {"syncing", "dead"}}

\* is_syncing: what may be answered.  A metric that can't be read means no.
IsSyncing(c) == {node[c] = "syncing"} \cup (IF Faults THEN {FALSE} ELSE {})

\* wait_ws_ready and wait_sync, neither with a timeout: the first "no" ends it.
WaitOver(c) ==
  /\ Polled(c) /\ task[c] = "waiting"
  /\ node[c] \notin {"starting", "stillborn"} /\ FALSE \in IsSyncing(c)
  /\ task' = [task EXCEPT ![c] = "over"]
  /\ faulted' = (faulted \/ node[c] # "synced")
  /\ UNCHANGED <<source, pc, at, files, node, db, head, info>>

\* Variant: the first future that resolves is enough.
SomeOver == \E p \in ParaSet : task[p] = "over"

\* try_join_all
AllOver == \A p \in ParaSet : task[p] = "over"

Join ==
  /\ pc = "join" /\ AllOver
  /\ pc' = "packPara"
  /\ UNCHANGED <<source, at, files, nodes>>

-----------------------------------------------------------------------------
(* After the syncs.                                                        *)

PackPara ==
  LET p == Paras[at] IN
  /\ pc = "packPara"
  /\ pc' = "readHead"
  /\ snap' = [snap EXCEPT ![p] = db[p]]
  /\ UNCHANGED <<source, at, metaAt, header, heads, nodes>>

\* Without a head file the process panics.
ReadHead ==
  LET p == Paras[at] IN
  /\ pc = "readHead"
  /\ heads' = [heads EXCEPT ![p] = head[p]]
  /\ IF head[p] = None THEN pc' = "failed" /\ UNCHANGED at
     ELSE IF at < Len(Paras) THEN pc' = "packPara" /\ at' = at + 1
     ELSE pc' = "prepareRelay" /\ at' = 1
  /\ UNCHANGED <<source, metaAt, header, snap, nodes>>

PrepareRelay ==
  /\ pc = "prepareRelay"
  /\ pc' = "syncRelay"
  /\ \E b \in MetaBlocks(RC) : metaAt' = [metaAt EXCEPT ![RC] = b]
  /\ header' = IF Pinned(RC) THEN [header EXCEPT ![RC] = <<RC, BiteAt[RC]>>] ELSE header
  /\ UNCHANGED <<source, at, snap, heads, nodes>>

\* The node is destroyed before its database is packed.
DestroyRelay ==
  /\ pc = "syncRelay" /\ task[RC] = "over"
  /\ pc' = "packRelay"
  /\ node' = [node EXCEPT ![RC] = "off"]
  /\ UNCHANGED <<source, at, files, task, faulted, db, head, info>>

PackRelay ==
  /\ pc = "packRelay"
  /\ pc' = "readInfos"
  /\ snap' = [snap EXCEPT ![RC] = db[RC]]
  /\ UNCHANGED <<source, at, metaAt, header, heads, nodes>>

\* The start blocks for ready.json; without a chain's file the process panics.
ReadInfos ==
  /\ pc = "readInfos"
  /\ pc' = IF \E c \in Chains : info[c] = None THEN "failed" ELSE "done"
  /\ UNCHANGED <<source, at, files, nodes>>

\* A request, an override, a spawn or a write that fails ends the bite.
Fail ==
  /\ pc \notin {"done", "failed"}
  /\ pc' = "failed"
  /\ UNCHANGED <<source, at, files, nodes>>

-----------------------------------------------------------------------------
Process ==
  \/ PreparePara \/ Join \/ PackPara \/ ReadHead
  \/ PrepareRelay \/ DestroyRelay \/ PackRelay \/ ReadInfos

Sync(c) == SpawnNode(c) \/ WaitOver(c)
NodeRuns(c) == NodeUp(c) \/ NodeSynced(c) \/ NodeDies(c)

Over == pc \in {"done", "failed"} /\ UNCHANGED vars

Next ==
  \/ Process \/ Fail \/ Over
  \/ \E c \in Chains : Sync(c) \/ NodeRuns(c) \/ Extend(c)

\* Every future is polled, and asks for the metric again and again.  Nothing
\* makes a node come up, finish or die, nor a request for its metric fail.
Spec ==
  /\ Init /\ [][Next]_vars
  /\ WF_vars(Process)
  /\ \A c \in Chains : WF_vars(SpawnNode(c) \/ (WaitOver(c) /\ node[c] # "syncing"))

-----------------------------------------------------------------------------
TypeOK ==
  /\ source \in [Chains -> Number]
  /\ pc \in {"prepare", "join", "packPara", "readHead", "prepareRelay",
             "syncRelay", "packRelay", "readInfos", "done", "failed"}
  /\ at \in DOMAIN Paras
  /\ metaAt \in [Chains -> Number \cup {Unverified}]
  /\ header \in [Chains -> Block \cup {None}]
  /\ task \in [Chains -> {"lazy", "waiting", "over"}]
  /\ node \in [Chains -> {"off", "starting", "syncing", "synced", "dead", "stillborn"}]
  /\ faulted \in BOOLEAN
  /\ db \in [Chains -> Block \cup {None, Partial}]
  /\ head \in [Chains -> Block \cup {None}]
  /\ info \in [Chains -> Block \cup {None}]
  /\ snap \in [Chains -> Block \cup {None, Partial}]
  /\ heads \in [ParaSet -> Block \cup {None}]

\* The relay chain is forked with the heads its parachains really have: when
\* its node starts, every parachain's head is known, and is the block whose
\* state was packed, also in a directory a dead bite left heads and databases
\* in, as long as no sync node has died and no failed request was an answer.
RelayKnowsTheHeads ==
  ~faulted /\ node[RC] # "off" => \A p \in ParaSet : heads[p] \in Block /\ heads[p] = snap[p]

\* "Metadata and the live values are read at the block being bitten ..., so
\* they match the state being imported" (README.md:198): of a chain with a
\* block to be bitten at, the node is sent to that block, and the overrides
\* it is given were made from it or unverified.
OverridesMatchTheState ==
  \A c \in Chains : Pinned(c) /\ node[c] # "off" =>
    /\ header[c] = <<c, BiteAt[c]>>
    /\ metaAt[c] \in {BiteAt[c], Unverified}

\* The start blocks of ready.json, which a spawn compares its fork with its
\* source at (verify.rs), are those of the states that were packed, also over
\* what a dead bite left, as long as no sync node has died and no failed request
\* was an answer.
ReadyTellsTheBlocks == pc = "done" /\ ~faulted => info = snap

\* "Synced (chain: ...)" (sync.rs:110 and 230): a bite that completes has
\* packed complete imports only.
OnlySyncedIsPacked == pc = "done" => \A c \in Chains : snap[c] \in Block

\* What a bite waits for without a timeout: a node that does not come up
\* (wait_ws_ready) and one that goes on saying that it is syncing (wait_sync),
\* because its sync is frozen or its header file says another chain's block.
KeepsWaiting(c) == node[c] \in {"starting", "stillborn", "syncing"}

\* A bite ends unless some node keeps it waiting for ever: neither a node that
\* dies during its import, nor the order they finish in, nor a file that is
\* missing afterwards does.
BiteEnds == <>(pc \in {"done", "failed"}) \/ \E c \in Chains : <>[]KeepsWaiting(c)

=============================================================================
