------------------------------ MODULE BiteProofs ------------------------------
(***************************************************************************)
(* What holds of Bite for any number of parachains: its states are well    *)
(* typed; as long as no sync node and no request fails, the relay chain is *)
(* forked with the heads of the states that were packed; and overrides and *)
(* states are of the same block if the parachains share no header file.    *)
(***************************************************************************)
EXTENDS Bite, TLAPS

\* bite() has passed try_join_all.
Joined == pc \in {"packPara", "readHead", "prepareRelay", "syncRelay", "packRelay", "readInfos",
               "done"}

\* Every future the joined bite waited for has resolved.
JoinInv == Joined => AllOver

\* As long as nothing has failed a resolved future means a complete import,
\* whose head file and database are of the same block.
NodeInv ==
  \A p \in ParaSet :
    /\ task[p] = "lazy" => node[p] = "off"
    /\ task[p] = "waiting" => node[p] \in {"starting", "syncing", "synced"}
    /\ task[p] = "over" => node[p] = "synced"
    /\ node[p] = "synced" => db[p] \in Block /\ head[p] = db[p]

Packed(p) == snap[p] = db[p] /\ heads[p] = db[p]

\* How far the packing is.
PackInv ==
  /\ pc = "join" => at = 1
  /\ pc \in {"packPara", "readHead"} => \A j \in 1 .. at - 1 : Packed(Paras[j])
  /\ pc = "readHead" => snap[Paras[at]] = db[Paras[at]]
  /\ pc \in {"prepareRelay", "syncRelay", "packRelay", "readInfos", "done"} => \A p \in ParaSet : Packed(p)

\* The relay chain's node runs after the packing only, and what was packed
\* then stays although the bite may fail.
RelayInv ==
  /\ pc \in {"prepare", "join", "packPara", "readHead", "prepareRelay"} => node[RC] = "off"
  /\ node[RC] # "off" => AllOver /\ \A p \in ParaSet : Packed(p)

\* The state of a bite in which nothing has failed so far.
Calm == TypeOK /\ JoinInv /\ NodeInv /\ PackInv /\ RelayInv

Inv == TypeOK /\ JoinInv /\ (~faulted => Calm)

-----------------------------------------------------------------------------
\* The places of the list of parachains.
LEMMA ParaFacts ==
  /\ Len(Paras) \in Nat \ {0} /\ DOMAIN Paras = 1 .. Len(Paras)
  /\ \A i \in DOMAIN Paras : Paras[i] \in ParaSet /\ Paras[i] \in Chains /\ Paras[i] # RC
  /\ \A p \in ParaSet : p \in Chains /\ p # RC /\ \E i \in DOMAIN Paras : Paras[i] = p
  /\ RC \in Chains
BY ParasAssumption DEF ParaSet, Chains

\* The markers are no blocks.
LEMMA BlockFacts ==
  /\ None \notin Block /\ Partial \notin Block
  /\ \A c \in Chains, n \in Number : <<c, n>> \in Block
  /\ 1 \in Number
BY BlocksAssumption DEF None, Partial, Block, Number

LEMMA InitTyped == Init => TypeOK
<1> SUFFICES ASSUME Init PROVE TypeOK
  OBVIOUS
<1>1. PICK old \in SUBSET Chains :
        /\ db = [c \in Chains |-> IF c \in old THEN <<c, 1>> ELSE None]
        /\ head = [c \in Chains |-> IF c \in old \ {RC} THEN <<c, 1>> ELSE None]
        /\ info = [c \in Chains |-> IF c \in old THEN <<c, 1>> ELSE None]
  BY DEF Init
<1>2. /\ db \in [Chains -> Block \cup {None, Partial}]
      /\ head \in [Chains -> Block \cup {None}] /\ info \in [Chains -> Block \cup {None}]
  BY <1>1, BlockFacts
<1>3. /\ source \in [Chains -> Number] /\ metaAt \in [Chains -> Number \cup {Unverified}]
      /\ header \in [Chains -> Block \cup {None}] /\ snap \in [Chains -> Block \cup {None, Partial}]
      /\ heads \in [ParaSet -> Block \cup {None}]
  BY BlockFacts, BlocksAssumption DEF Init, Pinned
<1>4. /\ pc = "prepare" /\ at \in DOMAIN Paras
      /\ task \in [Chains -> {"lazy", "waiting", "over"}]
      /\ node \in [Chains -> {"off", "starting", "syncing", "synced", "dead", "stillborn"}]
  BY ParaFacts DEF Init
<1>5. /\ pc \in {"prepare", "join", "packPara", "readHead", "prepareRelay",
                  "syncRelay", "packRelay", "readInfos", "done", "failed"}
      /\ heads \in [ParaSet -> Block \cup {None}]
  BY <1>3, <1>4
<1>6. faulted \in BOOLEAN
  BY Zenon DEF Init
<1> QED BY <1>2, <1>3, <1>4, <1>5, <1>6, Zenon DEF TypeOK

LEMMA StepTyped == TypeOK /\ [Next]_vars => TypeOK'
<1> SUFFICES ASSUME TypeOK, [Next]_vars PROVE TypeOK'
  OBVIOUS
<1> USE DEF TypeOK, files, nodes
<1>1. CASE PreparePara
  <2>1. /\ Paras[at] \in Chains
        /\ \A b \in MetaBlocks(Paras[at]) : b \in Number \cup {Unverified}
    BY ParaFacts, BlocksAssumption DEF MetaBlocks, Pinned
  <2>2. metaAt' \in [Chains -> Number \cup {Unverified}]
    BY <1>1, <2>1 DEF PreparePara
  <2>3. header' \in [Chains -> Block \cup {None}]
    <3>1. Pinned(Paras[at]) => <<Paras[at], BiteAt[Paras[at]]>> \in Block
      BY <2>1, BlocksAssumption DEF Pinned, Block
    <3> QED BY <1>1, <3>1 DEF PreparePara
  <2>4. /\ at' \in DOMAIN Paras /\ pc' \in {"prepare", "join"}
        /\ UNCHANGED <<source, snap, heads, task, node, faulted, db, head, info>>
    BY <1>1, ParaFacts DEF PreparePara
  <2> QED BY <2>2, <2>3, <2>4
<1>2. CASE Join
  BY <1>2 DEF Join
<1>3. CASE PackPara
  BY <1>3, ParaFacts DEF PackPara
<1>4. CASE ReadHead
  <2>1. heads' \in [ParaSet -> Block \cup {None}]
    BY <1>4, ParaFacts DEF ReadHead
  <2>2. /\ at' \in DOMAIN Paras /\ pc' \in {"failed", "packPara", "prepareRelay"}
        /\ UNCHANGED <<source, metaAt, header, snap, task, node, faulted, db, head, info>>
    BY <1>4, ParaFacts DEF ReadHead
  <2> QED BY <2>1, <2>2
<1>5. CASE PrepareRelay
  <2>1. \A b \in MetaBlocks(RC) : b \in Number \cup {Unverified}
    BY ParaFacts, BlocksAssumption DEF MetaBlocks, Pinned
  <2>2. Pinned(RC) => <<RC, BiteAt[RC]>> \in Block
    BY ParaFacts, BlocksAssumption DEF Pinned, Block
  <2>3. /\ metaAt' \in [Chains -> Number \cup {Unverified}]
        /\ header' \in [Chains -> Block \cup {None}]
    BY <1>5, <2>1, <2>2, ParaFacts DEF PrepareRelay
  <2> QED BY <1>5, <2>3 DEF PrepareRelay
<1>6. CASE DestroyRelay
  BY <1>6, ParaFacts DEF DestroyRelay
<1>7. CASE PackRelay
  BY <1>7, ParaFacts DEF PackRelay
<1>13. CASE ReadInfos
  BY <1>13 DEF ReadInfos
<1>8. CASE Fail
  BY <1>8 DEF Fail
<1>9. ASSUME NEW c \in Chains, Sync(c) PROVE TypeOK'
  BY <1>9 DEF Sync, SpawnNode, WaitOver
<1>10. ASSUME NEW c \in Chains, NodeRuns(c) PROVE TypeOK'
  <2>1. CASE NodeUp(c)
    BY <2>1 DEF NodeUp
  <2>2. CASE NodeSynced(c)
    <3> DEFINE block == IF header[c] # None THEN header[c] ELSE <<c, source[c]>>
    <3>1. block \in Block
      BY <1>10, BlockFacts
    <3> QED BY <2>2, <3>1 DEF NodeSynced
  <2>3. CASE NodeDies(c)
    BY <2>3 DEF NodeDies
  <2> QED BY <1>10, <2>1, <2>2, <2>3 DEF NodeRuns
<1>11. ASSUME NEW c \in Chains, Extend(c) PROVE TypeOK'
  <2>1. source[c] + 1 \in Number
    BY <1>11, BlocksAssumption DEF Extend, Number
  <2> QED BY <1>11, <2>1 DEF Extend
<1>12. CASE Over \/ UNCHANGED vars
  BY <1>12 DEF Over, vars
<1> QED BY <1>1, <1>2, <1>3, <1>4, <1>5, <1>6, <1>7, <1>8, <1>9, <1>10, <1>11, <1>12,
        <1>13
        DEF Next, Process

\* Every state of a bite is well typed, for any parachains and blocks, with or
\* without faults.
THEOREM TypeCorrect == Spec => []TypeOK
BY InitTyped, StepTyped, PTL DEF Spec

-----------------------------------------------------------------------------
LEMMA InitInv == Init => Inv
<1> SUFFICES ASSUME Init PROVE Calm /\ Inv
  OBVIOUS
<1>1. TypeOK
  BY InitTyped
<1>2. JoinInv /\ PackInv
  BY ParaFacts DEF Init, JoinInv, Joined, PackInv
<1>3. NodeInv /\ RelayInv
  BY ParaFacts DEF Init, NodeInv, RelayInv
<1> QED BY <1>1, <1>2, <1>3 DEF Calm, Inv

\* A step forgets no resolved future, and the join waits for all.
LEMMA JoinStep == TypeOK /\ JoinInv /\ [Next]_vars => JoinInv'
<1> SUFFICES ASSUME TypeOK, JoinInv, [Next]_vars PROVE JoinInv'
  OBVIOUS
<1>1. CASE Process \/ Fail \/ Over \/ UNCHANGED vars
  <2>1. task' = task /\ (Joined' => Joined \/ AllOver)
    BY <1>1 DEF Process, Fail, Over, PreparePara, Join, PackPara, ReadHead, PrepareRelay,
                DestroyRelay, PackRelay, ReadInfos, nodes, vars, Joined
  <2> QED BY <2>1 DEF JoinInv, AllOver
<1>2. ASSUME NEW c \in Chains, Sync(c) PROVE JoinInv'
  <2>1. pc' = pc /\ (task' = [task EXCEPT ![c] = "over"] \/ task[c] = "lazy")
    BY <1>2 DEF Sync, SpawnNode, WaitOver
  <2>2. AllOver => AllOver'
    BY <1>2, <2>1, ParaFacts DEF Sync, SpawnNode, WaitOver, AllOver, TypeOK
  <2> QED BY <2>1, <2>2 DEF JoinInv, Joined
<1>3. ASSUME NEW c \in Chains, NodeRuns(c) \/ Extend(c) PROVE JoinInv'
  BY <1>3 DEF NodeRuns, NodeUp, NodeSynced, NodeDies, Extend, nodes, JoinInv, Joined, AllOver
<1> QED BY <1>1, <1>2, <1>3 DEF Next

\* What bite() itself does leaves the futures and the parachains' nodes alone.
LEMMA ProcessFrame ==
  ASSUME Calm, Process \/ Fail
  PROVE  /\ UNCHANGED <<task, db, head>>
         /\ \A p \in ParaSet : node'[p] = node[p]
         /\ NodeInv' /\ (AllOver' <=> AllOver)
<1>1. UNCHANGED <<task, db, head>>
  BY DEF Process, Fail, PreparePara, Join, PackPara, ReadHead, PrepareRelay, DestroyRelay,
         PackRelay, ReadInfos, files, nodes
<1>2. node' = node \/ node' = [node EXCEPT ![RC] = "off"]
  BY DEF Process, Fail, PreparePara, Join, PackPara, ReadHead, PrepareRelay, DestroyRelay,
         PackRelay, ReadInfos, files, nodes
<1>3. \A p \in ParaSet : node'[p] = node[p]
  BY <1>2, ParaFacts DEF Calm, TypeOK
<1> QED BY <1>1, <1>3 DEF Calm, NodeInv, AllOver

LEMMA ProcessInv == Calm /\ TypeOK' /\ (Process \/ Fail) => Calm'
<1> SUFFICES ASSUME Calm, TypeOK', Process \/ Fail PROVE JoinInv' /\ PackInv' /\ RelayInv'
  BY ProcessFrame DEF Calm
<1>1. /\ task' = task /\ db' = db /\ head' = head
      /\ AllOver' <=> AllOver
  BY ProcessFrame
<1>2. CASE PreparePara
  <2>1. /\ pc' = "prepare" \/ (pc' = "join" /\ at' = 1)
        /\ node[RC] = "off" /\ node' = node
    BY <1>2 DEF PreparePara, nodes, Calm, RelayInv
  <2> QED BY <2>1 DEF JoinInv, Joined, PackInv, RelayInv
<1>3. CASE Join
  <2>1. /\ pc' = "packPara" /\ at' = 1 /\ AllOver
        /\ node[RC] = "off" /\ node' = node
    BY <1>3 DEF Join, nodes, Calm, PackInv, RelayInv
  <2> QED BY <1>1, <2>1 DEF JoinInv, Joined, PackInv, RelayInv
<1>4. CASE PackPara
  <2>1. /\ pc = "packPara" /\ pc' = "readHead" /\ at' = at /\ AllOver
        /\ heads' = heads
        /\ snap' = [snap EXCEPT ![Paras[at]] = db[Paras[at]]]
        /\ node[RC] = "off" /\ node' = node
    BY <1>4 DEF PackPara, nodes, Calm, JoinInv, Joined, RelayInv
  <2>2. at \in DOMAIN Paras
    BY DEF Calm, TypeOK
  <2>3. snap'[Paras[at]] = db[Paras[at]]
    BY <2>1, <2>2, ParaFacts DEF Calm, TypeOK
  <2>4. \A j \in 1 .. at - 1 : Packed(Paras[j])'
    BY <1>1, <2>1, <2>2, ParaFacts DEF Calm, TypeOK, PackInv, Packed
  <2> QED BY <1>1, <2>1, <2>3, <2>4 DEF JoinInv, Joined, PackInv, RelayInv
<1>5. CASE ReadHead
  <2>1. PICK p \in ParaSet :
          /\ p = Paras[at] /\ at \in DOMAIN Paras
          /\ pc = "readHead" /\ AllOver /\ snap' = snap
          /\ heads' = [heads EXCEPT ![p] = head[p]]
          /\ node[RC] = "off" /\ node' = node
    BY <1>5, ParaFacts DEF ReadHead, nodes, Calm, TypeOK, JoinInv, Joined, RelayInv
  <2>2. head[p] = db[p] /\ snap[p] = db[p]
    BY <2>1 DEF Calm, NodeInv, AllOver, PackInv
  <2>3. heads'[p] = db[p] /\ \A q \in ParaSet \ {p} : heads'[q] = heads[q]
    BY <2>1, <2>2 DEF Calm, TypeOK
  <2>4. \A q \in ParaSet : q = p \/ Packed(q) => Packed(q)'
    BY <1>1, <2>1, <2>2, <2>3 DEF Packed
  <2>8. \A j \in 1 .. at : Packed(Paras[j])'
    <3>3. \A j \in 1 .. at - 1 : j \in DOMAIN Paras
      BY <2>1, ParaFacts
    <3>4. \A j \in 1 .. at - 1 : Packed(Paras[j])
      BY <2>1 DEF Calm, PackInv
    <3>1. \A j \in 1 .. at - 1 : Paras[j] \in ParaSet /\ Packed(Paras[j])
      BY <3>3, <3>4, ParaFacts
    <3>2. \A j \in 1 .. at : j = at \/ j \in 1 .. at - 1
      BY <2>1, ParaFacts
    <3> QED BY <2>1, <2>4, <3>1, <3>2
  <2>5. CASE pc' = "failed"
    BY <2>1, <2>5 DEF JoinInv, Joined, PackInv, RelayInv
  <2>6. CASE pc' = "packPara" /\ at' = at + 1
    <3>1. \A j \in 1 .. at' - 1 : Packed(Paras[j])'
      BY <2>1, <2>8, <2>6, ParaFacts
    <3> QED BY <1>1, <2>1, <2>6, <3>1 DEF JoinInv, Joined, PackInv, RelayInv
  <2>7. CASE pc' = "prepareRelay" /\ at = Len(Paras)
    <3>1. \A q \in ParaSet : Packed(q)'
      BY <2>8, <2>7, ParaFacts
    <3> QED BY <1>1, <2>1, <2>7, <3>1 DEF JoinInv, Joined, PackInv, RelayInv
  <2> QED BY <1>5, <2>1, <2>5, <2>6, <2>7, ParaFacts DEF ReadHead
<1>6. CASE PrepareRelay
  <2>1. /\ pc = "prepareRelay" /\ pc' = "syncRelay"
        /\ UNCHANGED <<snap, heads, node>> /\ node[RC] = "off"
    BY <1>6 DEF PrepareRelay, nodes, Calm, RelayInv
  <2>2. AllOver /\ \A p \in ParaSet : Packed(p)'
    BY <1>1, <2>1 DEF Calm, JoinInv, Joined, PackInv, Packed
  <2> QED BY <1>1, <2>1, <2>2 DEF JoinInv, Joined, PackInv, RelayInv
<1>7. CASE DestroyRelay
  <2>1. /\ pc = "syncRelay" /\ pc' = "packRelay"
        /\ UNCHANGED <<snap, heads>> /\ node'[RC] = "off"
    BY <1>7, ParaFacts DEF DestroyRelay, files, Calm, TypeOK
  <2>2. AllOver /\ \A p \in ParaSet : Packed(p)'
    BY <1>1, <2>1 DEF Calm, JoinInv, Joined, PackInv, Packed
  <2> QED BY <1>1, <2>1, <2>2 DEF JoinInv, Joined, PackInv, RelayInv
<1>8. CASE PackRelay
  <2>1. /\ pc = "packRelay" /\ pc' = "readInfos"
        /\ UNCHANGED <<heads, node>>
        /\ snap' = [snap EXCEPT ![RC] = db[RC]]
    BY <1>8 DEF PackRelay, nodes
  <2>2. AllOver /\ \A p \in ParaSet : Packed(p)'
    BY <1>1, <2>1, ParaFacts DEF Calm, TypeOK, JoinInv, Joined, PackInv, Packed
  <2> QED BY <1>1, <2>1, <2>2 DEF JoinInv, Joined, PackInv, RelayInv
<1>10. CASE ReadInfos
  <2>1. pc = "readInfos" /\ pc' \in {"done", "failed"} /\ UNCHANGED <<snap, heads, node>>
    BY <1>10 DEF ReadInfos, files, nodes
  <2> QED BY <1>1, <2>1 DEF Calm, JoinInv, Joined, PackInv, RelayInv, Packed
<1>9. CASE Fail
  <2>1. pc' = "failed" /\ UNCHANGED <<snap, heads, node>>
    BY <1>9 DEF Fail, files, nodes
  <2> QED BY <1>1, <2>1 DEF Calm, JoinInv, Joined, PackInv, RelayInv, Packed
<1> QED BY <1>2, <1>3, <1>4, <1>5, <1>6, <1>7, <1>8, <1>9, <1>10 DEF Process

\* A node that is still at its import is one the join waits for, or the relay
\* chain's: whatever it does leaves what was packed alone.
LEMMA NodeFrame ==
  ASSUME Calm, NEW c \in Chains, node[c] \in {"starting", "syncing"},
         UNCHANGED <<pc, at, snap, heads, task>>,
         NEW n \in {"syncing", "synced"}, node' = [node EXCEPT ![c] = n],
         \A q \in Chains : q # c => db'[q] = db[q] /\ head'[q] = head[q]
  PROVE  JoinInv' /\ PackInv' /\ RelayInv'
<1>1. AllOver' <=> AllOver
  BY DEF AllOver
<1>2. CASE c = RC
  <2>1. \A p \in ParaSet : Packed(p)' <=> Packed(p)
    BY <1>2, ParaFacts DEF Packed
  <2>2. pc \notin {"prepare", "join", "packPara", "readHead", "prepareRelay"}
    BY <1>2 DEF Calm, RelayInv
  <2>3. AllOver /\ \A p \in ParaSet : Packed(p)
    BY <1>2 DEF Calm, RelayInv
  <2> QED BY <1>1, <2>1, <2>2, <2>3 DEF Calm, JoinInv, Joined, PackInv, RelayInv
<1>3. CASE c # RC
  <2>1. c \in ParaSet /\ task[c] # "over"
    BY <1>3 DEF Calm, NodeInv, Chains
  <2>2. ~AllOver
    BY <2>1 DEF AllOver
  <2>3. ~Joined /\ node[RC] = "off"
    BY <2>2 DEF Calm, JoinInv, RelayInv
  <2>4. node'[RC] = "off"
    BY <1>3, <2>3, ParaFacts DEF Calm, TypeOK
  <2> QED BY <1>1, <2>2, <2>3, <2>4 DEF Calm, JoinInv, Joined, PackInv, RelayInv
<1> QED BY <1>2, <1>3

\* The steps of the nodes, their futures and the source chains.
LEMMA ChainInv ==
  ASSUME ~faulted', Calm, TypeOK', NEW c \in Chains, Sync(c) \/ NodeRuns(c) \/ Extend(c)
  PROVE  Calm'
<1>1. UNCHANGED <<pc, at, snap, heads>>
  BY DEF Sync, SpawnNode, WaitOver, NodeRuns, NodeUp, NodeSynced, NodeDies, Extend, files
<1>2. CASE SpawnNode(c)
  <2>1. /\ task[c] = "lazy" /\ UNCHANGED <<db, head>>
        /\ task' = [task EXCEPT ![c] = "waiting"]
        /\ node' = [node EXCEPT ![c] = "starting"]
    BY <1>2 DEF SpawnNode
  <2>2. NodeInv'
    BY <2>1, ParaFacts DEF Calm, TypeOK, NodeInv
  <2>3. AllOver => c = RC
    BY <2>1, ParaFacts DEF AllOver, Chains
  <2>4. AllOver => AllOver'
    BY <2>1, <2>3, ParaFacts DEF Calm, TypeOK, AllOver
  <2>5. c = RC => pc = "syncRelay"
    BY <1>2 DEF SpawnNode, Polled
  <2>6. JoinInv' /\ PackInv'
    BY <1>1, <2>1, <2>4 DEF Calm, JoinInv, Joined, PackInv, Packed
  <2>7. RelayInv'
    <3>1. CASE c = RC
      BY <1>1, <2>1, <2>4, <2>5, <3>1 DEF Calm, JoinInv, Joined, PackInv, RelayInv, Packed
    <3>2. CASE c # RC
      BY <1>1, <2>1, <2>4, <3>2, ParaFacts DEF Calm, TypeOK, RelayInv, Packed
    <3> QED BY <3>1, <3>2
  <2> QED BY <2>2, <2>6, <2>7 DEF Calm
<1>3. CASE WaitOver(c)
  <2>1. /\ task[c] = "waiting" /\ UNCHANGED <<node, db, head>>
        /\ task' = [task EXCEPT ![c] = "over"]
        /\ node[c] = "synced"
    BY <1>3 DEF WaitOver
  <2>3. NodeInv'
    BY <2>1 DEF Calm, TypeOK, NodeInv
  <2>4. AllOver => AllOver'
    BY <2>1 DEF Calm, TypeOK, AllOver
  <2> QED BY <1>1, <2>1, <2>3, <2>4 DEF Calm, JoinInv, Joined, PackInv, RelayInv, Packed
<1>4. CASE NodeUp(c)
  <2>1. /\ node[c] = "starting" /\ task' = task /\ head' = head
        /\ node' = [node EXCEPT ![c] = "syncing"]
        /\ db' = [db EXCEPT ![c] = Partial]
    BY <1>4 DEF NodeUp
  <2>2. JoinInv' /\ PackInv' /\ RelayInv'
    <3>1. \A q \in Chains : q # c => db'[q] = db[q] /\ head'[q] = head[q]
      BY <2>1 DEF Calm, TypeOK
    <3> QED BY <1>1, <2>1, <3>1, NodeFrame
  <2>3. NodeInv'
    BY <2>1 DEF Calm, TypeOK, NodeInv
  <2> QED BY <2>2, <2>3 DEF Calm
<1>5. CASE NodeSynced(c)
  <2>1. PICK block \in Block :
          /\ node[c] = "syncing" /\ task' = task
          /\ node' = [node EXCEPT ![c] = "synced"]
          /\ db' = [db EXCEPT ![c] = block]
          /\ head' = IF c = RC THEN head ELSE [head EXCEPT ![c] = block]
    BY <1>5, BlockFacts DEF NodeSynced, Calm, TypeOK
  <2>2. JoinInv' /\ PackInv' /\ RelayInv'
    <3>1. \A q \in Chains : q # c => db'[q] = db[q] /\ head'[q] = head[q]
      BY <2>1 DEF Calm, TypeOK
    <3> QED BY <1>1, <2>1, <3>1, NodeFrame
  <2>3. NodeInv'
    BY <2>1, ParaFacts DEF Calm, TypeOK, NodeInv
  <2> QED BY <2>2, <2>3 DEF Calm
<1>6. CASE NodeDies(c)
  BY <1>6 DEF NodeDies
<1>7. CASE Extend(c)
  BY <1>1, <1>7 DEF Extend, nodes, Calm, JoinInv, Joined, NodeInv, PackInv, RelayInv, Packed, AllOver
<1> QED BY <1>2, <1>3, <1>4, <1>5, <1>6, <1>7 DEF Sync, NodeRuns

LEMMA StepInv == Inv /\ [Next]_vars => Inv'
<1> SUFFICES ASSUME Inv, [Next]_vars PROVE Inv'
  OBVIOUS
<1>1. TypeOK' /\ JoinInv'
  BY StepTyped, JoinStep DEF Inv
<1>2. ASSUME ~faulted' PROVE Calm'
  <2>1. ~faulted
    BY <1>2 DEF Next, Process, Fail, Over, PreparePara, Join, PackPara, ReadHead, PrepareRelay,
                DestroyRelay, PackRelay, ReadInfos, Sync, SpawnNode, WaitOver, NodeRuns, NodeUp, NodeSynced,
                NodeDies, Extend, nodes, vars
  <2>2. Calm
    BY <2>1 DEF Inv
  <2>3. CASE Process \/ Fail
    BY <1>1, <2>2, <2>3, ProcessInv
  <2>4. ASSUME NEW c \in Chains, Sync(c) \/ NodeRuns(c) \/ Extend(c) PROVE Calm'
    BY <1>1, <1>2, <2>2, <2>4, ChainInv
  <2>5. CASE Over \/ UNCHANGED vars
    BY <1>1, <2>2, <2>5 DEF Over, vars, files, nodes, Calm, JoinInv, Joined, NodeInv, PackInv,
                            RelayInv, Packed, AllOver
  <2> QED BY <2>3, <2>4, <2>5 DEF Next
<1> QED BY <1>1, <1>2 DEF Inv

\* What the relay chain is forked with are the heads of the states that were
\* packed, for any parachains, pinned or not, and with any leftovers, in a bite
\* none of whose nodes and requests has failed so far.
THEOREM RelayKnowsHeads == Spec => []RelayKnowsTheHeads
<1>1. Inv => RelayKnowsTheHeads
  BY DEF Inv, Calm, RelayInv, NodeInv, AllOver, Packed, RelayKnowsTheHeads
<1> QED BY InitInv, StepInv, <1>1, PTL DEF Spec

-----------------------------------------------------------------------------
(* The start blocks of ready.json.                                         *)

\* Whose import is complete, as long as nothing has failed, and which number it
\* then wrote; only the relay chain's node is destroyed.
InfoInv ==
  \A c \in Chains :
    /\ task[c] = "lazy" => node[c] = "off"
    /\ task[c] = "waiting" => node[c] \in {"starting", "syncing", "synced"}
    /\ task[c] = "over" => node[c] \in {"synced", "off"}
    /\ task[c] = "over" \/ node[c] = "synced" => info[c] = db[c]

\* The relay chain's database is packed when its future has resolved.
RelayPacked ==
  /\ pc \in {"packRelay", "readInfos", "done"} => task[RC] = "over"
  /\ pc \in {"readInfos", "done"} => snap[RC] = db[RC]

LEMMA InfoStep ==
  ASSUME TypeOK, ~faulted => InfoInv /\ RelayPacked, [Next]_vars
  PROVE  ~faulted' => (InfoInv /\ RelayPacked)'
<1> SUFFICES ASSUME ~faulted' PROVE InfoInv' /\ RelayPacked'
  OBVIOUS
<1>3. ~faulted
  BY DEF Next, Process, Fail, Over, PreparePara, Join, PackPara, ReadHead, PrepareRelay,
         DestroyRelay, PackRelay, ReadInfos, Sync, SpawnNode, WaitOver, NodeRuns, NodeUp,
         NodeSynced, NodeDies, Extend, nodes, vars
<1>1. CASE Process \/ Fail \/ Over \/ UNCHANGED vars
  <2>1. /\ UNCHANGED <<task, db, info>>
        /\ \/ node' = node
           \/ task[RC] = "over" /\ node' = [node EXCEPT ![RC] = "off"]
    <3>1. CASE DestroyRelay
      <4>1. /\ task[RC] = "over" /\ node' = [node EXCEPT ![RC] = "off"]
            /\ task' = task /\ db' = db /\ info' = info
        BY <3>1, Zenon DEF DestroyRelay
      <4> QED BY <4>1
    <3>2. CASE ~DestroyRelay
      <4>1. UNCHANGED nodes
        BY <1>1, <3>2 DEF Process, Fail, Over, PreparePara, Join, PackPara, ReadHead, PrepareRelay,
                          PackRelay, ReadInfos, vars
      <4> QED BY <4>1 DEF nodes
    <3> QED BY <3>1, <3>2
  <2>2. InfoInv /\ RelayPacked
    BY <1>3
  <2>3. InfoInv'
    <3>1. CASE node' = node
      BY <2>1, <2>2, <3>1 DEF InfoInv
    <3>2. CASE task[RC] = "over" /\ node' = [node EXCEPT ![RC] = "off"]
      BY <2>1, <2>2, <3>2, ParaFacts DEF InfoInv, TypeOK
    <3> QED BY <2>1, <3>1, <3>2
  <2>4. RelayPacked'
    <3>1. CASE PackRelay
      BY <2>1, <2>2, <3>1, ParaFacts DEF PackRelay, RelayPacked, TypeOK
    <3>2. CASE ~PackRelay
      BY <1>1, <2>1, <2>2, <3>2 DEF Process, Fail, Over, PreparePara, Join, PackPara, ReadHead,
         PrepareRelay, DestroyRelay, ReadInfos, files, nodes, vars, RelayPacked
    <3> QED BY <3>1, <3>2
  <2> QED BY <2>3, <2>4
<1>2. ASSUME NEW c \in Chains, Sync(c) \/ NodeRuns(c) \/ Extend(c) PROVE InfoInv' /\ RelayPacked'
  <2>1. UNCHANGED <<pc, snap>>
    <3>1. CASE Sync(c) \/ Extend(c)
      BY <3>1 DEF Sync, SpawnNode, WaitOver, Extend, files, nodes
    <3>2. CASE NodeRuns(c)
      BY <3>2 DEF NodeRuns, NodeUp, NodeSynced, NodeDies, files
    <3> QED BY <1>2, <3>1, <3>2
  <2>2. InfoInv /\ RelayPacked
    BY <1>3
  <2>3. task[RC] = "over" => task'[RC] = "over" /\ db'[RC] = db[RC]
    <3> SUFFICES ASSUME task[RC] = "over" PROVE task'[RC] = "over" /\ db'[RC] = db[RC]
      OBVIOUS
    <3>1. RC \in Chains /\ node[RC] \notin {"starting", "syncing"}
      BY <2>2, ParaFacts DEF InfoInv
    <3>2. CASE Sync(c)
      <4>1. db' = db /\ (task' = [task EXCEPT ![c] = "waiting"] \/ task' = [task EXCEPT ![c] = "over"])
        BY <3>2 DEF Sync, SpawnNode, WaitOver
      <4>2. task[c] # "over"
        BY <3>2 DEF Sync, SpawnNode, WaitOver
      <4> QED BY <3>1, <4>1, <4>2 DEF TypeOK
    <3>3. CASE NodeRuns(c)
      <4>1. task' = task /\ node[c] \in {"starting", "syncing"}
        BY <3>3 DEF NodeRuns, NodeUp, NodeSynced, NodeDies
      <4>2. db' = db \/ \E b : db' = [db EXCEPT ![c] = b]
        <5>1. CASE NodeUp(c)
          BY <5>1 DEF NodeUp
        <5>2. CASE NodeSynced(c)
          BY <5>2 DEF NodeSynced
        <5>3. CASE NodeDies(c)
          BY <5>3 DEF NodeDies
        <5> QED BY <3>3, <5>1, <5>2, <5>3 DEF NodeRuns
      <4>3. c # RC
        BY <3>1, <4>1
      <4> QED BY <3>1, <4>1, <4>2, <4>3 DEF TypeOK
    <3>4. CASE Extend(c)
      BY <3>4 DEF Extend, nodes
    <3> QED BY <1>2, <3>2, <3>3, <3>4
  <2>4. InfoInv'
    <3>1. CASE SpawnNode(c)
      BY <2>2, <3>1 DEF SpawnNode, InfoInv, TypeOK
    <3>2. CASE WaitOver(c)
      BY <2>2, <3>2 DEF WaitOver, InfoInv, TypeOK
    <3>3. CASE NodeUp(c)
      BY <2>2, <3>3 DEF NodeUp, InfoInv, TypeOK
    <3>4. CASE NodeSynced(c)
      <4>1. PICK block :
              /\ node[c] = "syncing" /\ node' = [node EXCEPT ![c] = "synced"] /\ task' = task
              /\ db' = [db EXCEPT ![c] = block] /\ info' = [info EXCEPT ![c] = block]
        BY <3>4 DEF NodeSynced
      <4> QED BY <2>2, <4>1 DEF InfoInv, TypeOK
    <3>5. CASE NodeDies(c)
      BY <3>5 DEF NodeDies
    <3>6. CASE Extend(c)
      BY <2>2, <3>6 DEF Extend, nodes, InfoInv
    <3> QED BY <1>2, <3>1, <3>2, <3>3, <3>4, <3>5, <3>6 DEF Sync, NodeRuns
  <2> QED BY <2>1, <2>2, <2>3, <2>4 DEF RelayPacked
<1> QED BY <1>1, <1>2 DEF Next

\* The start blocks ready.json tells are those of the states that were packed, for
\* any parachains, pinned or not, and with any leftovers, in a bite none of whose
\* nodes and requests has failed.
THEOREM ReadyIsTrue == Spec => []ReadyTellsTheBlocks
<1>1. Init => InfoInv /\ RelayPacked
  BY ParaFacts DEF Init, InfoInv, RelayPacked
<1>2. Inv /\ TypeOK /\ (~faulted => InfoInv /\ RelayPacked) => ReadyTellsTheBlocks
  <2> SUFFICES ASSUME Inv, TypeOK, ~faulted => InfoInv /\ RelayPacked, pc = "done", ~faulted
               PROVE  info = snap
    BY DEF ReadyTellsTheBlocks
  <2>1. \A p \in ParaSet : task[p] = "over" /\ snap[p] = db[p]
    BY DEF Inv, Calm, JoinInv, Joined, AllOver, PackInv, Packed
  <2>2. task[RC] = "over" /\ snap[RC] = db[RC]
    BY DEF RelayPacked
  <2>3. \A c \in Chains : info[c] = snap[c]
    BY <2>1, <2>2 DEF InfoInv, Chains
  <2> QED BY <2>3 DEF TypeOK
<1> QED BY InitInv, StepInv, TypeCorrect, InfoStep, <1>1, <1>2, PTL DEF Spec

-----------------------------------------------------------------------------
(* Overrides and states, when the parachains share no header file.         *)

AtMostOnePinned == \A p, q \in ParaSet : Pinned(p) /\ Pinned(q) => p = q

\* The chain's node is sent to its block, and the overrides are of it.
Matches(c) ==
  Pinned(c) => header[c] = <<c, BiteAt[c]>> /\ metaAt[c] \in {BiteAt[c], Unverified}

\* How far the preparation is: a chain is prepared before its node starts.
MatchInv ==
  /\ pc = "prepare" => /\ \A c \in Chains : node[c] = "off"
                       /\ \A j \in 1 .. at - 1 : Matches(Paras[j])
  /\ pc \in {"join", "packPara", "readHead", "prepareRelay"} => node[RC] = "off"
  /\ pc \notin {"prepare", "failed"} => \A p \in ParaSet : Matches(p)
  /\ pc \in {"syncRelay", "packRelay", "readInfos", "done"} => Matches(RC)
  /\ \A c \in Chains : node[c] # "off" => Matches(c)

LEMMA PrepareMatch ==
  ASSUME TypeOK, MatchInv, AtMostOnePinned, PreparePara
  PROVE  MatchInv'
<1>0. PICK p \in ParaSet : p = Paras[at]
  BY ParaFacts DEF TypeOK
<1>1. /\ pc = "prepare" /\ node' = node /\ at \in DOMAIN Paras
      /\ at \in 1 .. Len(Paras) /\ Len(Paras) \in Nat /\ DOMAIN Paras = 1 .. Len(Paras)
      /\ p \in Chains /\ p # RC
      /\ \A c \in Chains : node[c] = "off"
      /\ \A j \in 1 .. at - 1 : Matches(Paras[j])
  BY ParaFacts DEF PreparePara, TypeOK, MatchInv, nodes
<1>2. PICK b \in MetaBlocks(p) : metaAt' = [metaAt EXCEPT ![p] = b]
  BY <1>0 DEF PreparePara
<1>3. Pinned(p) => b \in {BiteAt[p], Unverified}
  BY DEF MetaBlocks
<1>4. ASSUME Pinned(p) PROVE header'[p] = <<p, BiteAt[p]>>
  <2>1. header' = [c \in Chains |-> IF c \in HeaderFiles(p) THEN <<p, BiteAt[p]>> ELSE header[c]]
    BY <1>0, <1>4 DEF PreparePara
  <2>2. p \in HeaderFiles(p)
    BY <1>1, <1>4 DEF HeaderFiles
  <2> QED BY <1>1, <2>1, <2>2
<1>5. ASSUME NEW q \in ParaSet, q # p, Matches(q) PROVE Matches(q)'
  <2>1. CASE Pinned(q)
    <3>1. ~Pinned(p) /\ header' = header
      BY <1>0, <1>1, <1>5, <2>1 DEF AtMostOnePinned, PreparePara
    <3> QED BY <1>1, <1>2, <1>5, <3>1, ParaFacts DEF Matches, TypeOK, Pinned
  <2>2. CASE ~Pinned(q)
    BY <2>2 DEF Matches, Pinned
  <2> QED BY <2>1, <2>2
<1>6. Matches(p)'
  BY <1>1, <1>2, <1>3, <1>4 DEF Matches, TypeOK, Pinned
<1>7. \A j \in 1 .. at : Matches(Paras[j])'
  <2> TAKE j \in 1 .. at
  <2>1. Paras[j] \in ParaSet
    BY <1>1, ParaFacts
  <2>2. j = at \/ j \in 1 .. at - 1
    BY <1>1
  <2> QED BY <1>0, <1>1, <1>5, <1>6, <2>1, <2>2
<1>8. CASE at < Len(Paras)
  <2>1. pc' = "prepare" /\ at' = at + 1
    BY <1>1, <1>8 DEF PreparePara
  <2>2. \A j \in 1 .. at' - 1 : j \in 1 .. at
    BY <1>1, <2>1
  <2> QED BY <1>1, <1>7, <2>1, <2>2 DEF MatchInv
<1>9. CASE ~(at < Len(Paras))
  <2>1. pc' = "join" /\ at = Len(Paras)
    BY <1>1, <1>9 DEF PreparePara
  <2>2. \A q \in ParaSet : Matches(q)'
    BY <1>1, <1>7, <2>1, ParaFacts
  <2> QED BY <1>1, <2>1, <2>2, ParaFacts DEF MatchInv
<1> QED BY <1>8, <1>9

\* Later steps change neither, but for the relay chain's own.
LEMMA LaterMatch ==
  ASSUME TypeOK, MatchInv, [Next]_vars, ~PreparePara
  PROVE  MatchInv'
<1>1. CASE \/ Join \/ PackPara \/ ReadHead \/ DestroyRelay \/ PackRelay \/ ReadInfos
           \/ Fail \/ Over \/ UNCHANGED vars
  <2>1. UNCHANGED <<header, metaAt>> /\ \A c \in Chains : node'[c] \in {node[c], "off"}
    BY <1>1 DEF Join, PackPara, ReadHead, DestroyRelay, PackRelay, ReadInfos, Fail, Over, vars, files, nodes,
                TypeOK
  <2>2. \A c \in Chains : Matches(c)' <=> Matches(c)
    BY <2>1 DEF Matches, Pinned
  <2>3. \/ pc' = pc /\ at' = at
        \/ pc' = "failed"
        \/ pc = "join" /\ pc' = "packPara"
        \/ pc \in {"packPara", "readHead"} /\ pc' \in {"packPara", "readHead", "prepareRelay"}
        \/ pc \in {"syncRelay", "packRelay", "readInfos"} /\ pc' \in {"packRelay", "readInfos", "done"}
    BY <1>1 DEF Join, PackPara, ReadHead, DestroyRelay, PackRelay, ReadInfos, Fail, Over, vars
  <2>4. \A q \in ParaSet : q \in Chains
    BY ParaFacts
  <2>5. \A c \in Chains : node'[c] # "off" => Matches(c)'
    BY <2>1, <2>2 DEF MatchInv
  <2>6. pc' = "prepare" => pc = "prepare" /\ at' = at
    BY <2>3
  <2>7. \A j \in DOMAIN Paras : Paras[j] \in Chains
    BY ParaFacts
  <2>8. pc' = "prepare" => \A j \in 1 .. at' - 1 : Matches(Paras[j])'
    <3> SUFFICES ASSUME pc' = "prepare", NEW j \in 1 .. at' - 1 PROVE Matches(Paras[j])'
      OBVIOUS
    <3>1. j \in DOMAIN Paras
      BY <2>6, ParaFacts DEF TypeOK
    <3> QED BY <2>2, <2>6, <2>7, <3>1 DEF MatchInv
  <2> QED BY <2>1, <2>2, <2>3, <2>4, <2>5, <2>6, <2>8, ParaFacts DEF MatchInv
<1>2. CASE PrepareRelay
  <2>1. /\ pc = "prepareRelay" /\ pc' = "syncRelay" /\ node' = node
        /\ node[RC] = "off" /\ \A q \in ParaSet : Matches(q)
    BY <1>2 DEF PrepareRelay, MatchInv, nodes
  <2>2. PICK b \in MetaBlocks(RC) : metaAt' = [metaAt EXCEPT ![RC] = b]
    BY <1>2 DEF PrepareRelay
  <2>3. /\ \A q \in ParaSet : header'[q] = header[q] /\ metaAt'[q] = metaAt[q]
        /\ Pinned(RC) => header'[RC] = <<RC, BiteAt[RC]>>
        /\ metaAt'[RC] = b
    BY <1>2, <2>2, ParaFacts DEF PrepareRelay, TypeOK
  <2>4. Matches(RC)'
    BY <2>3 DEF Matches, MetaBlocks, Pinned
  <2>5. \A q \in ParaSet : Matches(q)'
    BY <2>1, <2>3 DEF Matches, Pinned
  <2> QED BY <2>1, <2>4, <2>5, ParaFacts DEF MatchInv, Chains
<1>3. ASSUME NEW c \in Chains, Sync(c) \/ NodeRuns(c) \/ Extend(c) PROVE MatchInv'
  <2>1. /\ UNCHANGED <<pc, at, header, metaAt>>
        /\ \A d \in Chains : d # c => node'[d] = node[d]
    BY <1>3 DEF Sync, SpawnNode, WaitOver, NodeRuns, NodeUp, NodeSynced, NodeDies, Extend, files,
                nodes, TypeOK
  <2>2. \A d : Matches(d)' <=> Matches(d)
    BY <2>1 DEF Matches, Pinned
  <2>3. node'[c] = node[c] \/ node[c] # "off" \/ Polled(c)
    BY <1>3 DEF Sync, SpawnNode, WaitOver, NodeRuns, NodeUp, NodeSynced, NodeDies, Extend, nodes,
                TypeOK
  <2>4. CASE node'[c] = node[c]
    BY <2>1, <2>2, <2>4, ParaFacts DEF MatchInv, Chains
  <2>5. CASE node[c] # "off"
    BY <2>1, <2>2, <2>5, ParaFacts DEF MatchInv, Chains
  <2>6. CASE Polled(c)
    BY <2>1, <2>2, <2>6, ParaFacts DEF MatchInv, Polled, Chains
  <2> QED BY <2>3, <2>4, <2>5, <2>6
<1> QED BY <1>1, <1>2, <1>3 DEF Next, Process

\* With one parachain at most that is bitten at a given block, the overrides
\* every chain's node is given are of the block it is sent to; with two the run
\* bite_pinned shows that they need not be.
THEOREM OverridesMatch == AtMostOnePinned /\ Spec => []OverridesMatchTheState
<1> SUFFICES ASSUME AtMostOnePinned PROVE Spec => []OverridesMatchTheState
  OBVIOUS
<1>1. Init => MatchInv
  BY ParaFacts DEF Init, MatchInv
<1>2. TypeOK /\ MatchInv /\ [Next]_vars => MatchInv'
  BY PrepareMatch, LaterMatch
<1>3. MatchInv => OverridesMatchTheState
  BY DEF MatchInv, Matches, OverridesMatchTheState
<1> QED BY <1>1, <1>2, <1>3, TypeCorrect, PTL DEF Spec

=============================================================================
