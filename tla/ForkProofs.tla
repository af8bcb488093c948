------------------------------ MODULE ForkProofs ------------------------------
(***************************************************************************)
(* What holds of Fork for any number of parachains and any cores: the dev  *)
(* validators stay, and every core has a validator group.                  *)
(***************************************************************************)
EXTENDS Fork, FiniteSetTheorems, TLAPS

\* What the bite has decided on when it has made the relay chain's overrides.
BiteInv ==
  /\ "Validators" \in has
  /\ pc \in {"import", "fork"} =>
       /\ Enough(ReqCores(cores))
       /\ groups = Groups(ReqCores(cores))
       /\ authorities = ValidatorKeys(NumValidators(ReqCores(cores)))
       /\ "Validators" \in written
       /\ "ForceEra" \in has => "ForceEra" \in written
       /\ "Mode" \in written <=> meta /\ seen = "Active"

\* The migration does not go back, and what is switched to Buffered stays so.
ModeInv ==
  /\ pc = "import" /\ seen = "Active" => mode = "Active"
  /\ pc = "fork" /\ "Mode" \in written => mode = "Buffered"

\* With the metadata, nobody who could replace the dev validators may; without
\* it, nobody has a set to replace them with.
ForkInv ==
  pc = "fork" =>
    /\ nodes = NodeNames(ReqCores(cores))
    /\ meta /\ ~MigratedSince => mode # "Active"
    /\ ahub # "custom" /\ ~inFlight => ~staged /\ ~electing /\ ~sent
    /\ (meta /\ ~MigratedSince) \/ (ahub # "custom" /\ ~inFlight) => validators = "dev"

Inv == TypeOK /\ BiteInv /\ ModeInv /\ ForkInv

-----------------------------------------------------------------------------
\* The cores of any parachains are finitely many.
LEMMA CoresFinite ==
  ASSUME NEW cs \in [ParaPlaces -> 0 .. MaxCores]
  PROVE  IsFiniteSet(CoreSlots(cs)) /\ ReqCores(cs) \in Nat
<1>1. IsFiniteSet(Slots)
  <2>1. IsFiniteSet(1 .. NParas) /\ IsFiniteSet(1 .. MaxCores)
    BY FS_Interval, CoresAssumption
  <2> QED BY <2>1, FS_Product DEF Slots, ParaPlaces
<1>2. IsFiniteSet(CoreSlots(cs))
  BY <1>1, FS_Subset DEF CoreSlots
<1> QED BY <1>2, FS_CardinalityType DEF ReqCores

\* The number of a core is below the number of all of them.
LEMMA CoreNumbers ==
  ASSUME NEW cs \in [ParaPlaces -> 0 .. MaxCores], NEW s \in CorePlan(cs)
  PROVE  s[1] \in 0 .. ReqCores(cs) - 1
<1>1. PICK x \in CoreSlots(cs) : s[1] = Cardinality(Before(cs, x))
  BY DEF CorePlan
<1>2. Before(cs, x) \subseteq CoreSlots(cs) /\ x \notin Before(cs, x)
  <2>1. x[1] \in Int /\ x[2] \in Int
    BY CoresAssumption DEF CoreSlots, Slots, ParaPlaces
  <2> QED BY <2>1 DEF Before
<1>3. /\ IsFiniteSet(Before(cs, x))
      /\ Cardinality(Before(cs, x)) <= ReqCores(cs)
      /\ Cardinality(Before(cs, x)) # ReqCores(cs)
  BY <1>2, CoresFinite, FS_Subset DEF ReqCores
<1>4. Cardinality(Before(cs, x)) \in Nat
  BY <1>3, FS_CardinalityType
<1> QED BY <1>1, <1>3, <1>4, CoresFinite

\* Round-robin leaves no group empty and puts every validator in one of them,
\* as long as there are as many validators as cores.
LEMMA GroupsCover ==
  ASSUME NEW c \in Nat, Enough(c)
  PROVE  /\ NumValidators(c) \in 2 .. 7 /\ NumGroups(c) \in 1 .. NumValidators(c)
         /\ DOMAIN Groups(c) = 0 .. NumGroups(c) - 1
         /\ \A k \in 0 .. NumGroups(c) - 1 : k \in Groups(c)[k]
         /\ \A v \in 0 .. NumValidators(c) - 1 :
              /\ v % NumGroups(c) \in DOMAIN Groups(c)
              /\ \A l \in DOMAIN Groups(c) : v \in Groups(c)[l] <=> l = v % NumGroups(c)
<1>1. NumValidators(c) \in 2 .. 7 /\ NumGroups(c) \in 1 .. NumValidators(c)
  BY DEF Enough, NumValidators, NumGroups
<1> DEFINE n == NumValidators(c)
           g == NumGroups(c)
<1>2. DOMAIN Groups(c) = 0 .. g - 1
  BY DEF Groups
<1>3. \A k \in 0 .. g - 1 : k % g = k
  BY <1>1
<1>4. \A v \in 0 .. n - 1 : v % g \in 0 .. g - 1
  BY <1>1
<1>5. \A k \in 0 .. g - 1 : Groups(c)[k] = {v \in 0 .. n - 1 : v % g = k}
  BY DEF Groups
<1>6. \A k \in 0 .. g - 1 : k \in 0 .. n - 1
  BY <1>1
<1> HIDE DEF n, g
<1>7. \A k \in 0 .. g - 1 : k \in Groups(c)[k]
  BY <1>3, <1>5, <1>6
<1>8. \A v \in 0 .. n - 1, l \in 0 .. g - 1 : v \in Groups(c)[l] <=> l = v % g
  BY <1>5
<1> QED BY <1>1, <1>2, <1>4, <1>7, <1>8 DEF n, g

-----------------------------------------------------------------------------
LEMMA InitInv == Init => Inv
<1> SUFFICES ASSUME Init PROVE Inv
  OBVIOUS
<1>1. /\ cores \in [ParaPlaces -> 0 .. MaxCores] /\ DOMAIN groups \subseteq Nat
      /\ authorities = {} /\ nodes = {} /\ written = {}
  BY CoresAssumption DEF Init
<1>2. TypeOK
  BY <1>1, Zenon DEF Init, TypeOK, Modes
<1> QED BY <1>2 DEF Init, Inv, BiteInv, ModeInv, ForkInv

LEMMA StepTyped == TypeOK /\ [Next]_vars => TypeOK'
<1> SUFFICES ASSUME TypeOK, [Next]_vars PROVE TypeOK'
  OBVIOUS
<1> USE DEF TypeOK, source, plan, fork
<1>1. CASE Resolve
  BY <1>1, Zenon DEF Resolve
<1>2. CASE Migrate
  <2>1. mode' \in Modes /\ UNCHANGED <<source, pc, plan, fork>>
    BY <1>2 DEF Migrate, Modes
  <2> QED BY <2>1, Zenon
<1>3. CASE RelayOverrides
  <2> DEFINE c == ReqCores(cores)
  <2>1. c \in Nat /\ Enough(c)
    BY <1>3, CoresFinite DEF RelayOverrides
  <2>2. DOMAIN groups' \subseteq Nat
    BY <1>3, <2>1, GroupsCover DEF RelayOverrides
  <2>3. authorities' \in SUBSET (1 .. 7)
    BY <1>3 DEF RelayOverrides, ValidatorKeys
  <2>4. written' \in SUBSET Items
    BY <1>3 DEF RelayOverrides, Checked, FreezeClient, ValidatorItems, Items
  <2> QED BY <1>3, <2>2, <2>3, <2>4, Zenon DEF RelayOverrides
<1>4. CASE Fail
  BY <1>4, Zenon DEF Fail
<1>5. CASE Import
  <2>1. nodes' \in SUBSET (1 .. 7)
    BY <1>5 DEF Import, NodeNames
  <2>2. mode' \in Modes /\ validators' \in {"dev", "live"}
    BY <1>5 DEF Import, Modes
  <2> QED BY <1>5, <2>1, <2>2, Zenon DEF Import
<1>6. CASE PlanEra \/ Elected \/ Deliver
  BY <1>6, Zenon DEF PlanEra, Elected, Deliver
<1>7. CASE RotateSession
  <2>1. validators' \in {"dev", "live"}
    BY <1>7 DEF RotateSession
  <2> QED BY <1>7, <2>1, Zenon DEF RotateSession
<1>8. CASE Over \/ UNCHANGED vars
  <2>1. UNCHANGED <<source, mode, pc, plan, fork>>
    BY <1>8 DEF Over, vars
  <2> QED BY <2>1, Zenon
<1> QED BY <1>1, <1>2, <1>3, <1>4, <1>5, <1>6, <1>7, <1>8 DEF Next

\* Every state of the fork is well typed, for any number of parachains.
THEOREM TypeCorrect == Spec => []TypeOK
BY InitInv, StepTyped, PTL DEF Spec, Inv

-----------------------------------------------------------------------------
LEMMA StepInv == Inv /\ [Next]_vars => Inv'
<1> SUFFICES ASSUME Inv, [Next]_vars PROVE BiteInv' /\ ModeInv' /\ ForkInv'
  BY StepTyped DEF Inv
<1> USE DEF source, plan, fork
<1>1. CASE Resolve \/ Migrate \/ Fail
  BY <1>1 DEF Resolve, Migrate, Fail, Inv, BiteInv, ModeInv, ForkInv
<1>2. CASE RelayOverrides
  <2>1. BiteInv'
    BY <1>2 DEF RelayOverrides, Inv, BiteInv, Checked, FreezeClient, ValidatorItems
  <2> QED BY <1>2, <2>1 DEF RelayOverrides, ModeInv, ForkInv
<1>3. CASE Import
  <2>1. BiteInv' /\ ModeInv'
    BY <1>3 DEF Import, Inv, BiteInv, ModeInv
  <2>2. validators' = "dev"
    BY <1>3 DEF Import, Inv, BiteInv
  <2>3. meta' /\ ~MigratedSince' => mode' # "Active"
    BY <1>3 DEF Import, Inv, BiteInv, ModeInv, MigratedSince
  <2>4. ~inFlight' => ~staged' /\ ~electing' /\ ~sent'
    BY <1>3, Zenon DEF Import
  <2> QED BY <1>3, <2>1, <2>2, <2>3, <2>4 DEF Import, ForkInv
<1>4. CASE PlanEra
  BY <1>4 DEF PlanEra, ForcedNone, Inv, TypeOK, BiteInv, ModeInv, ForkInv, MigratedSince
<1>5. CASE Elected
  BY <1>5 DEF Elected, Inv, BiteInv, ModeInv, ForkInv, MigratedSince
<1>6. CASE Deliver
  BY <1>6 DEF Deliver, Inv, BiteInv, ModeInv, ForkInv, MigratedSince
<1>7. CASE RotateSession
  BY <1>7 DEF RotateSession, Replaced, ClientRules, Inv, BiteInv, ModeInv, ForkInv, MigratedSince
<1>8. CASE Over \/ UNCHANGED vars
  BY <1>8 DEF Over, vars, Inv, BiteInv, ModeInv, ForkInv, MigratedSince
<1> QED BY <1>1, <1>2, <1>3, <1>4, <1>5, <1>6, <1>7, <1>8 DEF Next

\* The inductive invariant.
THEOREM Inductive == Spec => []Inv
BY InitInv, StepInv, PTL DEF Spec

\* With the metadata read before no migration, the dev validators stay through
\* any elections, messages and sessions.
THEOREM DevValidatorsStay == Spec => []DevSetStays
<1>1. Inv => DevSetStays
  BY DEF Inv, ForkInv, DevSetStays
<1> QED BY Inductive, <1>1, PTL

\* Without it, Asset Hub's ForceEra keeps them if nothing was on its way.
THEOREM DevValidatorsStayBlindly == Spec => []StaysWithoutMetadata
<1>1. Inv => StaysWithoutMetadata
  BY DEF Inv, ForkInv, StaysWithoutMetadata
<1> QED BY Inductive, <1>1, PTL

\* Every core of a fork has a validator group, for any parachains and cores.
THEOREM CoresAreServed == Spec => []EveryCoreIsServed
<1>1. Inv => EveryCoreIsServed
  <2> SUFFICES ASSUME Inv, pc = "fork" PROVE EveryCoreIsServed
    BY DEF EveryCoreIsServed
  <2> DEFINE c == ReqCores(cores)
  <2>1. /\ c \in Nat /\ Enough(c) /\ groups = Groups(c)
        /\ authorities = ValidatorKeys(NumValidators(c))
    BY CoresFinite DEF Inv, TypeOK, BiteInv
  <2>2. \A s \in CorePlan(cores) : s[1] \in 0 .. NumGroups(c) - 1
    <3>1. \A s \in CorePlan(cores) : s[1] \in 0 .. c - 1
      BY CoreNumbers DEF Inv, TypeOK
    <3> QED BY <2>1, <3>1 DEF NumGroups
  <2>3. Cardinality(authorities) = NumValidators(c)
    <3>1. NumValidators(c) \in 2 .. 7
      BY <2>1, GroupsCover
    <3>2. authorities = 1 .. NumValidators(c)
      BY <2>1, <3>1 DEF ValidatorKeys
    <3> QED BY <3>1, <3>2, FS_Interval
  <2> HIDE DEF c
  <2> QED BY <2>1, <2>2, <2>3, GroupsCover DEF EveryCoreIsServed
<1> QED BY Inductive, <1>1, PTL

\* The validators that are spawned are the authorities of the state.
THEOREM AuthoritiesRun == Spec => []AuthoritiesAreTheNodes
<1>1. Inv => AuthoritiesAreTheNodes
  <2> SUFFICES ASSUME Inv, pc = "fork" PROVE authorities = nodes
    BY DEF AuthoritiesAreTheNodes
  <2>1. /\ ReqCores(cores) \in Nat /\ Enough(ReqCores(cores))
        /\ authorities = ValidatorKeys(NumValidators(ReqCores(cores)))
        /\ nodes = NodeNames(ReqCores(cores))
    BY CoresFinite DEF Inv, TypeOK, BiteInv, ForkInv
  <2>2. NumValidators(ReqCores(cores)) \in 2 .. 7
    BY <2>1, GroupsCover
  <2> QED BY <2>1, <2>2 DEF ValidatorKeys, NodeNames, ExtraNodes
<1> QED BY Inductive, <1>1, PTL

=============================================================================
