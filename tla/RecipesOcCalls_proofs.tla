--------------------- MODULE RecipesOcCalls_proofs ---------------------
(***************************************************************************)
(* Proofs about the two stores that must give back what came first: the    *)
(* registry of Recipes, for every set of bundles, any number of importers  *)
(* whose transactions overlap in any way, and any checks; and, at the end, *)
(* the ledger of OcCalls, for every set of modes and of answers, every     *)
(* message budget and any number of crashes and repairs.                   *)
(***************************************************************************)
EXTENDS Recipes, OcCalls, TLAPS

-----------------------------------------------------------------------------
(* Versions and their fixtures. *)

AllRows == UNION {FixtureRows(s) : s \in Specs}
Imports == [pc : ImportSteps, bundle : Bundles \cup {<<>>}, at : Nat,
            rows : SUBSET Specs, fixtures : SUBSET AllRows]

\* A fixture row carries the key of its version.
LEMMA RowsKeyed == \A s : \A r \in FixtureRows(s) : r[1] = Key(s)
  BY DEF FixtureRows

\* The versions of bundles, and those of migration 022, are specs.
LEMMA SpecsTyped ==
  /\ \A b \in Bundles : \A n \in DOMAIN b : b[n] \in Specs
  /\ Legacy \subseteq Specs
  /\ \A s \in Specs : /\ Key(s) \in Keys /\ s.id \in Ids /\ s # None
                      /\ FixtureRows(s) \subseteq AllRows
  <1>1. \A b \in Bundles : \A n \in DOMAIN b : b[n] \in Specs
    BY DEF Specs
  <1>2. Legacy \subseteq Specs
    BY DEF Specs
  <1>3. \A s \in Specs : Key(s) \in Keys /\ s.id \in Ids /\ s # None
    BY RecipesAssumption DEF Keys, Ids
  <1>4. \A s \in Specs : FixtureRows(s) \subseteq AllRows
    BY DEF AllRows
  <1> QED
    BY <1>1, <1>2, <1>3, <1>4

\* What migration 022 made is there, and stable.
LEMMA LegacyStable ==
  ASSUME VersionInv, NEW s \in Legacy
  PROVE  version[Key(s)].spec = s /\ version[Key(s)].status = "stable"
  <1>1. version[Key(s)] = [spec |-> s, status |-> "stable"]
    BY DEF VersionInv
  <1> QED
    BY <1>1

\* Positions in a bundle.
LEMMA BundleTyped ==
  ASSUME NEW b \in Bundles
  PROVE  DOMAIN b = 1..Len(b) /\ Len(b) \in Nat \ {0}
  <1>1. b \in Seq({b[i] : i \in DOMAIN b}) /\ b # <<>>
    BY RecipesAssumption
  <1> QED
    BY <1>1

\* The version a transaction is at.
LEMMA AtTyped ==
  ASSUME TypeOK, NEW i \in Importers, ImportInv(i), InTransaction(i)
  PROVE  /\ At(i) \in Specs /\ Key(At(i)) \in Keys /\ At(i) # None
         /\ imp[i].bundle \in Bundles /\ imp[i].at \in DOMAIN imp[i].bundle
         /\ imp[i] \in Imports
  <1>1. imp[i].bundle \in Bundles /\ imp[i].at \in DOMAIN imp[i].bundle
    BY DEF ImportInv
  <1>2. At(i) \in Specs
    BY <1>1, SpecsTyped DEF At
  <1>3. imp[i] \in Imports
    BY DEF TypeOK, Imports, AllRows
  <1> QED
    BY <1>1, <1>2, <1>3, SpecsTyped

\* The version that is there is the committed one, or the one row of the
\* transaction with its key.
LEMMA StoredIs ==
  ASSUME NEW i \in Importers, ImportInv(i), NEW k, Exists(i, k)
  PROVE  /\ version[k].spec # None => Stored(i, k) = version[k].spec
         /\ version[k].spec = None =>
              /\ Stored(i, k) \in imp[i].rows /\ Key(Stored(i, k)) = k
              /\ RowsOf(i, k) = {Stored(i, k)}
  <1>1. CASE version[k].spec # None
    BY <1>1 DEF Stored
  <1>2. CASE version[k].spec = None
    <2>1. \E s \in imp[i].rows : Key(s) = k
      BY <1>2 DEF Exists
    <2>2. Stored(i, k) \in imp[i].rows /\ Key(Stored(i, k)) = k
      BY <1>2, <2>1 DEF Stored, Row
    <2>3. \A s \in imp[i].rows : Key(s) = k => s = Stored(i, k)
      BY <2>2 DEF ImportInv
    <2> QED
      BY <1>2, <2>2, <2>3 DEF RowsOf
  <1> QED
    BY <1>1, <1>2

\* A transaction that changes nothing of the registry keeps it coherent if it
\* keeps its own part.
LEMMA StepKeeps ==
  ASSUME RegistryCoherent, NEW i \in Importers, NEW r \in Imports,
         imp' = [imp EXCEPT ![i] = r], UNCHANGED registry, ImportInv(i)'
  PROVE  RegistryCoherent'
  <1>0. version' = version /\ fixture' = fixture /\ recipe' = recipe
    BY DEF registry
  <1>1. TypeOK'
    <2>1. imp \in [Importers -> Imports]
      BY DEF RegistryCoherent, TypeOK, Imports, AllRows
    <2>2. imp' \in [Importers -> Imports]
      BY <2>1
    <2> QED
      BY <1>0, <2>2 DEF RegistryCoherent, TypeOK, Imports, AllRows
  <1>2. VersionInv' /\ FixturesAreTheSpecs' /\ ActiveIsStable'
    BY <1>0 DEF RegistryCoherent, VersionInv, FixturesAreTheSpecs, ActiveIsStable
  <1>3. ASSUME NEW j \in Importers, j # i PROVE ImportInv(j)'
    <2>1. ImportInv(j) /\ imp'[j] = imp[j]
      BY <1>3 DEF RegistryCoherent, TypeOK
    <2>2. \A s \in imp[j].rows : \A l \in Others(j) : \A t \in imp'[l].rows : Key(s) # Key(t)
      <3>1. \A s \in imp[j].rows : \A t \in imp'[i].rows : Key(s) # Key(t)
        <4>1. \A t \in imp'[i].rows : \A s \in imp'[j].rows : Key(t) # Key(s)
          BY <1>3 DEF ImportInv, Others
        <4> QED
          BY <2>1, <4>1
      <3>2. \A l \in Others(j) : l # i => imp'[l] = imp[l]
        BY DEF Others, RegistryCoherent, TypeOK
      <3> QED
        BY <2>1, <3>1, <3>2 DEF ImportInv, Others
    <2>3. At(j)' = At(j) /\ InTransaction(j)' = InTransaction(j)
      BY <2>1 DEF At, InTransaction
    <2>4. /\ \A k : Exists(j, k)' = Exists(j, k) /\ Stored(j, k)' = Stored(j, k)
          /\ \A k : Settled(j, k)' = Settled(j, k) /\ FixturesOf(j, k)' = FixturesOf(j, k)
      <3>1. \A k : Exists(j, k)' = Exists(j, k)
        BY <1>0, <2>1 DEF Exists
      <3>2. \A k : Stored(j, k)' = Stored(j, k)
        <4>1. imp'[j].rows = imp[j].rows
          BY <2>1
        <4> QED
          BY <1>0, <4>1 DEF Stored
      <3>3. \A k : FixturesOf(j, k)' = FixturesOf(j, k) /\ RowsOf(j, k)' = RowsOf(j, k)
        BY <2>1 DEF FixturesOf, RowsOf
      <3>4. \A k : Settled(j, k)' = Settled(j, k)
        BY <3>3 DEF Settled
      <3> QED
        BY <3>1, <3>2, <3>3, <3>4
    <2> QED
      BY <1>0, <2>1, <2>2, <2>3, <2>4 DEF ImportInv
  <1> QED
    BY <1>1, <1>2, <1>3 DEF RegistryCoherent
-----------------------------------------------------------------------------
(* The steps of a transaction. *)

LEMMA RollbackKeeps ==
  ASSUME RegistryCoherent, NEW i \in Importers, Rollback(i)
  PROVE  RegistryCoherent'
  <1> DEFINE r == [NoImport EXCEPT !.pc = "refused"]
  <1>0. NoImport \in Imports
    BY DEF NoImport, Imports, ImportSteps
  <1>1. r.pc = "refused" /\ r.rows = {} /\ r.fixtures = {}
    BY DEF NoImport
  <1>2. r \in Imports
    BY <1>0 DEF Imports, ImportSteps
  <1>3. imp' = [imp EXCEPT ![i] = r] /\ UNCHANGED registry
    BY DEF Rollback, Step
  <1>4. imp'[i] = r
    BY <1>3 DEF RegistryCoherent, TypeOK
  <1>5. ImportInv(i)'
    BY <1>1, <1>4 DEF ImportInv, InTransaction, Settled, FixturesOf, RowsOf
  <1> HIDE DEF r
  <1> QED
    BY <1>2, <1>3, <1>5, StepKeeps

LEMMA ImportKeeps ==
  ASSUME RegistryCoherent, NEW i \in Importers, NEW b \in Bundles, Import(i, b)
  PROVE  RegistryCoherent'
  <1> DEFINE r == [NoImport EXCEPT !.pc = "check", !.bundle = b, !.at = 1]
  <1>0. NoImport \in Imports
    BY DEF NoImport, Imports, ImportSteps
  <1>1. r.pc = "check" /\ r.bundle = b /\ r.at = 1 /\ r.rows = {} /\ r.fixtures = {}
    BY DEF NoImport
  <1>2. r \in Imports
    BY <1>0 DEF Imports, ImportSteps
  <1>3. imp' = [imp EXCEPT ![i] = r] /\ UNCHANGED registry
    BY DEF Import
  <1>4. imp'[i] = r
    BY <1>3 DEF RegistryCoherent, TypeOK
  <1>5. 1 \in DOMAIN b
    BY BundleTyped
  <1>6. ImportInv(i)'
    <2> HIDE DEF r
    <2>1. \A k : Settled(i, k)'
      BY <1>1, <1>4 DEF Settled, FixturesOf, RowsOf
    <2> QED
      BY <1>1, <1>4, <1>5, <2>1 DEF ImportInv
  <1> HIDE DEF r
  <1> QED
    BY <1>2, <1>3, <1>6, StepKeeps

\* Where a step moves a transaction within a version and keeps its rows, what it
\* has inserted is as it was.
LEMMA SameRows ==
  ASSUME NEW i \in Importers, imp'[i].rows = imp[i].rows,
         imp'[i].fixtures = imp[i].fixtures, version' = version
  PROVE  /\ \A k : RowsOf(i, k)' = RowsOf(i, k) /\ FixturesOf(i, k)' = FixturesOf(i, k)
         /\ \A k : Settled(i, k)' = Settled(i, k)
         /\ \A k : Exists(i, k)' = Exists(i, k) /\ Stored(i, k)' = Stored(i, k)
  <1>1. \A k : RowsOf(i, k)' = RowsOf(i, k) /\ FixturesOf(i, k)' = FixturesOf(i, k)
    BY DEF RowsOf, FixturesOf
  <1>2. \A k : Settled(i, k)' = Settled(i, k)
    BY <1>1 DEF Settled
  <1>3. \A k : Exists(i, k)' = Exists(i, k)
    BY DEF Exists
  <1>4. \A k : Stored(i, k)' = Stored(i, k)
    BY DEF Stored
  <1> QED
    BY <1>1, <1>2, <1>3, <1>4

\* The rows of other transactions are not touched by a step.
LEMMA OthersStay ==
  ASSUME TypeOK, NEW i \in Importers, NEW r \in Imports, imp' = [imp EXCEPT ![i] = r]
  PROVE  imp'[i] = r /\ \A j \in Others(i) : imp'[j] = imp[j]
  BY DEF TypeOK, Others

LEMMA CheckStableKeeps ==
  ASSUME RegistryCoherent, NEW i \in Importers, CheckStable(i)
  PROVE  RegistryCoherent'
  <1>0. TypeOK /\ VersionInv /\ ImportInv(i) /\ InTransaction(i) /\ imp[i].pc = "check"
    BY DEF RegistryCoherent, CheckStable, InTransaction
  <1>1. CASE Rollback(i)
    BY <1>1, RollbackKeeps
  <1>2. CASE Step(i, [imp[i] EXCEPT !.pc = "insert"])
              /\ version[Key(At(i))].status # "stable"
    <2> DEFINE r == [imp[i] EXCEPT !.pc = "insert"]
    <2>1. /\ r \in Imports /\ r.pc = "insert" /\ r.bundle = imp[i].bundle /\ r.at = imp[i].at
          /\ r.rows = imp[i].rows /\ r.fixtures = imp[i].fixtures
      BY <1>0, AtTyped DEF Imports, ImportSteps
    <2>2. imp' = [imp EXCEPT ![i] = r] /\ UNCHANGED registry /\ version' = version
      BY <1>2 DEF Step, registry
    <2> HIDE DEF r
    <2>3. imp'[i] = r /\ \A j \in Others(i) : imp'[j] = imp[j]
      BY <1>0, <2>1, <2>2, OthersStay
    <2>4. At(i)' = At(i) /\ InTransaction(i)'
      BY <2>1, <2>3 DEF At, InTransaction
    <2>5. At(i) \notin Legacy
      BY <1>0, <1>2, LegacyStable
    <2>6. ImportInv(i)'
      <3>1. \A k : Settled(i, k)' = Settled(i, k)
        BY <2>1, <2>2, <2>3, SameRows
      <3>2. \A k \in Keys : Settled(i, k)
        BY <1>0 DEF ImportInv
      <3> QED
        BY <1>0, <2>1, <2>2, <2>3, <2>4, <2>5, <3>1, <3>2, AtTyped DEF ImportInv
    <2> QED
      BY <2>1, <2>2, <2>6, StepKeeps
  <1> QED
    BY <1>1, <1>2 DEF CheckStable

LEMMA VerifyKeeps ==
  ASSUME RegistryCoherent, NEW i \in Importers, Verify(i)
  PROVE  RegistryCoherent'
  <1>0. TypeOK /\ ImportInv(i) /\ InTransaction(i) /\ imp[i].pc = "verify"
    BY DEF RegistryCoherent, Verify, InTransaction
  <1>1. CASE Rollback(i)
    BY <1>1, RollbackKeeps
  <1>2. ASSUME NEW r \in Imports, Step(i, r), r.rows = imp[i].rows,
               r.fixtures = imp[i].fixtures, r.bundle = imp[i].bundle,
               r.pc \in {"check", "commit"}, r.at \in DOMAIN r.bundle,
               Stored(i, Key(At(i))) = At(i)
        PROVE  RegistryCoherent'
    <2>2. imp' = [imp EXCEPT ![i] = r] /\ UNCHANGED registry /\ version' = version
      BY <1>2 DEF Step, registry
    <2>3. imp'[i] = r /\ \A j \in Others(i) : imp'[j] = imp[j]
      BY <1>0, <2>2, OthersStay
    <2>4. InTransaction(i)' /\ imp'[i].bundle \in Bundles
      BY <1>0, <1>2, <2>3, AtTyped DEF InTransaction
    <2>6. ImportInv(i)'
      <3>1. \A k : Settled(i, k)' = Settled(i, k)
        BY <1>2, <2>2, <2>3, SameRows
      <3>2. \A k \in Keys : Settled(i, k)
        BY <1>0, <1>2 DEF ImportInv
      <3> QED
        BY <1>0, <1>2, <2>2, <2>3, <2>4, <3>1, <3>2 DEF ImportInv
    <2> QED
      BY <2>2, <2>6, StepKeeps
  <1>3. CASE Stored(i, Key(At(i))) = At(i)
    <2>0. /\ imp[i] \in Imports /\ imp[i].bundle \in Bundles
          /\ imp[i].at \in DOMAIN imp[i].bundle
          /\ DOMAIN imp[i].bundle = 1..Len(imp[i].bundle) /\ Len(imp[i].bundle) \in Nat
      BY <1>0, AtTyped, BundleTyped
    <2>1. CASE imp[i].at < Len(imp[i].bundle)
      <3> DEFINE r == [imp[i] EXCEPT !.pc = "check", !.at = imp[i].at + 1]
      <3>1. Step(i, r)
        BY <1>3, <2>1 DEF Verify
      <3>2. imp[i].at + 1 \in DOMAIN imp[i].bundle /\ imp[i].at + 1 \in Nat
        BY <2>0, <2>1
      <3>3. r \in Imports /\ r.rows = imp[i].rows /\ r.fixtures = imp[i].fixtures
              /\ r.bundle = imp[i].bundle /\ r.pc = "check" /\ r.at = imp[i].at + 1
        BY <2>0, <3>2 DEF Imports, ImportSteps
      <3> HIDE DEF r
      <3> QED
        BY <1>2, <1>3, <3>1, <3>2, <3>3
    <2>2. CASE ~ (imp[i].at < Len(imp[i].bundle))
      <3> DEFINE r == [imp[i] EXCEPT !.pc = "commit"]
      <3>1. Step(i, r)
        BY <1>3, <2>2 DEF Verify
      <3>3. r \in Imports /\ r.rows = imp[i].rows /\ r.fixtures = imp[i].fixtures
              /\ r.bundle = imp[i].bundle /\ r.pc = "commit" /\ r.at = imp[i].at
        BY <2>0 DEF Imports, ImportSteps
      <3> HIDE DEF r
      <3> QED
        BY <1>2, <1>3, <2>0, <3>1, <3>3
    <2> QED
      BY <2>1, <2>2
  <1> QED
    BY <1>1, <1>3 DEF Verify

LEMMA InsertKeeps ==
  ASSUME RegistryCoherent, NEW i \in Importers, Insert(i)
  PROVE  RegistryCoherent'
  <1>0. TypeOK /\ ImportInv(i) /\ InTransaction(i) /\ imp[i].pc = "insert" /\ WaitsFor(i) = {}
    BY DEF RegistryCoherent, Insert, InTransaction
  <1>1. /\ At(i) \in Specs /\ Key(At(i)) \in Keys /\ imp[i].bundle \in Bundles
        /\ imp[i].at \in DOMAIN imp[i].bundle /\ imp[i] \in Imports /\ At(i) \notin Legacy
    BY <1>0, AtTyped DEF ImportInv
  <1>k. PICK k \in Keys : k = Key(At(i))
    BY <1>1
  <1> DEFINE rows == IF Exists(i, k) THEN imp[i].rows ELSE imp[i].rows \cup {At(i)}
             r == [imp[i] EXCEPT !.pc = "fixtures", !.rows = rows]
  <1>2. /\ r \in Imports /\ r.pc = "fixtures" /\ r.bundle = imp[i].bundle /\ r.at = imp[i].at
        /\ r.rows = rows /\ r.fixtures = imp[i].fixtures
    <2>1. rows \in SUBSET Specs
      BY <1>1 DEF Imports
    <2> HIDE DEF rows
    <2> QED
      BY <1>1, <2>1 DEF Imports, ImportSteps
  <1>3. imp' = [imp EXCEPT ![i] = r] /\ UNCHANGED registry /\ version' = version
    BY <1>k DEF Insert, Step, registry
  <1> HIDE DEF r
  <1>4. imp'[i] = r /\ \A j \in Others(i) : imp'[j] = imp[j]
    BY <1>0, <1>2, <1>3, OthersStay
  <1>5. At(i)' = At(i) /\ InTransaction(i)' /\ imp'[i].bundle \in Bundles
        /\ imp'[i].at \in DOMAIN imp'[i].bundle
    BY <1>1, <1>2, <1>4 DEF At, InTransaction
  <1>6. \A q \in Keys : Settled(i, q)
    BY <1>0 DEF ImportInv
  <1>7. CASE Exists(i, k)
    <2>1. imp'[i].rows = imp[i].rows /\ imp'[i].fixtures = imp[i].fixtures
      BY <1>2, <1>4, <1>7
    <2>2. Exists(i, k)' /\ \A q \in Keys : Settled(i, q)'
      BY <1>3, <1>6, <1>7, <2>1, SameRows
    <2>3. ImportInv(i)'
      BY <1>0, <1>1, <1>k, <1>2, <1>3, <1>4, <1>5, <2>1, <2>2 DEF ImportInv
    <2> QED
      BY <1>2, <1>3, <2>3, StepKeeps
  <1>8. CASE ~ Exists(i, k)
    <2>1. imp'[i].rows = imp[i].rows \cup {At(i)} /\ imp'[i].fixtures = imp[i].fixtures
      BY <1>2, <1>4, <1>8
    <2>2. version[k].spec = None /\ \A s \in imp[i].rows : Key(s) # k
      BY <1>8 DEF Exists
    <2>3. \A j \in Others(i) : \A t \in imp[j].rows : Key(t) # k
      BY <1>0, <1>k, <1>8 DEF WaitsFor
    <2>4. Exists(i, k)'
      BY <1>k, <2>1 DEF Exists
    <2>5. \A q \in Keys : q # k => Settled(i, q)'
      <3> SUFFICES ASSUME NEW q \in Keys, q # k PROVE Settled(i, q)'
        OBVIOUS
      <3>1. RowsOf(i, q)' = RowsOf(i, q)
        BY <1>k, <2>1 DEF RowsOf
      <3>2. FixturesOf(i, q)' = FixturesOf(i, q)
        BY <2>1 DEF FixturesOf
      <3> QED
        BY <1>6, <3>1, <3>2 DEF Settled
    <2>6. FixturesOf(i, k)' = {}
      <3>1. RowsOf(i, k) = {}
        BY <2>2 DEF RowsOf
      <3>2. FixturesOf(i, k) = {}
        BY <1>1, <1>6, <3>1 DEF Settled
      <3> QED
        BY <2>1, <3>2 DEF FixturesOf
    <2>7. \A s \in imp'[i].rows :
            /\ version[Key(s)].spec = None
            /\ \A t \in imp'[i].rows : Key(s) = Key(t) => s = t
            /\ \A j \in Others(i) : \A t \in imp[j].rows : Key(s) # Key(t)
      <3>1. \A s \in imp[i].rows :
              /\ version[Key(s)].spec = None
              /\ \A t \in imp[i].rows : Key(s) = Key(t) => s = t
              /\ \A j \in Others(i) : \A t \in imp[j].rows : Key(s) # Key(t)
        BY <1>0 DEF ImportInv
      <3> QED
        BY <1>k, <2>1, <2>2, <2>3, <3>1
    <2>8. imp'[i].pc = "fixtures" /\ At(i) \in imp'[i].rows
      BY <1>2, <1>4, <2>1
    <2>9. ImportInv(i)'
      <3>1. \A s \in imp'[i].rows :
              /\ version'[Key(s)].spec = None
              /\ \A t \in imp'[i].rows : Key(s) = Key(t) => s = t
              /\ \A j \in Others(i) : \A t \in imp'[j].rows : Key(s) # Key(t)
        BY <1>3, <1>4, <2>7
      <3> QED
        BY <1>1, <1>5, <2>4, <2>5, <2>6, <2>8, <3>1, <1>k DEF ImportInv
    <2> QED
      BY <1>2, <1>3, <2>9, StepKeeps
  <1> QED
    BY <1>7, <1>8

LEMMA FixturesKeeps ==
  ASSUME RegistryCoherent, NEW i \in Importers, Fixtures(i)
  PROVE  RegistryCoherent'
  <1> DEFINE wanted == FixtureRows(At(i))
             added == imp[i].fixtures \cup (wanted \ SeenFixtures(i))
             r == [imp[i] EXCEPT !.pc = "verify", !.fixtures = added]
  <1>0. /\ TypeOK /\ VersionInv /\ ImportInv(i) /\ FixturesAreTheSpecs
        /\ InTransaction(i) /\ imp[i].pc = "fixtures"
    BY DEF RegistryCoherent, Fixtures, InTransaction
  <1>1. /\ At(i) \in Specs /\ Key(At(i)) \in Keys /\ imp[i].bundle \in Bundles
        /\ imp[i].at \in DOMAIN imp[i].bundle /\ imp[i] \in Imports
    BY <1>0, AtTyped
  <1>k. PICK k \in Keys : k = Key(At(i))
    BY <1>1
  <1>n. At(i) \notin Legacy /\ Exists(i, k)
    BY <1>0, <1>k DEF ImportInv
  <1>2. CASE Rollback(i)
    BY <1>2, RollbackKeeps
  <1>3. CASE Step(i, r)
    <2>1. /\ r \in Imports /\ r.pc = "verify" /\ r.bundle = imp[i].bundle /\ r.at = imp[i].at
          /\ r.rows = imp[i].rows /\ r.fixtures = added
      <3>1. added \in SUBSET AllRows
        BY <1>1, SpecsTyped DEF Imports
      <3> HIDE DEF added
      <3> QED
        BY <1>1, <3>1 DEF Imports, ImportSteps
    <2>2. imp' = [imp EXCEPT ![i] = r] /\ UNCHANGED registry /\ version' = version
      BY <1>3 DEF Step, registry
    <2> HIDE DEF r
    <2>3. imp'[i] = r /\ \A j \in Others(i) : imp'[j] = imp[j]
      BY <1>0, <2>1, <2>2, OthersStay
    <2>4. At(i)' = At(i) /\ InTransaction(i)' /\ imp'[i].bundle \in Bundles
          /\ imp'[i].at \in DOMAIN imp'[i].bundle
      BY <1>1, <2>1, <2>3 DEF At, InTransaction
    <2>5. imp'[i].rows = imp[i].rows /\ imp'[i].fixtures = added /\ imp'[i].pc = "verify"
      BY <2>1, <2>3
    <2>6. /\ \A q : RowsOf(i, q)' = RowsOf(i, q)
          /\ Exists(i, k)' /\ Stored(i, k)' = Stored(i, k)
      <3>1. \A q : RowsOf(i, q)' = RowsOf(i, q)
        BY <2>5 DEF RowsOf
      <3>2. Exists(i, k)'
        BY <1>n, <2>2, <2>5 DEF Exists
      <3>3. Stored(i, k)' = Stored(i, k)
        BY <2>2, <2>5 DEF Stored
      <3> QED
        BY <3>1, <3>2, <3>3
    <2>7. \A q \in Keys : q # k => Settled(i, q)'
      <3> SUFFICES ASSUME NEW q \in Keys, q # k PROVE Settled(i, q)'
        OBVIOUS
      <3>1. Settled(i, q)
        BY <1>0, <1>k DEF ImportInv
      <3>2. \A w \in wanted : w[1] # q
        BY <1>k, RowsKeyed
      <3>3. FixturesOf(i, q)' = FixturesOf(i, q)
        <4> HIDE DEF wanted
        <4> QED
          BY <2>5, <3>2 DEF FixturesOf
      <3> QED
        BY <2>6, <3>1, <3>3 DEF Settled
    <2>8. ASSUME Stored(i, k) = At(i) PROVE Settled(i, k)'
      <3>0. \A w \in wanted : w[1] = k
        BY <1>k, RowsKeyed
      <3>1. {f \in fixture : f[1] = k} =
              IF version[k].spec = None \/ version[k].spec \in Legacy
                THEN {} ELSE FixtureRows(version[k].spec)
        BY <1>0, <1>1 DEF FixturesAreTheSpecs
      <3>2. CASE version[k].spec # None
        <4>1. version[k].spec = At(i)
          BY <1>0, <1>n, <2>8, <3>2, StoredIs
        <4>2. {f \in fixture : f[1] = k} = wanted
          BY <1>n, <3>1, <3>2, <4>1
        <4>3. wanted \subseteq SeenFixtures(i)
          BY <4>2 DEF SeenFixtures
        <4>4. added = imp[i].fixtures
          <5> HIDE DEF wanted
          <5> QED
            BY <4>3
        <4>5. At(i) \notin imp[i].rows
          BY <1>0, <1>k, <3>2 DEF ImportInv
        <4>6. Settled(i, k)
          BY <1>0, <1>1, <4>5 DEF ImportInv
        <4>7. FixturesOf(i, k)' = FixturesOf(i, k)
          BY <2>5, <4>4 DEF FixturesOf
        <4> QED
          BY <2>6, <4>6, <4>7 DEF Settled
      <3>3. CASE version[k].spec = None
        <4>1. RowsOf(i, k) = {At(i)}
          BY <1>0, <1>n, <2>8, <3>3, StoredIs
        <4>2. UNION {FixtureRows(s) : s \in RowsOf(i, k)} = wanted
          BY <4>1
        <4>3. FixturesOf(i, k) = {} \/ FixturesOf(i, k) = wanted
          BY <1>0, <1>1, <4>2 DEF ImportInv, Settled
        <4>4. \A f \in fixture : f[1] # k
          BY <3>1, <3>3
        <4>5. FixturesOf(i, k)' = wanted
          <5>1. \A f \in wanted : f \in fixture \cup imp[i].fixtures => f \in imp[i].fixtures
            BY <3>0, <4>4
          <5>2. \A f : f \in FixturesOf(i, k)' <=> f \in added /\ f[1] = k
            BY <2>5 DEF FixturesOf
          <5>3. \A f : f \in FixturesOf(i, k) <=> f \in imp[i].fixtures /\ f[1] = k
            BY DEF FixturesOf
          <5>4. \A f : f \in added <=>
                  f \in imp[i].fixtures \/ (f \in wanted /\ f \notin fixture \cup imp[i].fixtures)
            BY DEF SeenFixtures
          <5> HIDE DEF added, wanted
          <5>5. \A f : f \in FixturesOf(i, k)' <=> f \in wanted
            BY <3>0, <4>3, <5>1, <5>2, <5>3, <5>4
          <5> QED
            BY <5>5
        <4> QED
          BY <2>6, <4>2, <4>5 DEF Settled
      <3> QED
        BY <3>2, <3>3
    <2>9. ImportInv(i)'
      <3> HIDE DEF added, wanted
      <3>1. \A s \in imp'[i].rows :
              /\ version'[Key(s)].spec = None
              /\ \A t \in imp'[i].rows : Key(s) = Key(t) => s = t
              /\ \A j \in Others(i) : \A t \in imp'[j].rows : Key(s) # Key(t)
        <4>1. \A s \in imp[i].rows :
                /\ version[Key(s)].spec = None
                /\ \A t \in imp[i].rows : Key(s) = Key(t) => s = t
                /\ \A j \in Others(i) : \A t \in imp[j].rows : Key(s) # Key(t)
          BY <1>0 DEF ImportInv
        <4> QED
          BY <2>2, <2>3, <2>5, <4>1
      <3> QED
        BY <1>n, <2>4, <2>5, <2>6, <2>7, <2>8, <3>1, <1>k DEF ImportInv
    <2> QED
      BY <2>1, <2>2, <2>9, StepKeeps
  <1> QED
    BY <1>2, <1>3 DEF Fixtures
\* What a transaction commits: its versions as drafts, each with its fixtures,
\* where there was no version.
LEMMA CommitKeeps ==
  ASSUME RegistryCoherent, NEW i \in Importers, Commit(i)
  PROVE  /\ RegistryCoherent'
         /\ \A k \in Keys : version[k].spec # None =>
              /\ version'[k] = version[k]
              /\ {r \in fixture' : r[1] = k} = {r \in fixture : r[1] = k}
  <1> DEFINE mine(k) == \E s \in imp[i].rows : Key(s) = k
  <1>0. /\ TypeOK /\ VersionInv /\ ImportInv(i) /\ FixturesAreTheSpecs /\ ActiveIsStable
        /\ InTransaction(i) /\ imp[i].pc = "commit" /\ imp[i] \in Imports
    BY AtTyped DEF RegistryCoherent, Commit, InTransaction
  <1>1. /\ \A k \in Keys : mine(k) =>
             version'[k] = [spec |-> Row(imp[i].rows, k), status |-> "draft"]
        /\ \A k \in Keys : ~ mine(k) => version'[k] = version[k]
        /\ DOMAIN version' = Keys /\ version' = [k \in Keys |-> version'[k]]
        /\ fixture' = fixture \cup imp[i].fixtures /\ recipe' = recipe
        /\ imp' = [imp EXCEPT ![i].pc = "done", ![i].rows = {}, ![i].fixtures = {}]
    BY DEF Commit
  <1>2. \A k \in Keys : mine(k) =>
          /\ Row(imp[i].rows, k) \in imp[i].rows /\ Key(Row(imp[i].rows, k)) = k
          /\ RowsOf(i, k) = {Row(imp[i].rows, k)}
    <2> SUFFICES ASSUME NEW k \in Keys, mine(k)
                 PROVE  /\ Row(imp[i].rows, k) \in imp[i].rows
                        /\ Key(Row(imp[i].rows, k)) = k
                        /\ RowsOf(i, k) = {Row(imp[i].rows, k)}
      OBVIOUS
    <2>1. Row(imp[i].rows, k) \in imp[i].rows /\ Key(Row(imp[i].rows, k)) = k
      BY DEF Row
    <2>2. \A s \in imp[i].rows : Key(s) = k => s = Row(imp[i].rows, k)
      BY <1>0, <2>1 DEF ImportInv
    <2> QED
      BY <2>1, <2>2 DEF RowsOf
  <1>3. \A k \in Keys : mine(k) => version[k].spec = None
    BY <1>0 DEF ImportInv
  <1>4. \A k \in Keys : Settled(i, k)
    BY <1>0 DEF ImportInv
  <1>5. \A s \in imp[i].rows : s \in Specs /\ s # None /\ s \notin Legacy
    <2>1. \A s \in imp[i].rows : s \in Specs /\ s # None /\ version[Key(s)].spec = None
      BY <1>0, SpecsTyped DEF ImportInv, Imports
    <2> QED
      BY <1>0, <2>1, LegacyStable
  <1>6. TypeOK'
    <2>1. version' \in [Keys -> [spec : Specs \cup {None}, status : Statuses \cup {"none"}]]
      <3>1. \A k \in Keys : version'[k] \in [spec : Specs \cup {None},
                                             status : Statuses \cup {"none"}]
        <4> SUFFICES ASSUME NEW k \in Keys
                     PROVE  version'[k] \in [spec : Specs \cup {None},
                                             status : Statuses \cup {"none"}]
          OBVIOUS
        <4>1. CASE mine(k)
          BY <4>1, <1>1, <1>2, <1>5 DEF Statuses
        <4>2. CASE ~ mine(k)
          BY <4>2, <1>0, <1>1 DEF TypeOK
        <4> QED
          BY <4>1, <4>2
      <3> QED
        BY <1>1, <3>1
    <2>2. imp' \in [Importers -> Imports]
      <3>1. imp \in [Importers -> Imports]
        BY <1>0 DEF TypeOK, Imports, AllRows
      <3>2. [imp[i] EXCEPT !.pc = "done", !.rows = {}, !.fixtures = {}] \in Imports
        BY <1>0 DEF Imports, ImportSteps
      <3> QED
        BY <1>1, <3>1, <3>2
    <2> QED
      BY <1>0, <1>1, <2>1, <2>2 DEF TypeOK, Imports, AllRows
  <1>7. VersionInv'
    <2>1. \A k \in Keys : version'[k].spec # None => Key(version'[k].spec) = k
      BY <1>0, <1>1, <1>2 DEF VersionInv
    <2>2. \A k \in Keys : version'[k].spec = None <=> version'[k].status = "none"
      <3> SUFFICES ASSUME NEW k \in Keys
                   PROVE  version'[k].spec = None <=> version'[k].status = "none"
        OBVIOUS
      <3>1. CASE mine(k)
        BY <3>1, <1>1, <1>2, <1>5
      <3>2. CASE ~ mine(k)
        BY <3>2, <1>0, <1>1 DEF VersionInv
      <3> QED
        BY <3>1, <3>2
    <2>3. \A s \in Legacy : version'[Key(s)] = [spec |-> s, status |-> "stable"]
      <3>1. \A s \in Legacy : Key(s) \in Keys /\ s # None
        BY SpecsTyped
      <3>2. \A s \in Legacy : ~ mine(Key(s))
        BY <1>0, <1>3, <3>1, LegacyStable
      <3> QED
        BY <1>0, <1>1, <3>1, <3>2 DEF VersionInv
    <2> QED
      BY <2>1, <2>2, <2>3 DEF VersionInv
  <1>8. \A k \in Keys : ~ mine(k) => {r \in fixture' : r[1] = k} = {r \in fixture : r[1] = k}
    <2> SUFFICES ASSUME NEW k \in Keys, ~ mine(k)
                 PROVE  {r \in fixture' : r[1] = k} = {r \in fixture : r[1] = k}
      OBVIOUS
    <2>1. RowsOf(i, k) = {}
      BY DEF RowsOf
    <2>2. FixturesOf(i, k) = {}
      BY <1>4, <2>1 DEF Settled
    <2> QED
      BY <1>1, <2>2 DEF FixturesOf
  <1>9. FixturesAreTheSpecs'
    <2> SUFFICES ASSUME NEW k \in Keys
                 PROVE  {r \in fixture' : r[1] = k} =
                          IF version'[k].spec = None \/ version'[k].spec \in Legacy
                            THEN {} ELSE FixtureRows(version'[k].spec)
      BY DEF FixturesAreTheSpecs
    <2>0. {r \in fixture : r[1] = k} =
            IF version[k].spec = None \/ version[k].spec \in Legacy
              THEN {} ELSE FixtureRows(version[k].spec)
      BY <1>0 DEF FixturesAreTheSpecs
    <2>1. CASE ~ mine(k)
      BY <2>0, <2>1, <1>1, <1>8
    <2>2. CASE mine(k)
      <3>1. {r \in fixture : r[1] = k} = {}
        BY <1>3, <2>0, <2>2
      <3>2. FixturesOf(i, k) = FixtureRows(Row(imp[i].rows, k))
        BY <1>2, <1>4, <2>2 DEF Settled
      <3>3. {r \in fixture' : r[1] = k} = FixturesOf(i, k)
        BY <1>1, <3>1 DEF FixturesOf
      <3>4. version'[k].spec = Row(imp[i].rows, k)
        BY <1>1, <2>2
      <3> QED
        BY <1>2, <1>5, <2>2, <3>2, <3>3, <3>4
    <2> QED
      BY <2>1, <2>2
  <1>10. ActiveIsStable'
    <2> SUFFICES ASSUME NEW q \in Ids, recipe[q].active # None
                 PROVE  LET s == recipe[q].active IN
                        /\ version'[Key(s)] = [spec |-> s, status |-> "stable"]
                        /\ s \in Legacy \/ (s.evals >= 1 /\ \E r \in fixture' : r[1] = Key(s))
      BY <1>1 DEF ActiveIsStable
    <2>1. /\ version[Key(recipe[q].active)] = [spec |-> recipe[q].active, status |-> "stable"]
          /\ \/ recipe[q].active \in Legacy
             \/ /\ recipe[q].active.evals >= 1
                /\ \E r \in fixture : r[1] = Key(recipe[q].active)
      BY <1>0 DEF ActiveIsStable
    <2>2. Key(recipe[q].active) \in Keys
      BY <1>0, SpecsTyped DEF TypeOK
    <2>3. ~ mine(Key(recipe[q].active))
      BY <1>3, <2>1, <2>2
    <2>4. version'[Key(recipe[q].active)] = version[Key(recipe[q].active)]
      BY <1>1, <2>2, <2>3
    <2> QED
      BY <1>1, <2>1, <2>4
  <1>11. ImportInv(i)'
    <2>1. imp'[i].pc = "done" /\ imp'[i].rows = {} /\ imp'[i].fixtures = {}
      BY <1>0, <1>1 DEF TypeOK
    <2>2. \A k : Settled(i, k)'
      BY <2>1 DEF Settled, FixturesOf, RowsOf
    <2> QED
      BY <2>1, <2>2 DEF ImportInv, InTransaction
  <1>12. ASSUME NEW j \in Importers, j # i PROVE ImportInv(j)'
    <2>1. ImportInv(j) /\ imp'[j] = imp[j] /\ imp'[i].rows = {}
          /\ \A l \in Importers : l # i => imp'[l] = imp[l]
      BY <1>0, <1>1, <1>12 DEF RegistryCoherent, TypeOK
    <2>2. At(j)' = At(j) /\ InTransaction(j)' = InTransaction(j)
      BY <2>1 DEF At, InTransaction
    <2>3. \A s \in imp[j].rows : Key(s) \in Keys /\ ~ mine(Key(s))
      <3>1. \A s \in imp[j].rows : s \in Specs
        BY <1>0 DEF TypeOK
      <3>2. \A s \in imp[j].rows : \A t \in imp[i].rows : Key(s) # Key(t)
        BY <1>12, <2>1 DEF ImportInv, Others
      <3> QED
        BY <3>1, <3>2, SpecsTyped
    <2>4. \A s \in imp'[j].rows :
            /\ version'[Key(s)].spec = None
            /\ \A t \in imp'[j].rows : Key(s) = Key(t) => s = t
            /\ \A l \in Others(j) : \A t \in imp'[l].rows : Key(s) # Key(t)
      <3>1. \A s \in imp[j].rows :
              /\ version[Key(s)].spec = None
              /\ \A t \in imp[j].rows : Key(s) = Key(t) => s = t
              /\ \A l \in Others(j) : \A t \in imp[l].rows : Key(s) # Key(t)
        BY <2>1 DEF ImportInv
      <3>2. \A s \in imp[j].rows : version'[Key(s)] = version[Key(s)]
        BY <1>1, <2>3
      <3>3. \A l \in Others(j) : imp'[l].rows = imp[l].rows \/ imp'[l].rows = {}
        BY <2>1 DEF Others
      <3> QED
        BY <2>1, <3>1, <3>2, <3>3
    <2>5. \A k \in Keys : Exists(j, k) => Exists(j, k)' /\ Stored(j, k)' = Stored(j, k)
      <3> SUFFICES ASSUME NEW k \in Keys, Exists(j, k)
                   PROVE  Exists(j, k)' /\ Stored(j, k)' = Stored(j, k)
        OBVIOUS
      <3>1. ~ mine(k)
        BY <1>3, <2>3 DEF Exists
      <3>2. version'[k] = version[k]
        BY <1>1, <3>1
      <3>3. imp'[j].rows = imp[j].rows
        BY <2>1
      <3>4. Exists(j, k)'
        BY <3>2, <3>3 DEF Exists
      <3>5. Stored(j, k)' = Stored(j, k)
        BY <3>2, <3>3 DEF Stored
      <3> QED
        BY <3>4, <3>5
    <2>6. \A k : Settled(j, k)' = Settled(j, k) /\ FixturesOf(j, k)' = FixturesOf(j, k)
      <3>1. \A k : FixturesOf(j, k)' = FixturesOf(j, k) /\ RowsOf(j, k)' = RowsOf(j, k)
        BY <2>1 DEF FixturesOf, RowsOf
      <3>2. \A k : Settled(j, k)' = Settled(j, k)
        BY <3>1 DEF Settled
      <3> QED
        BY <3>1, <3>2
    <2>7. InTransaction(j) => Key(At(j)) \in Keys
      BY <1>0, <2>1, AtTyped
    <2>8. imp[j].pc \in {"fixtures", "verify"} => InTransaction(j)
      BY DEF InTransaction
    <2>9. \A q \in Keys :
            \/ Settled(j, q)'
            \/ q = Key(At(j)) /\ imp'[j].pc = "fixtures" /\ At(j) \in imp'[j].rows
                 /\ FixturesOf(j, q)' = {}
            \/ q = Key(At(j)) /\ imp'[j].pc = "verify" /\ Stored(j, q)' # At(j)
      <3> SUFFICES ASSUME NEW q \in Keys
                   PROVE  \/ Settled(j, q)'
                          \/ q = Key(At(j)) /\ imp'[j].pc = "fixtures"
                               /\ At(j) \in imp'[j].rows /\ FixturesOf(j, q)' = {}
                          \/ q = Key(At(j)) /\ imp'[j].pc = "verify" /\ Stored(j, q)' # At(j)
        OBVIOUS
      <3>1. \/ Settled(j, q)
            \/ q = Key(At(j)) /\ imp[j].pc = "fixtures" /\ At(j) \in imp[j].rows
                 /\ FixturesOf(j, q) = {}
            \/ q = Key(At(j)) /\ imp[j].pc = "verify" /\ Stored(j, q) # At(j)
        BY <2>1 DEF ImportInv
      <3>2. q = Key(At(j)) /\ imp[j].pc = "verify" => Exists(j, q)
        BY <2>1 DEF ImportInv
      <3> QED
        BY <2>1, <2>5, <2>6, <3>1, <3>2
    <2>10. imp'[j].pc \in {"fixtures", "verify"} => Exists(j, Key(At(j)))'
      <3> SUFFICES ASSUME imp[j].pc \in {"fixtures", "verify"}
                   PROVE  Exists(j, Key(At(j)))'
        BY <2>1
      <3>1. PICK k \in Keys : k = Key(At(j))
        BY <2>7, <2>8
      <3>2. Exists(j, k)
        BY <2>1, <3>1 DEF ImportInv
      <3>3. Exists(j, k)'
        BY <2>5, <3>2
      <3> QED
        BY <2>2, <3>1, <3>3
    <2> QED
      BY <2>1, <2>2, <2>4, <2>9, <2>10 DEF ImportInv
  <1>13. RegistryCoherent'
    BY <1>6, <1>7, <1>9, <1>10, <1>11, <1>12 DEF RegistryCoherent
  <1> QED
    BY <1>1, <1>3, <1>8, <1>13
-----------------------------------------------------------------------------
(* Promotion, and the steps that leave the registry alone. *)

\* A change of status, of a version that is not stable, to another.
LEMMA StatusKeeps ==
  ASSUME RegistryCoherent, NEW k \in Keys, version[k].status \in {"draft", "candidate"},
         NEW st \in {"candidate", "stable"}, version' = [version EXCEPT ![k].status = st],
         UNCHANGED <<fixture, imp>>
  PROVE  /\ version' \in [Keys -> [spec : Specs \cup {None}, status : Statuses \cup {"none"}]]
         /\ version[k].spec # None /\ version'[k] = [spec |-> version[k].spec, status |-> st]
         /\ \A q \in Keys : q # k => version'[q] = version[q]
         /\ \A q \in Keys : version'[q].spec = version[q].spec
         /\ VersionInv' /\ FixturesAreTheSpecs'
         /\ \A j \in Importers : ImportInv(j)'
  <1>0. /\ version \in [Keys -> [spec : Specs \cup {None}, status : Statuses \cup {"none"}]]
        /\ VersionInv /\ FixturesAreTheSpecs /\ \A j \in Importers : ImportInv(j)
        /\ imp' = imp /\ fixture' = fixture
        /\ imp \in [Importers -> Imports]
    BY DEF RegistryCoherent, TypeOK, Imports, AllRows
  <1>1. /\ version' \in [Keys -> [spec : Specs \cup {None}, status : Statuses \cup {"none"}]]
        /\ version'[k] = [spec |-> version[k].spec, status |-> st]
        /\ \A q \in Keys : q # k => version'[q] = version[q]
    BY <1>0 DEF Statuses
  <1>2. \A q \in Keys : version'[q].spec = version[q].spec
    BY <1>1
  <1>3. version[k].spec # None
    BY <1>0 DEF VersionInv
  <1>4. \A s \in Legacy : Key(s) # k /\ Key(s) \in Keys
    BY <1>0, SpecsTyped, LegacyStable
  <1>5. VersionInv'
    <2>1. \A q \in Keys : version'[q].spec # None => Key(version'[q].spec) = q
      BY <1>0, <1>2 DEF VersionInv
    <2>2. \A q \in Keys : version'[q].spec = None <=> version'[q].status = "none"
      BY <1>0, <1>1, <1>3 DEF VersionInv
    <2>3. \A s \in Legacy : version'[Key(s)] = [spec |-> s, status |-> "stable"]
      BY <1>0, <1>1, <1>4 DEF VersionInv
    <2> QED
      BY <2>1, <2>2, <2>3 DEF VersionInv
  <1>6. FixturesAreTheSpecs'
    BY <1>0, <1>2 DEF FixturesAreTheSpecs
  <1>7. ASSUME NEW j \in Importers PROVE ImportInv(j)'
    <2>1. ImportInv(j) /\ imp[j] \in Imports
      BY <1>0
    <2>2. At(j)' = At(j) /\ InTransaction(j)' = InTransaction(j)
      BY <1>0 DEF At, InTransaction
    <2>3. \A q : Settled(j, q)' = Settled(j, q) /\ FixturesOf(j, q)' = FixturesOf(j, q)
      <3>1. \A q : FixturesOf(j, q)' = FixturesOf(j, q) /\ RowsOf(j, q)' = RowsOf(j, q)
        BY <1>0 DEF FixturesOf, RowsOf
      <3>2. \A q : Settled(j, q)' = Settled(j, q)
        BY <3>1 DEF Settled
      <3> QED
        BY <3>1, <3>2
    <2>4. \A q \in Keys : Exists(j, q)' = Exists(j, q) /\ Stored(j, q)' = Stored(j, q)
      <3> SUFFICES ASSUME NEW q \in Keys
                   PROVE  Exists(j, q)' = Exists(j, q) /\ Stored(j, q)' = Stored(j, q)
        OBVIOUS
      <3>1. Exists(j, q)' = Exists(j, q)
        BY <1>0, <1>2 DEF Exists
      <3>2. Stored(j, q)' = Stored(j, q)
        BY <1>0, <1>2 DEF Stored
      <3> QED
        BY <3>1, <3>2
    <2>5. \A s \in imp[j].rows : Key(s) \in Keys
      BY <2>1, SpecsTyped DEF Imports
    <2>6. imp[j].pc \in {"fixtures", "verify"} => Key(At(j)) \in Keys
      BY <1>0, <2>1, AtTyped DEF RegistryCoherent, InTransaction
    <2>7. \A s \in imp[j].rows : version'[Key(s)].spec = None
      BY <1>2, <2>1, <2>5 DEF ImportInv
    <2>8. imp[j].pc \in {"fixtures", "verify"} => Exists(j, Key(At(j)))'
      <3> SUFFICES ASSUME imp[j].pc \in {"fixtures", "verify"}
                   PROVE  Exists(j, Key(At(j)))'
        OBVIOUS
      <3>1. PICK q \in Keys : q = Key(At(j))
        BY <2>6
      <3>2. Exists(j, q)
        BY <2>1, <3>1 DEF ImportInv
      <3>3. Exists(j, q)'
        BY <2>4, <3>2
      <3> QED
        BY <2>2, <3>1, <3>3
    <2>9. \A q \in Keys :
            \/ Settled(j, q)'
            \/ q = Key(At(j)) /\ imp[j].pc = "fixtures" /\ At(j) \in imp[j].rows
                 /\ FixturesOf(j, q)' = {}
            \/ q = Key(At(j)) /\ imp[j].pc = "verify" /\ Stored(j, q)' # At(j)
      BY <2>1, <2>3, <2>4 DEF ImportInv
    <2> QED
      BY <1>0, <2>1, <2>2, <2>7, <2>8, <2>9 DEF ImportInv
  <1> QED
    BY <1>1, <1>2, <1>3, <1>5, <1>6, <1>7

LEMMA SetCandidateKeeps ==
  ASSUME RegistryCoherent, NEW k \in Keys, SetCandidate(k)
  PROVE  RegistryCoherent'
  <1>1. /\ version[k].status = "draft" /\ UNCHANGED <<fixture, recipe, imp>>
        /\ version' = [version EXCEPT ![k].status = "candidate"]
    BY DEF SetCandidate
  <1>2. /\ version' \in [Keys -> [spec : Specs \cup {None}, status : Statuses \cup {"none"}]]
        /\ \A q \in Keys : q # k => version'[q] = version[q]
        /\ VersionInv' /\ FixturesAreTheSpecs' /\ \A j \in Importers : ImportInv(j)'
    BY <1>1, StatusKeeps
  <1>3. TypeOK'
    BY <1>1, <1>2 DEF RegistryCoherent, TypeOK
  <1>4. ActiveIsStable'
    <2>1. ActiveIsStable
      BY DEF RegistryCoherent
    <2>2. \A i \in Ids : recipe[i].active # None => Key(recipe[i].active) \in Keys
      BY SpecsTyped DEF RegistryCoherent, TypeOK
    <2>3. \A i \in Ids : recipe[i].active # None =>
            version[Key(recipe[i].active)].status = "stable"
      <3> SUFFICES ASSUME NEW i \in Ids, recipe[i].active # None
                   PROVE  version[Key(recipe[i].active)].status = "stable"
        OBVIOUS
      <3>1. version[Key(recipe[i].active)] = [spec |-> recipe[i].active, status |-> "stable"]
        BY <2>1 DEF ActiveIsStable
      <3> QED
        BY <3>1
    <2>4. \A i \in Ids : recipe[i].active # None =>
            version'[Key(recipe[i].active)] = version[Key(recipe[i].active)]
      BY <1>1, <1>2, <2>2, <2>3
    <2> QED
      BY <1>1, <2>1, <2>4 DEF ActiveIsStable
  <1> QED
    BY <1>2, <1>3, <1>4 DEF RegistryCoherent

LEMMA PromoteKeeps ==
  ASSUME RegistryCoherent, NEW k \in Keys, Promote(k)
  PROVE  RegistryCoherent'
  <1> DEFINE s == version[k].spec
  <1>1. /\ version[k].status = "candidate" /\ UNCHANGED <<fixture, imp>>
        /\ s.evals >= 1 /\ \E r \in fixture : r[1] = k
        /\ version' = [version EXCEPT ![k].status = "stable"]
        /\ recipe' = [recipe EXCEPT ![s.id].active = s,
                                    ![s.id].name = IF @ = "none" THEN s.name ELSE @]
    BY DEF Promote
  <1>2. /\ version' \in [Keys -> [spec : Specs \cup {None}, status : Statuses \cup {"none"}]]
        /\ s # None /\ version'[k] = [spec |-> s, status |-> "stable"]
        /\ \A q \in Keys : q # k => version'[q] = version[q]
        /\ VersionInv' /\ FixturesAreTheSpecs' /\ \A j \in Importers : ImportInv(j)'
    BY <1>1, StatusKeeps
  <1>3. s \in Specs /\ Key(s) = k /\ s.id \in Ids
    <2>1. s \in Specs /\ Key(s) = k
      BY <1>2 DEF RegistryCoherent, TypeOK, VersionInv
    <2> QED
      BY <2>1, SpecsTyped
  <1>4. PICK u \in Specs : u = s
    BY <1>3
  <1>5. /\ recipe' \in [Ids -> [name : {l.name : l \in Specs} \cup {"none"},
                              active : Specs \cup {None}]]
        /\ recipe'[u.id].active = u
        /\ \A q \in Ids : q # u.id => recipe'[q] = recipe[q]
    <2>1. recipe \in [Ids -> [name : {l.name : l \in Specs} \cup {"none"},
                              active : Specs \cup {None}]]
      BY DEF RegistryCoherent, TypeOK
    <2>2. PICK n \in {l.name : l \in Specs} \cup {"none"} :
            recipe' = [recipe EXCEPT ![u.id].active = u, ![u.id].name = n]
      <3>1. CASE recipe[u.id].name = "none"
        BY <1>1, <1>3, <1>4, <2>1, <3>1
      <3>2. CASE recipe[u.id].name # "none"
        BY <1>1, <1>3, <1>4, <2>1, <3>2
      <3> QED
        BY <3>1, <3>2
    <2>3. [recipe[u.id] EXCEPT !.active = u, !.name = n] \in
            [name : {l.name : l \in Specs} \cup {"none"}, active : Specs \cup {None}]
      BY <1>3, <1>4, <2>1
    <2>4. recipe' = [recipe EXCEPT ![u.id] = [recipe[u.id] EXCEPT !.active = u, !.name = n]]
      BY <2>2
    <2>5. u.id \in Ids /\ [recipe[u.id] EXCEPT !.active = u, !.name = n].active = u
      BY <1>3, <1>4, <2>1
    <2> QED
      BY <2>1, <2>3, <2>4, <2>5
  <1>6. TypeOK'
    BY <1>1, <1>2, <1>5 DEF RegistryCoherent, TypeOK
  <1>7. ActiveIsStable'
    <2>0. ActiveIsStable
      BY DEF RegistryCoherent
    <2>1. ASSUME NEW i \in Ids, recipe'[i].active # None
          PROVE  LET l == recipe'[i].active IN
                 /\ version'[Key(l)] = [spec |-> l, status |-> "stable"]
                 /\ l \in Legacy \/ (l.evals >= 1 /\ \E r \in fixture' : r[1] = Key(l))
      <3>1. CASE i = u.id
        <4>1. recipe'[i].active = u
          BY <1>5, <3>1
        <4> QED
          BY <1>1, <1>2, <1>3, <1>4, <4>1
      <3>2. CASE i # u.id
        <4>1. recipe'[i].active = recipe[i].active
          BY <1>5, <2>1, <3>2
        <4>2. /\ version[Key(recipe[i].active)] = [spec |-> recipe[i].active, status |-> "stable"]
              /\ \/ recipe[i].active \in Legacy
                 \/ /\ recipe[i].active.evals >= 1
                    /\ \E r \in fixture : r[1] = Key(recipe[i].active)
          BY <2>0, <2>1, <4>1 DEF ActiveIsStable
        <4>3. Key(recipe[i].active) \in Keys
          BY <2>1, <4>1, SpecsTyped DEF RegistryCoherent, TypeOK
        <4>4. Key(recipe[i].active) # k
          BY <1>1, <4>2
        <4>5. version'[Key(recipe[i].active)] = version[Key(recipe[i].active)]
          BY <1>2, <4>3, <4>4
        <4> QED
          BY <1>1, <4>1, <4>2, <4>5
      <3> QED
        BY <3>1, <3>2
    <2> QED
      BY <2>1 DEF ActiveIsStable
  <1> QED
    BY <1>2, <1>6, <1>7 DEF RegistryCoherent

\* Of the registry's variables, the evaluation of a run changes none.
LEMMA EvaluationFrame ==
  ASSUME \/ \E a \in Artifacts : AddArtifact(a)
         \/ AddIndex
         \/ \E e \in Evaluators : Evaluate(e) \/ Save(e)
         \/ UNCHANGED vars
  PROVE  UNCHANGED <<version, fixture, recipe, imp>>
  BY DEF AddArtifact, AddIndex, Evaluate, Save, vars, registry

\* Of the evaluation's variables, the registry's steps change none.
LEMMA RegistryFrame ==
  ASSUME \/ \E i \in Importers :
              \/ \E b \in Bundles : Import(i, b)
              \/ CheckStable(i) \/ Insert(i) \/ Fixtures(i) \/ Verify(i) \/ Commit(i) \/ Abort(i)
         \/ \E k \in Keys : SetCandidate(k) \/ Promote(k)
         \/ UNCHANGED vars
  PROVE  UNCHANGED runVars
  BY DEF Import, CheckStable, Insert, Fixtures, Verify, Commit, Abort, Rollback, Step,
         SetCandidate, Promote, vars, runVars

LEMMA UnchangedKeeps ==
  ASSUME RegistryCoherent, UNCHANGED <<version, fixture, recipe, imp>>
  PROVE  RegistryCoherent'
  <1>0. version' = version /\ fixture' = fixture /\ recipe' = recipe /\ imp' = imp
    OBVIOUS
  <1>1. TypeOK' /\ VersionInv' /\ FixturesAreTheSpecs' /\ ActiveIsStable'
    BY <1>0 DEF RegistryCoherent, TypeOK, VersionInv, FixturesAreTheSpecs, ActiveIsStable
  <1>2. ASSUME NEW j \in Importers PROVE ImportInv(j)'
    <2>1. ImportInv(j)
      BY DEF RegistryCoherent
    <2> QED
      BY <1>0, <2>1 DEF ImportInv, At, InTransaction, Exists, Stored, Settled, RowsOf,
         FixturesOf, Others
  <1> QED
    BY <1>1, <1>2 DEF RegistryCoherent

LEMMA InitCoherent == Init => RegistryCoherent
  <1> SUFFICES ASSUME Init PROVE RegistryCoherent
    OBVIOUS
  <1>1. /\ version = [k \in Keys |->
             IF \E s \in Legacy : Key(s) = k
               THEN [spec |-> Row(Legacy, k), status |-> "stable"]
               ELSE [spec |-> None, status |-> "none"]]
        /\ fixture = {}
        /\ recipe = [i \in Ids |->
             LET s == IF \E l \in Legacy : l.id = i
                        THEN CHOOSE l \in Legacy : l.id = i ELSE None
             IN [name |-> s.name, active |-> s]]
        /\ imp = [i \in Importers |-> NoImport]
    BY DEF Init, InitWith
  <1>2. \A k \in Keys : (\E s \in Legacy : Key(s) = k) =>
          Row(Legacy, k) \in Legacy /\ Key(Row(Legacy, k)) = k
    BY DEF Row
  <1>3. \A k \in Keys :
          \/ /\ Row(Legacy, k) \in Legacy /\ Key(Row(Legacy, k)) = k
             /\ version[k] = [spec |-> Row(Legacy, k), status |-> "stable"]
          \/ version[k] = [spec |-> None, status |-> "none"] /\ ~ \E s \in Legacy : Key(s) = k
    BY <1>1, <1>2
  <1>f. ASSUME NEW k \in Keys
        PROVE  /\ \/ version[k].spec \in Legacy /\ Key(version[k].spec) = k
                    /\ version[k].status = "stable"
                  \/ version[k].spec = None /\ version[k].status = "none"
               /\ version[k] \in [spec : Specs \cup {None}, status : Statuses \cup {"none"}]
    <2>1. CASE /\ Row(Legacy, k) \in Legacy /\ Key(Row(Legacy, k)) = k
               /\ version[k] = [spec |-> Row(Legacy, k), status |-> "stable"]
      BY <2>1, SpecsTyped DEF Statuses
    <2>2. CASE version[k] = [spec |-> None, status |-> "none"]
      BY <2>2
    <2> QED
      BY <1>3, <2>1, <2>2
  <1>4. \A s \in Legacy : version[Key(s)] = [spec |-> s, status |-> "stable"]
    <2> SUFFICES ASSUME NEW s \in Legacy
                 PROVE  version[Key(s)] = [spec |-> s, status |-> "stable"]
      OBVIOUS
    <2>1. Key(s) \in Keys
      BY SpecsTyped
    <2>2. /\ Row(Legacy, Key(s)) \in Legacy /\ Key(Row(Legacy, Key(s))) = Key(s)
          /\ version[Key(s)] = [spec |-> Row(Legacy, Key(s)), status |-> "stable"]
      BY <1>3, <2>1
    <2>3. Row(Legacy, Key(s)).id = s.id
      BY <2>2 DEF Key
    <2>4. Row(Legacy, Key(s)) = s
      BY <2>2, <2>3, RecipesAssumption
    <2> QED
      BY <2>2, <2>4
  <1>5. VersionInv
    <2>1. \A k \in Keys : version[k].spec # None => Key(version[k].spec) = k
      BY <1>f
    <2>2. \A k \in Keys : version[k].spec = None <=> version[k].status = "none"
      BY <1>f, SpecsTyped
    <2> QED
      BY <1>4, <2>1, <2>2 DEF VersionInv
  <1>6. \A i \in Ids : recipe[i].active \in Legacy \cup {None}
                         /\ recipe[i].name \in {l.name : l \in Specs} \cup {"none"}
                         /\ recipe[i] = [name |-> recipe[i].name, active |-> recipe[i].active]
    <2> SUFFICES ASSUME NEW i \in Ids
                 PROVE  recipe[i].active \in Legacy \cup {None}
                         /\ recipe[i].name \in {l.name : l \in Specs} \cup {"none"}
                         /\ recipe[i] = [name |-> recipe[i].name, active |-> recipe[i].active]
      OBVIOUS
    <2>1. PICK s \in Legacy \cup {None} : recipe[i] = [name |-> s.name, active |-> s]
      BY <1>1
    <2>2. s.name \in {l.name : l \in Specs} \cup {"none"}
      BY SpecsTyped DEF None
    <2> QED
      BY <2>1, <2>2
  <1>7. TypeOK
    <2>1. version \in [Keys -> [spec : Specs \cup {None}, status : Statuses \cup {"none"}]]
      <3>1. \A k \in Keys : version[k] \in [spec : Specs \cup {None},
                                            status : Statuses \cup {"none"}]
        BY <1>f
      <3> QED
        BY <1>1, <3>1
    <2>2. recipe \in [Ids -> [name : {l.name : l \in Specs} \cup {"none"},
                              active : Specs \cup {None}]]
      <3>1. \A i \in Ids : recipe[i] \in [name : {l.name : l \in Specs} \cup {"none"},
                                          active : Specs \cup {None}]
        <4> SUFFICES ASSUME NEW i \in Ids
                     PROVE  recipe[i] \in [name : {l.name : l \in Specs} \cup {"none"},
                                          active : Specs \cup {None}]
          OBVIOUS
        <4>1. recipe[i].active \in Specs \cup {None}
          BY <1>6, SpecsTyped
        <4>2. /\ recipe[i] = [name |-> recipe[i].name, active |-> recipe[i].active]
              /\ recipe[i].name \in {l.name : l \in Specs} \cup {"none"}
          BY <1>6
        <4> QED
          BY <4>1, <4>2
      <3>2. recipe = [i \in Ids |-> recipe[i]]
        BY <1>1
      <3> QED
        BY <3>1, <3>2
    <2>3. imp \in [Importers -> Imports]
      BY <1>1 DEF NoImport, Imports, ImportSteps
    <2> QED
      BY <2>1, <2>2, <2>3 DEF TypeOK, Imports, AllRows
  <1>8. FixturesAreTheSpecs
    <2>1. \A k \in Keys : version[k].spec = None \/ version[k].spec \in Legacy
      BY <1>f
    <2> QED
      BY <1>1, <2>1 DEF FixturesAreTheSpecs
  <1>9. ActiveIsStable
    BY <1>4, <1>6 DEF ActiveIsStable
  <1>10. \A i \in Importers : ImportInv(i)
    BY <1>1 DEF ImportInv, NoImport, InTransaction, Settled, RowsOf, FixturesOf
  <1> QED
    BY <1>5, <1>7, <1>8, <1>9, <1>10 DEF RegistryCoherent

LEMMA NextCoherent == RegistryCoherent /\ [Next]_vars => RegistryCoherent'
  <1> SUFFICES ASSUME RegistryCoherent, [Next]_vars PROVE RegistryCoherent'
    OBVIOUS
  <1>1. ASSUME NEW i \in Importers, NEW b \in Bundles, Import(i, b) PROVE RegistryCoherent'
    BY <1>1, ImportKeeps
  <1>2. ASSUME NEW i \in Importers,
               CheckStable(i) \/ Insert(i) \/ Fixtures(i) \/ Verify(i) \/ Commit(i) \/ Abort(i)
        PROVE  RegistryCoherent'
    BY <1>2, CheckStableKeeps, InsertKeeps, FixturesKeeps, VerifyKeeps, CommitKeeps,
       RollbackKeeps DEF Abort
  <1>3. ASSUME NEW k \in Keys, SetCandidate(k) \/ Promote(k) PROVE RegistryCoherent'
    BY <1>3, SetCandidateKeeps, PromoteKeeps
  <1>4. CASE \/ \E a \in Artifacts : AddArtifact(a)
             \/ AddIndex
             \/ \E e \in Evaluators : Evaluate(e) \/ Save(e)
             \/ UNCHANGED vars
    BY <1>4, EvaluationFrame, UnchangedKeeps
  <1> QED
    BY <1>1, <1>2, <1>3, <1>4 DEF Next

\* However transactions overlap: a version has the fixtures it lists and no
\* others, and what runs are to use is stable, covered and what app.recipes
\* says (insertVersion, insertRecipeFixtures, promoteStable).
THEOREM Coherent == Spec => []RegistryCoherent
  BY InitCoherent, NextCoherent, PTL DEF Spec

\* What a version says, and what it was tested with, is decided once, and what
\* is stable stays so (ON CONFLICT DO NOTHING, "stable recipe version is
\* immutable").
THEOREM Immutable == Spec => StableKept
  <1> DEFINE Kept(k) == version[k].spec # None =>
                 /\ version'[k].spec = version[k].spec
                 /\ version[k].status = "stable" => version'[k].status = "stable"
                 /\ {r \in fixture' : r[1] = k} = {r \in fixture : r[1] = k}
  <1>1. RegistryCoherent /\ [Next]_vars => [\A k \in Keys : Kept(k)]_vars
    <2> SUFFICES ASSUME RegistryCoherent, Next, NEW k \in Keys PROVE Kept(k)
      OBVIOUS
    <2>1. CASE UNCHANGED <<version, fixture>>
      BY <2>1
    <2>2. ASSUME NEW i \in Importers, Commit(i) PROVE Kept(k)
      BY <2>2, CommitKeeps
    <2>3. ASSUME NEW i \in Importers,
                 \/ \E b \in Bundles : Import(i, b)
                 \/ CheckStable(i) \/ Insert(i) \/ Fixtures(i) \/ Verify(i) \/ Abort(i)
          PROVE  UNCHANGED <<version, fixture>>
      BY <2>3 DEF Import, CheckStable, Insert, Fixtures, Verify, Abort, Rollback, Step,
         registry
    <2>4. ASSUME NEW q \in Keys, SetCandidate(q) \/ Promote(q) PROVE Kept(k)
      <3>1. PICK st \in {"candidate", "stable"} :
              /\ version' = [version EXCEPT ![q].status = st]
              /\ version[q].status \in {"draft", "candidate"}
              /\ UNCHANGED <<fixture, imp>>
        BY <2>4 DEF SetCandidate, Promote
      <3>2. version'[k].spec = version[k].spec
        BY <3>1, StatusKeeps
      <3>3. version[k].status = "stable" => version'[k] = version[k]
        BY <3>1, StatusKeeps
      <3> QED
        BY <3>1, <3>2, <3>3
    <2>5. CASE \/ \E a \in Artifacts : AddArtifact(a)
               \/ AddIndex
               \/ \E e \in Evaluators : Evaluate(e) \/ Save(e)
      BY <2>1, <2>5, EvaluationFrame
    <2> QED
      BY <2>1, <2>2, <2>3, <2>4, <2>5 DEF Next
  <1> QED
    BY <1>1, Coherent, PTL DEF Spec, StableKept
-----------------------------------------------------------------------------
(* The evaluation of a run. *)

\* A result that is there is not the mark of one that is not.
LEMMA ResultsTyped ==
  ASSUME NEW c, NEW saw \in SUBSET Artifacts
  PROVE  Result(c, saw) \in SUBSET Artifacts /\ Result(c, saw) # NoResult
  <1>1. Result(c, saw) \in SUBSET Artifacts
    BY DEF Result
  <1>2. NoResult \notin SUBSET Artifacts
    BY RecipesAssumption DEF NoResult
  <1> QED
    BY <1>1, <1>2

LEMMA ChecksTyped ==
  /\ DOMAIN Checks = 1..Len(Checks) /\ Len(Checks) \in Nat
  /\ \A j \in DOMAIN Checks : Checks[j] \in CheckIds
  /\ \A c \in CheckIds : \E j \in DOMAIN Checks : Checks[j] = c
  BY ChecksAssumption DEF CheckIds

LEMMA InitCoheres == Init => ResultsCohere
  <1> SUFFICES ASSUME Init PROVE ResultsCohere
    OBVIOUS
  <1>1. /\ artifact = {} /\ result = [c \in CheckIds |-> NoResult]
        /\ eval = [e \in Evaluators |-> NoEval]
    BY DEF Init, InitWith
  <1>2. \A e \in Evaluators : eval[e].pc = "idle"
    BY <1>1 DEF NoEval
  <1>3. \A c \in CheckIds : result[c] = NoResult
    BY <1>1
  <1>4. EvalInv
    <2>1. eval \in [Evaluators -> [pc : {"idle", "save", "done", "diverged"},
                                   saw : SUBSET Artifacts, at : Nat]]
      BY <1>1 DEF NoEval
    <2> QED
      BY <1>1, <1>2, <1>3, <2>1, ChecksTyped DEF EvalInv
  <1> QED
    BY <1>2, <1>3, <1>4 DEF ResultsCohere

\* The order of checks with the same id does not matter: they follow each
\* other, so what is there before one of them is there before all.
LEMMA SaveCoheres ==
  ASSUME ResultsCohere, NEW e \in Evaluators, Save(e)
  PROVE  ResultsCohere'
  <1> DEFINE Evals == [pc : {"idle", "save", "done", "diverged"},
                       saw : SUBSET Artifacts, at : Nat]
  <1>0. /\ EvalInv /\ eval[e].pc = "save" /\ eval[e] \in Evals /\ eval \in [Evaluators -> Evals]
        /\ result \in [CheckIds -> (SUBSET Artifacts) \cup {NoResult}]
    BY DEF ResultsCohere, EvalInv, Save
  <1>1. PICK at \in DOMAIN Checks : at = eval[e].at
    BY <1>0 DEF EvalInv
  <1>2. PICK saw \in reads : saw = eval[e].saw
    BY <1>0 DEF EvalInv
  <1>3. PICK c \in CheckIds : c = Checks[at]
    BY ChecksTyped
  <1>4. PICK mine \in SUBSET Artifacts : mine = Result(c, saw) /\ mine # NoResult
    BY <1>0, <1>2, ResultsTyped
  <1>5. /\ result' = [result EXCEPT ![c] = IF result[c] = NoResult THEN mine ELSE result[c]]
        /\ UNCHANGED <<artifact, reads>>
        /\ eval' = [eval EXCEPT ![e].pc = After(e, result'[c] = mine, at), ![e].at = at + 1]
    BY <1>0, <1>1, <1>2, <1>3, <1>4 DEF Save
  <1>6. /\ result'[c] = IF result[c] = NoResult THEN mine ELSE result[c]
        /\ \A d \in CheckIds : d # c => result'[d] = result[d]
        /\ result' \in [CheckIds -> (SUBSET Artifacts) \cup {NoResult}]
    BY <1>0, <1>5
  <1>7. /\ \A d \in CheckIds : result[d] # NoResult => result'[d] = result[d]
        /\ result'[c] # NoResult
    BY <1>4, <1>6
  <1>8. \A j \in DOMAIN Checks : j < at => result[Checks[j]] = Result(Checks[j], saw)
    BY <1>0, <1>1, <1>2 DEF EvalInv
  <1>9. \A j \in DOMAIN Checks : result[Checks[j]] = Result(Checks[j], saw) =>
          result'[Checks[j]] = Result(Checks[j], saw) /\ result[Checks[j]] # NoResult
    <2>1. saw \in SUBSET Artifacts
      BY <1>0, <1>2
    <2> QED
      BY <1>7, <2>1, ResultsTyped, ChecksTyped
  <1>10. PICK to \in {"diverged", "done", "save"} :
           /\ eval' = [eval EXCEPT ![e].pc = to, ![e].at = at + 1]
           /\ to # "diverged" => result'[c] = mine
           /\ to = "done" => at = Len(Checks)
           /\ to = "save" => at # Len(Checks)
    <2>1. CASE result'[c] # mine
      BY <1>5, <2>1 DEF After
    <2>2. CASE result'[c] = mine /\ at = Len(Checks)
      BY <1>5, <2>2 DEF After
    <2>3. CASE result'[c] = mine /\ at # Len(Checks)
      BY <1>5, <2>3 DEF After
    <2> QED
      BY <2>1, <2>2, <2>3
  <1>11. /\ eval' \in [Evaluators -> Evals]
         /\ eval'[e].pc = to /\ eval'[e].at = at + 1 /\ eval'[e].saw = saw
         /\ \A f \in Evaluators : f # e => eval'[f] = eval[f]
    <2>1. at + 1 \in Nat /\ to \in {"idle", "save", "done", "diverged"}
      BY ChecksTyped
    <2> QED
      BY <1>0, <1>2, <1>10, <2>1
  <1>12. \A f \in Evaluators : eval'[f].pc \in {"save", "done"} =>
           /\ eval'[f].saw \in reads
           /\ eval'[f].pc = "save" => eval'[f].at \in DOMAIN Checks
           /\ \A j \in DOMAIN Checks : j < eval'[f].at \/ eval'[f].pc = "done" =>
                result'[Checks[j]] = Result(Checks[j], eval'[f].saw)
    <2>1. ASSUME NEW f \in Evaluators, f # e, eval[f].pc \in {"save", "done"}
          PROVE  /\ eval[f].saw \in reads
                 /\ eval[f].pc = "save" => eval[f].at \in DOMAIN Checks
                 /\ \A j \in DOMAIN Checks : j < eval[f].at \/ eval[f].pc = "done" =>
                      result'[Checks[j]] = Result(Checks[j], eval[f].saw)
      <3>1. /\ eval[f].saw \in reads
            /\ eval[f].pc = "save" => eval[f].at \in DOMAIN Checks
            /\ \A j \in DOMAIN Checks : j < eval[f].at \/ eval[f].pc = "done" =>
                 result[Checks[j]] = Result(Checks[j], eval[f].saw)
        BY <1>0, <2>1 DEF EvalInv
      <3>2. eval[f].saw \in SUBSET Artifacts
        BY <1>0
      <3> QED
        BY <1>7, <3>1, <3>2, ResultsTyped, ChecksTyped
    <2>2. ASSUME to \in {"save", "done"}
          PROVE  /\ to = "save" => at + 1 \in DOMAIN Checks
                 /\ \A j \in DOMAIN Checks : j < at + 1 \/ to = "done" =>
                      result'[Checks[j]] = Result(Checks[j], saw)
      <3>1. to = "save" => at + 1 \in DOMAIN Checks
        BY <1>10, ChecksTyped
      <3>2. \A j \in DOMAIN Checks : j < at + 1 \/ to = "done" => j < at \/ j = at
        BY <1>10, ChecksTyped
      <3>3. result'[Checks[at]] = Result(Checks[at], saw)
        BY <1>3, <1>4, <1>10, <2>2
      <3> QED
        BY <1>8, <1>9, <3>1, <3>2, <3>3
    <2> QED
      BY <1>11, <2>1, <2>2
  <1>13. \A i, j \in DOMAIN Checks :
           i < j /\ result'[Checks[j]] # NoResult => result'[Checks[i]] # NoResult
    <2> SUFFICES ASSUME NEW i \in DOMAIN Checks, NEW j \in DOMAIN Checks, i < j,
                        result'[Checks[j]] # NoResult
                 PROVE  result'[Checks[i]] # NoResult
      OBVIOUS
    <2>1. CASE result[Checks[j]] # NoResult
      <3>1. result[Checks[i]] # NoResult
        BY <1>0, <2>1 DEF EvalInv
      <3> QED
        BY <1>7, <3>1, ChecksTyped
    <2>2. CASE result[Checks[j]] = NoResult
      <3>1. Checks[j] = Checks[at]
        BY <1>3, <1>6, <2>2, ChecksTyped
      <3>2. CASE i < at
        BY <1>8, <1>9, <1>7, <3>2, ChecksTyped
      <3>3. CASE ~ (i < at)
        <4>1. at <= i /\ i <= j
          BY <3>3, ChecksTyped
        <4>2. Checks[i] = Checks[at]
          BY <3>1, <4>1, ChecksAssumption
        <4> QED
          BY <1>3, <1>7, <4>2
      <3> QED
        BY <3>2, <3>3
    <2> QED
      BY <2>1, <2>2
  <1>14. EvalInv'
    BY <1>0, <1>5, <1>6, <1>11, <1>12, <1>13 DEF EvalInv
  <1>15. \E s \in reads : \A d \in CheckIds : result'[d] \in {NoResult, Result(d, s)}
    <2>1. CASE result[c] = NoResult
      <3>1. \A d \in CheckIds : result'[d] \in {NoResult, Result(d, saw)}
        <4> SUFFICES ASSUME NEW d \in CheckIds, result'[d] # NoResult
                     PROVE  result'[d] = Result(d, saw)
          OBVIOUS
        <4>1. PICK j \in DOMAIN Checks : Checks[j] = d
          BY ChecksTyped
        <4>2. CASE d = c
          BY <1>4, <1>6, <2>1, <4>2
        <4>3. CASE d # c
          <5>1. result[Checks[j]] # NoResult /\ j # at
            BY <1>3, <1>6, <4>1, <4>3
          <5>2. ~ (at < j)
            BY <1>0, <1>3, <2>1, <5>1 DEF EvalInv
          <5>3. j < at
            BY <5>1, <5>2, ChecksTyped
          <5> QED
            BY <1>8, <1>9, <4>1, <5>3
        <4> QED
          BY <4>2, <4>3
      <3> QED
        BY <3>1
    <2>2. CASE result[c] # NoResult
      <3>1. PICK s \in reads : \A d \in CheckIds : result[d] \in {NoResult, Result(d, s)}
        BY <2>2 DEF ResultsCohere
      <3>2. \A d \in CheckIds : result'[d] = result[d]
        BY <1>6, <2>2
      <3> QED
        BY <3>1, <3>2
    <2> QED
      BY <2>1, <2>2
  <1>16. \A f \in Evaluators : eval'[f].pc = "done" =>
           \A d \in CheckIds : result'[d] = Result(d, eval'[f].saw)
    BY <1>12, ChecksTyped
  <1> QED
    BY <1>5, <1>14, <1>15, <1>16 DEF ResultsCohere

LEMMA EvaluateCoheres ==
  ASSUME ResultsCohere, NEW e \in Evaluators, Evaluate(e)
  PROVE  ResultsCohere'
  <1> DEFINE Evals == [pc : {"idle", "save", "done", "diverged"},
                       saw : SUBSET Artifacts, at : Nat]
  <1>0. EvalInv
    BY DEF ResultsCohere
  <1>1. /\ reads' = reads \cup {artifact} /\ artifact' = artifact /\ result' = result
        /\ artifact \in SUBSET Artifacts /\ eval \in [Evaluators -> Evals]
    BY <1>0 DEF Evaluate, EvalInv
  <1>2. PICK to \in {"done", "save"} :
          /\ eval' = [eval EXCEPT ![e] = [pc |-> to, saw |-> artifact, at |-> 1]]
          /\ to = IF Checks = <<>> THEN "done" ELSE "save"
    BY DEF Evaluate
  <1>3. /\ eval' \in [Evaluators -> Evals]
        /\ eval'[e].pc = to /\ eval'[e].saw = artifact /\ eval'[e].at = 1
        /\ \A f \in Evaluators : f # e => eval'[f] = eval[f]
    BY <1>1, <1>2
  <1>4. \A f \in Evaluators : eval'[f].pc \in {"save", "done"} =>
          /\ eval'[f].saw \in reads'
          /\ eval'[f].pc = "save" => eval'[f].at \in DOMAIN Checks
          /\ \A j \in DOMAIN Checks : j < eval'[f].at \/ eval'[f].pc = "done" =>
               result'[Checks[j]] = Result(Checks[j], eval'[f].saw)
    <2>1. ASSUME NEW f \in Evaluators, f # e, eval[f].pc \in {"save", "done"}
          PROVE  /\ eval[f].saw \in reads'
                 /\ eval[f].pc = "save" => eval[f].at \in DOMAIN Checks
                 /\ \A j \in DOMAIN Checks : j < eval[f].at \/ eval[f].pc = "done" =>
                      result'[Checks[j]] = Result(Checks[j], eval[f].saw)
      BY <1>0, <1>1, <2>1 DEF EvalInv
    <2>2. /\ to = "save" => 1 \in DOMAIN Checks
          /\ \A j \in DOMAIN Checks : ~ (j < 1) /\ to # "done"
      <3>1. Checks = <<>> => DOMAIN Checks = {}
        OBVIOUS
      <3>2. Checks # <<>> => 1 \in DOMAIN Checks
        BY ChecksAssumption
      <3> QED
        BY <1>2, <3>1, <3>2, ChecksTyped
    <2> QED
      BY <1>1, <1>3, <2>1, <2>2
  <1>5. EvalInv'
    BY <1>0, <1>1, <1>3, <1>4 DEF EvalInv
  <1>6. \A f \in Evaluators : eval'[f].pc = "done" =>
          \A d \in CheckIds : result'[d] = Result(d, eval'[f].saw)
    BY <1>4, ChecksTyped
  <1> QED
    BY <1>1, <1>5, <1>6 DEF ResultsCohere

LEMMA NextCoheres == ResultsCohere /\ [Next]_vars => ResultsCohere'
  <1> SUFFICES ASSUME ResultsCohere, [Next]_vars PROVE ResultsCohere'
    OBVIOUS
  <1>1. ASSUME artifact' \in SUBSET Artifacts, UNCHANGED <<result, eval, reads>>
        PROVE  ResultsCohere'
    BY <1>1 DEF ResultsCohere, EvalInv
  <1>2. artifact \in SUBSET Artifacts
    BY DEF ResultsCohere, EvalInv
  <1>3. ASSUME NEW a \in Artifacts, AddArtifact(a) PROVE ResultsCohere'
    BY <1>1, <1>2, <1>3 DEF AddArtifact
  <1>4. CASE AddIndex
    BY <1>1, <1>2, <1>4 DEF AddIndex
  <1>5. ASSUME NEW e \in Evaluators, Evaluate(e) \/ Save(e) PROVE ResultsCohere'
    BY <1>5, EvaluateCoheres, SaveCoheres
  <1>6. CASE UNCHANGED runVars
    BY <1>1, <1>2, <1>6 DEF runVars
  <1> QED
    BY <1>3, <1>4, <1>5, <1>6, RegistryFrame DEF Next

\* However often and of whatever states of the run it was begun, the results
\* that are kept are those of one evaluation (saveEvalResults).
THEOREM Coheres == Spec => []ResultsCohere
  BY InitCoheres, NextCoheres, PTL DEF Spec
-----------------------------------------------------------------------------
(* What calls come to. *)

\* No answer of the provider or of a producer is mistaken for a row that is
\* not there, and neither is an error.
LEMMA OutcomesDistinct ==
  /\ NoOutput \in Outcomes /\ Error \in Outcomes /\ Error # NoOutput
  /\ \A s \in Steps : Produced(s) \in Outcomes /\ Produced(s) \notin {NoOutput, Error}
  /\ \A s \in Steps : Answers(s) \subseteq Outcomes
  /\ \A s \in Steps : {NoOutput, Error} \cap Answers(s) = {}
  /\ NoOutput.files = FALSE /\ Error.files = FALSE
  <1>1. Error # NoOutput /\ NoOutput.files = FALSE /\ Error.files = FALSE
    BY DEF NoOutput, Error
  <1>2. NoOutput \in Outcomes /\ Error \in Outcomes
    BY DEF Outcomes
  <1>3. ASSUME NEW s \in Steps
        PROVE  Produced(s) \in Outcomes /\ Produced(s) \notin {NoOutput, Error}
    <2>1. Produced(s).from = "producer" /\ NoOutput.from = "none" /\ Error.from = "error"
      BY DEF Produced, NoOutput, Error
    <2> QED
      BY <2>1 DEF Outcomes
  <1>4. ASSUME NEW s \in Steps, NEW o \in Answers(s)
        PROVE  o \in Outcomes /\ o # NoOutput /\ o # Error
    <2>1. o.from = "sdk" /\ NoOutput.from = "none" /\ Error.from = "error"
      BY DEF Answers, NoOutput, Error
    <2>2. o \in Outputs
      BY DEF Answers
    <2> QED
      BY <2>1, <2>2 DEF Outcomes
  <1> QED
    BY <1>1, <1>2, <1>3, <1>4

\* A call that is over has an outcome.
LEMMA OverTyped ==
  ASSUME OcTypeOK, pc \in {"wait", "revert"},
         \/ Over(Produced(step)) \/ Over(Error) \/ \E o \in Answers(step) : Over(o)
  PROVE  /\ out' \in Outcomes \ {NoOutput} /\ pc' = "ledger" /\ UNCHANGED why
         /\ try' = 1 /\ late' = FALSE /\ quiet' = FALSE
  <1>1. step \in Steps
    BY DEF OcTypeOK
  <1> QED
    BY <1>1, OutcomesDistinct DEF Over, Goto
-----------------------------------------------------------------------------
(* Type correctness. *)

LEMMA OcInitTyped == OcInit => OcTypeOK
  <1> SUFFICES ASSUME OcInit PROVE OcTypeOK
    OBVIOUS
  <1>1. [s \in Steps |-> NoOutput] \in [Steps -> Outcomes] /\ NoOutput \in Outcomes
    BY OutcomesDistinct
  <1>2. [s \in Steps |-> "free"] \in [Steps -> {"free", "heartbeat", "none"}]
    OBVIOUS
  <1>3. step \in Steps /\ used \in 0..MessageBudget
    BY BudgetAssumption DEF OcInit, Steps
  <1> QED
    BY <1>1, <1>2, <1>3 DEF OcInit, OcTypeOK, Positions

LEMMA OcNextTyped == OcTypeOK /\ [OcNext]_ocVars => OcTypeOK'
  <1> SUFFICES ASSUME OcTypeOK, [OcNext]_ocVars PROVE OcTypeOK'
    OBVIOUS
  <1> USE BudgetAssumption
      DEF OcTypeOK, Positions, callVars, memVars, dataVars, countVars, Goto, Fail
  <1>1. CASE Begin
    BY <1>1 DEF Begin
  <1>2. CASE CreateSession
    BY <1>2 DEF CreateSession, Unavailable
  <1>3. CASE Log
    BY <1>3 DEF Log, Unavailable
  <1>4. CASE Lookup
    <2> DEFINE found == IF cache[step] # NoOutput THEN cache[step] ELSE ledger[step]
    <2>1. found \in Outcomes /\ NoOutput \in Outcomes
      BY OutcomesDistinct
    <2>2. CASE found # NoOutput
      BY <1>4, <2>1, <2>2 DEF Lookup
    <2>3. CASE found = NoOutput
      BY <1>4, <2>1, <2>3 DEF Lookup
    <2> QED
      BY <2>2, <2>3
  <1>5. CASE Produce \/ Answer \/ Refuse
    <2>1. /\ pc = "wait"
          /\ \/ Over(Produced(step)) \/ Over(Error) \/ \E o \in Answers(step) : Over(o)
      BY <1>5 DEF Produce, Answer, Refuse
    <2>2. /\ out' \in Outcomes \ {NoOutput} /\ pc' = "ledger" /\ UNCHANGED why
          /\ try' = 1 /\ late' = FALSE /\ quiet' = FALSE
      BY <2>1, OverTyped
    <2>3. UNCHANGED <<mode, step, memVars, beat, dataVars, crashes, repairs, lost>>
      BY <1>5 DEF Produce, Answer, Refuse
    <2> QED
      BY <2>2, <2>3
  <1>6. CASE GrowQuiet \/ AnswerLate
    BY <1>6 DEF GrowQuiet, AnswerLate
  <1>7. CASE Stall \/ Revert
    <2>1. CASE Over(Error)
      <3>1. pc \in {"wait", "revert"}
        BY <1>7 DEF Stall, Revert
      <3>2. /\ out' \in Outcomes \ {NoOutput} /\ pc' = "ledger" /\ UNCHANGED why
            /\ try' = 1 /\ late' = FALSE /\ quiet' = FALSE
        BY <2>1, <3>1, OverTyped
      <3> QED
        BY <1>7, <3>2 DEF Stall, Revert
    <2>2. CASE ~Over(Error)
      BY <1>7, <2>2 DEF Stall, Revert
    <2> QED
      BY <2>1, <2>2
  <1>8. CASE Beat
    BY <1>8 DEF Beat
  <1>9. ASSUME NEW s \in Steps, BeatLands(s) PROVE OcTypeOK'
    BY <1>9 DEF BeatLands
  <1>10. CASE SaveCall
    BY <1>10 DEF SaveCall
  <1>11. CASE Check
    BY <1>11 DEF Check, ShouldRotate
  <1>12. CASE Use
    BY <1>12 DEF Use
  <1>13. CASE CheckSlot \/ FillSlot
    BY <1>13 DEF CheckSlot, FillSlot
  <1>14. CASE SaveRow
    BY <1>14 DEF SaveRow
  <1>15. CASE Record
    BY <1>15, OutcomesDistinct DEF Record, Steps
  <1>16. CASE Crash
    <2>1. cache' \in [Steps -> Outcomes] /\ out' \in Outcomes
      BY <1>16, OutcomesDistinct DEF Crash
    <2>2. used' \in 0..MessageBudget /\ crashes' \in Nat
      BY <1>16 DEF Crash
    <2> QED
      BY <1>16, <2>1, <2>2 DEF Crash
  <1>17. CASE Repair
    BY <1>17, OutcomesDistinct DEF Repair, Steps
  <1>18. CASE UNCHANGED ocVars
    BY <1>18 DEF ocVars
  <1> QED
    BY <1>1, <1>2, <1>3, <1>4, <1>5, <1>6, <1>7, <1>8, <1>9, <1>10, <1>11, <1>12,
       <1>13, <1>14, <1>15, <1>16, <1>17, <1>18 DEF OcNext
-----------------------------------------------------------------------------
(* The ledger. *)

LEMMA InitLedgered == OcInit => LedgerInv
  BY DEF OcInit, LedgerInv, DivergesOnlyUnledgered, NoOutput

LEMMA NextLedgered == OcTypeOK /\ LedgerInv /\ [OcNext]_ocVars => LedgerInv'
  <1> SUFFICES ASSUME OcTypeOK, LedgerInv, [OcNext]_ocVars PROVE LedgerInv'
    OBVIOUS
  <1>0. /\ step \in Steps /\ lost \subseteq Steps
        /\ cache \in [Steps -> Outcomes] /\ ledger \in [Steps -> Outcomes]
        /\ card \in [Steps -> Outcomes] /\ row \in [Steps -> Outcomes]
        /\ done \in [Steps -> Outcomes]
    BY DEF OcTypeOK
  <1> USE DEF LedgerInv, DivergesOnlyUnledgered, callVars, memVars, dataVars,
              countVars, Goto, Fail
  <1>1. CASE Begin
    BY <1>1 DEF Begin
  <1>2. CASE CreateSession
    BY <1>2 DEF CreateSession, Unavailable
  <1>3. CASE Log
    BY <1>3 DEF Log, Unavailable
  <1>4. CASE Lookup
    BY <1>0, <1>4 DEF Lookup
  <1>5. CASE Produce \/ Answer \/ Refuse
    <2>1. /\ pc = "wait"
          /\ \/ Over(Produced(step)) \/ Over(Error) \/ \E o \in Answers(step) : Over(o)
      BY <1>5 DEF Produce, Answer, Refuse
    <2>2. out' # NoOutput /\ pc' = "ledger" /\ UNCHANGED why
      BY <2>1, OverTyped
    <2>3. UNCHANGED <<step, cache, ledger, card, row, done, lost>>
      BY <1>5 DEF Produce, Answer, Refuse
    <2> QED
      BY <2>1, <2>2, <2>3
  <1>6. CASE GrowQuiet \/ AnswerLate
    BY <1>6 DEF GrowQuiet, AnswerLate
  <1>7. CASE Stall \/ Revert
    <2>1. CASE Over(Error)
      <3>1. pc \in {"wait", "revert"}
        BY <1>7 DEF Stall, Revert
      <3>2. out' # NoOutput /\ pc' = "ledger" /\ UNCHANGED why
        BY <2>1, <3>1, OverTyped
      <3> QED
        BY <1>7, <3>1, <3>2 DEF Stall, Revert
    <2>2. CASE ~Over(Error)
      BY <1>7, <2>2 DEF Stall, Revert
    <2> QED
      BY <2>1, <2>2
  <1>8. CASE Beat
    BY <1>8 DEF Beat
  <1>9. ASSUME NEW s \in Steps, BeatLands(s) PROVE LedgerInv'
    BY <1>9 DEF BeatLands
  <1>10. CASE SaveCall
    BY <1>0, <1>10 DEF SaveCall
  <1>11. CASE Check
    BY <1>0, <1>11 DEF Check
  <1>12. CASE Use
    <2>1. CASE card' = [card EXCEPT ![step] = out] /\ out.files /\ card[step] \in {NoOutput, out}
                 /\ pc' = "slot" /\ UNCHANGED why
      BY <1>0, <1>12, <2>1, OutcomesDistinct DEF Use
    <2>2. CASE UNCHANGED <<card, why>> /\ ~out.files /\ pc' = "slot"
      BY <1>0, <1>12, <2>2 DEF Use
    <2>3. CASE card[step] \notin {NoOutput, out} /\ UNCHANGED card /\ pc' = "failed"
                 /\ why' = "diverged"
      BY <1>0, <1>12, <2>3 DEF Use
    <2>4. CASE UNCHANGED card /\ pc' = "failed" /\ why' = "contract"
      BY <1>0, <1>12, <2>4 DEF Use
    <2> QED
      BY <1>12, <2>1, <2>2, <2>3, <2>4 DEF Use
  <1>13. CASE CheckSlot \/ FillSlot
    BY <1>13 DEF CheckSlot, FillSlot
  <1>14. CASE SaveRow
    BY <1>0, <1>14 DEF SaveRow
  <1>15. CASE Record
    BY <1>0, <1>15 DEF Record
  <1>16. CASE Crash
    BY <1>0, <1>16 DEF Crash
  <1>17. CASE Repair
    BY <1>0, <1>17 DEF Repair
  <1>18. CASE UNCHANGED ocVars
    BY <1>18 DEF ocVars
  <1> QED
    BY <1>1, <1>2, <1>3, <1>4, <1>5, <1>6, <1>7, <1>8, <1>9, <1>10, <1>11, <1>12,
       <1>13, <1>14, <1>15, <1>16, <1>17, <1>18 DEF OcNext
-----------------------------------------------------------------------------
(* The theorems. *)

\* Through crashes, repairs, stalls and late answers, what a step is recorded to
\* have produced is what the ledger says it was told and what its artifact
\* shows, and only a row that the ledger missed makes a step differ from itself.
THEOREM LedgerRules == OcSpec => []LedgerDecides
  <1>1. OcInit => OcTypeOK /\ LedgerInv
    BY OcInitTyped, InitLedgered
  <1>2. OcTypeOK /\ LedgerInv /\ [OcNext]_ocVars => OcTypeOK' /\ LedgerInv'
    BY OcNextTyped, NextLedgered
  <1>3. LedgerInv => RecordedIsLedgered
    BY DEF LedgerInv, RecordedIsLedgered
  <1> QED
    BY <1>1, <1>2, <1>3, PTL DEF OcSpec, LedgerDecides

\* What the ledger holds of a step's call is never replaced (ON CONFLICT DO
\* NOTHING), and neither is an artifact that was written.
THEOREM LedgerStable ==
  OcSpec =>
    [][\A s \in Steps : /\ ledger[s] # NoOutput => ledger'[s] = ledger[s]
                        /\ card[s] # NoOutput => card'[s] = card[s]]_ocVars
  <1>1. OcTypeOK /\ [OcNext]_ocVars =>
          \A s \in Steps : /\ ledger[s] # NoOutput => ledger'[s] = ledger[s]
                           /\ card[s] # NoOutput => card'[s] = card[s]
    <2> SUFFICES ASSUME OcTypeOK, [OcNext]_ocVars, NEW s \in Steps
                 PROVE  /\ ledger[s] # NoOutput => ledger'[s] = ledger[s]
                        /\ card[s] # NoOutput => card'[s] = card[s]
      OBVIOUS
    <2>0. ledger \in [Steps -> Outcomes] /\ card \in [Steps -> Outcomes]
      BY DEF OcTypeOK
    <2>1. CASE SaveCall
      BY <2>0, <2>1 DEF SaveCall
    <2>2. CASE Use
      BY <2>0, <2>2 DEF Use
    <2>3. CASE UNCHANGED <<ledger, card>>
      BY <2>3
    <2> QED
      BY <2>1, <2>2, <2>3
         DEF OcNext, ocVars, dataVars, Begin, CreateSession, Log, Lookup, Produce,
             Answer, Refuse, GrowQuiet, Stall, Revert, AnswerLate, Beat, BeatLands,
             Check, CheckSlot, FillSlot, SaveRow, Record, Crash, Repair
  <1> QED
    BY <1>1, LedgerRules, PTL DEF OcSpec, LedgerDecides
=============================================================================
