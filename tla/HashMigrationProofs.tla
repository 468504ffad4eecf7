------------------------ MODULE HashMigrationProofs ------------------------
(***************************************************************************)
(* The safety of the hash migration, for every set of claims, every set of *)
(* values of the two parts of a specification and every bound.             *)
(***************************************************************************)
EXTENDS HashMigration, TLAPS

\* The proofs need hardly any arithmetic; a leaf that does says so.
USE ZenonT(90)

\* The checkpoint in the NodeClass is the one the reconcile works from.
PhaseOK ==
    /\ nodeClass.version = 2 => nodeClass.migration = NoMigration
    /\ ctl.pc = "checkpoint" => nodeClass.version = 1 /\ nodeClass.migration = NoMigration
    /\ ctl.pc \in {"list", "migrate"} => nodeClass.version = 1 /\ nodeClass.migration = ctl.migration

\* A claim still to be restamped is still eligible, unless it changed, and then the
\* patch conflicts.
TodoOK == ctl.pc = "migrate" => \A c \in ctl.todo : c \in changed \/ migratable(c)

\* A claim the checkpoint covers is restamped, or still covered and to be restamped.
PinnedOK ==
    \A c \in pinned :
        /\ claims[c].exists /\ ~claims[c].drifted
        /\ \/ claims[c].version = 2
           \/ nodeClass.migration.set /\ claims[c].hash = nodeClass.migration.legacy
        /\ ctl.pc = "migrate" => claims[c].version = 2 \/ c \in ctl.todo
        /\ ctl.pc = "finish" => claims[c].version = 2

\* The inductive invariant.
IInv == TypeOK /\ StampedAsMade /\ PhaseOK /\ TodoOK /\ PinnedOK

\* A hash covers what it says: equal hashes have equal parts.
LEMMA HashesCover ==
    ASSUME NEW s \in Specs, NEW t \in Specs
    PROVE  /\ LegacyHash(s) = LegacyHash(t) => s = t
           /\ ProvisioningHash(s) = ProvisioningHash(t) <=> s.prov = t.prov
           /\ LegacyHash(s) # ProvisioningHash(t)
           /\ LegacyHash(s) \in Hashes /\ ProvisioningHash(s) \in Hashes
           /\ Migration(s) \in HashMigrations /\ Migration(s).set /\ Migration(s) # NoMigration
<1>1. LegacyHash(s) = LegacyHash(t) => s = t
  BY SMTT(90) DEF Specs, LegacyHash
<1>2. ProvisioningHash(s) = ProvisioningHash(t) <=> s.prov = t.prov
  BY DEF ProvisioningHash
<1>3. LegacyHash(s) # ProvisioningHash(t)
  <2>1. LegacyHash(s).covers = "all" /\ ProvisioningHash(t).covers = "provisioning"
    BY DEF LegacyHash, ProvisioningHash
  <2> QED BY <2>1
<1>4. LegacyHash(s) \in Hashes /\ ProvisioningHash(s) \in Hashes
  BY DEF Hashes
<1>5. Migration(s).set /\ ~NoMigration.set
  BY DEF Migration, NoMigration
<1>6. Migration(s) \in HashMigrations
  BY DEF HashMigrations
<1> QED BY <1>1, <1>2, <1>3, <1>4, <1>5, <1>6

\* A checkpoint pins the two hashes of one specification.
LEMMA CheckpointsAgree ==
    ASSUME NEW m \in HashMigrations
    PROVE  /\ m.set <=> m # NoMigration
           /\ m # NoMigration => \E s \in Specs : m = Migration(s)
<1>1. CASE m = NoMigration
  BY <1>1 DEF NoMigration
<1>2. CASE m # NoMigration
  <2>1. PICK s \in Specs : m = Migration(s)
    BY <1>2 DEF HashMigrations
  <2> QED BY <1>2, <2>1, HashesCover
<1> QED BY <1>1, <1>2

\* The claims the program starts with and the ones it launches carry their own hash.
LEMMA NewClaims ==
    ASSUME NEW s \in Specs, NEW v \in {1, 2}
    PROVE  /\ Claim(s, v) \in Existing
           /\ Claim(s, v).hash = IF v = 1 THEN LegacyHash(s) ELSE ProvisioningHash(s)
           /\ Claim(s, v).made = s /\ Claim(s, v).version = v /\ Claim(s, v).exists
BY HashesCover DEF Claim, Existing

\* The initial states satisfy the inductive invariant.
LEMMA InitInv == Init => IInv
<1> SUFFICES ASSUME Init PROVE IInv
  OBVIOUS
<1>1. PICK s \in Specs : nodeClass = [spec |-> s, version |-> 1, hash |-> LegacyHash(s), migration |-> NoMigration]
  BY DEF Init
<1>2. nodeClass \in NodeClasses
  BY <1>1, HashesCover DEF NodeClasses, HashMigrations
<1>3. /\ claims \in [Claims -> {NoClaim} \cup Existing]
      /\ \A c \in Claims : claims[c].exists => \E t \in Specs : claims[c] = Claim(t, 1)
  BY SMTT(90), NewClaims DEF Init, NoClaim
<1>4. StampedAsMade
  BY SMTT(90), <1>3, NewClaims DEF StampedAsMade
<1>5. ctl \in Reconciles /\ ctl.pc = "idle"
  BY DEF Init, Reconciles, Idle
<1>6. TypeOK
  BY SMTT(90), <1>2, <1>3, <1>5, BoundsAssumption DEF Init, TypeOK
<1>7. PhaseOK /\ TodoOK /\ PinnedOK
  BY <1>1, <1>5 DEF Init, PhaseOK, TodoOK, PinnedOK
<1> QED BY <1>4, <1>6, <1>7 DEF IInv

\* What a reconcile knows in each of its phases.
LEMMA ReconcileFields ==
    ASSUME ctl \in Reconciles
    PROVE  /\ ctl.pc \in {"checkpoint", "finish", "list", "migrate"} => ctl.spec \in Specs
           /\ ctl.pc \in {"list", "migrate"} => ctl.migration \in HashMigrations \ {NoMigration}
           /\ ctl.pc = "migrate" => ctl.todo \subseteq Claims
           /\ ctl.pc \in {"idle", "checkpoint", "finish", "list", "migrate"}
BY SMTT(90) DEF Reconciles, Idle

\* The reconciles the actions go on with.
LEMMA ReconcilesMade ==
    /\ Idle \in Reconciles /\ Idle.pc = "idle"
    /\ \A s \in Specs : /\ [pc |-> "checkpoint", spec |-> s] \in Reconciles
                        /\ [pc |-> "finish", spec |-> s] \in Reconciles
    /\ \A s \in Specs, m \in HashMigrations \ {NoMigration} :
          [pc |-> "list", spec |-> s, migration |-> m] \in Reconciles
    /\ \A s \in Specs, m \in HashMigrations \ {NoMigration}, T \in SUBSET Claims :
          [pc |-> "migrate", spec |-> s, migration |-> m, todo |-> T] \in Reconciles
BY DEF Reconciles, Idle

\* What a claim that exists carries.
LEMMA ExistingFields ==
    ASSUME TypeOK, NEW c \in Claims, claims[c].exists
    PROVE  /\ claims[c] \in Existing
           /\ claims[c].made \in Specs /\ claims[c].version \in {1, 2}
<1>1. claims[c] # NoClaim
  BY SMTT(90) DEF NoClaim
<1>2. claims[c] \in Existing
  BY <1>1 DEF TypeOK
<1> QED BY <1>2 DEF Existing

\* A step that leaves the NodeClass and the claims alone keeps the hashes.
LEMMA StampedUnchanged ==
    ASSUME StampedAsMade, UNCHANGED claims
    PROVE  StampedAsMade'
BY DEF StampedAsMade

\* The failure of a reconcile keeps the invariant.
LEMMA FailInv ==
    ASSUME IInv, Fail, UNCHANGED <<nodeClass, claims, pinned>>, Frame
    PROVE  IInv'
<1>1. ctl' = Idle /\ ctl'.pc = "idle" /\ ctl' \in Reconciles
  BY ReconcilesMade DEF Fail
<1>2. TypeOK'
  BY <1>1 DEF IInv, TypeOK, Fail, Frame
<1>3. PhaseOK' /\ TodoOK' /\ PinnedOK'
  BY <1>1 DEF IInv, PhaseOK, TodoOK, PinnedOK
<1> QED BY <1>2, <1>3, StampedUnchanged DEF IInv

\* Reading the NodeClass keeps the invariant.
LEMMA ReconcileInv ==
    ASSUME IInv, Reconcile
    PROVE  IInv'
<1> DEFINE s == nodeClass.spec
<1>1. s \in Specs /\ nodeClass.migration \in HashMigrations /\ nodeClass.version \in {1, 2}
  BY DEF IInv, TypeOK, NodeClasses
<1>2. nodeClass.migration.set <=> nodeClass.migration # NoMigration
  BY <1>1, CheckpointsAgree
<1>3. \/ ctl' = Idle
      \/ nodeClass.version = 2 /\ ctl' = [pc |-> "finish", spec |-> s]
      \/ /\ nodeClass.version = 1 /\ nodeClass.migration # NoMigration
         /\ ctl' = [pc |-> "list", spec |-> s, migration |-> nodeClass.migration]
      \/ /\ nodeClass.version = 1 /\ nodeClass.migration = NoMigration
         /\ ctl' = [pc |-> "checkpoint", spec |-> s]
  BY <1>1, <1>2 DEF Reconcile
<1>4. ctl' \in Reconciles
  BY <1>1, <1>3, ReconcilesMade
<1>5. TypeOK'
  BY <1>4 DEF IInv, TypeOK, Reconcile, Frame
<1>6. PhaseOK'
  BY <1>3, ReconcilesMade DEF IInv, PhaseOK, Reconcile
<1>7. TodoOK'
  BY SMTT(90), <1>3, ReconcilesMade DEF TodoOK
<1>8. PinnedOK'
  BY <1>2, <1>3, ReconcilesMade DEF IInv, PhaseOK, PinnedOK, Reconcile
<1> QED BY <1>5, <1>6, <1>7, <1>8, StampedUnchanged DEF IInv, Reconcile

\* Writing the checkpoint keeps the invariant.
LEMMA CheckpointInv ==
    ASSUME IInv, Checkpoint
    PROVE  IInv'
<1>1. CASE "nodeClass" \in changed
  BY <1>1, FailInv DEF Checkpoint
<1>2. CASE "nodeClass" \notin changed
  <2> DEFINE m == Migration(ctl.spec)
  <2>1. ctl.spec \in Specs /\ m \in HashMigrations \ {NoMigration} /\ m.set
    BY ReconcileFields, HashesCover DEF IInv, TypeOK, Checkpoint
  <2>2. /\ nodeClass' = [nodeClass EXCEPT !.migration = m]
        /\ ctl' = [pc |-> "list", spec |-> ctl.spec, migration |-> m]
        /\ pinned' = {c \in Claims : claims[c].exists /\ claims[c].version = 1 /\ ~claims[c].drifted
                                       /\ claims[c].hash = LegacyHash(ctl.spec)}
        /\ UNCHANGED <<claims, changed, queued>> /\ Frame
    BY <1>2 DEF Checkpoint
  <2>3. /\ nodeClass' \in NodeClasses /\ nodeClass'.migration = m
        /\ nodeClass'.version = nodeClass.version
    BY <2>1, <2>2 DEF IInv, TypeOK, NodeClasses
  <2>4. ctl' \in Reconciles /\ ctl'.pc = "list" /\ ctl'.migration = m
    BY <2>1, <2>2, ReconcilesMade
  <2>5. TypeOK'
    BY <2>2, <2>3, <2>4 DEF IInv, TypeOK, Frame
  <2>6. PhaseOK'
    BY SMTT(90), <2>3, <2>4 DEF IInv, PhaseOK, Checkpoint
  <2>7. m.legacy = LegacyHash(ctl.spec)
    BY DEF Migration
  <2>8. TodoOK' /\ PinnedOK'
    BY <2>1, <2>2, <2>3, <2>4, <2>7 DEF TodoOK, PinnedOK
  <2> QED BY <2>2, <2>5, <2>6, <2>8, StampedUnchanged DEF IInv
<1> QED BY <1>1, <1>2

\* Listing the claims keeps the invariant.
LEMMA ListInv ==
    ASSUME IInv, List
    PROVE  IInv'
<1> DEFINE T == {c \in Claims : migratable(c)}
<1>1. /\ ctl.spec \in Specs /\ ctl.migration \in HashMigrations \ {NoMigration}
      /\ nodeClass.version = 1 /\ nodeClass.migration = ctl.migration
  BY ReconcileFields DEF IInv, TypeOK, PhaseOK, List
<1>2. /\ ctl' = [pc |-> "migrate", spec |-> ctl.spec, migration |-> ctl.migration, todo |-> T]
      /\ changed' = changed \ Claims /\ UNCHANGED <<nodeClass, claims, queued, pinned>> /\ Frame
  BY DEF List
<1>3. ctl'.pc = "migrate" /\ ctl'.migration = ctl.migration /\ ctl'.todo = T
  BY <1>2
<1>4. ctl' \in Reconciles
  BY <1>1, <1>2, ReconcilesMade
<1>5. TypeOK'
  BY <1>2, <1>4 DEF IInv, TypeOK, Frame
<1>6. PhaseOK'
  BY SMTT(90), <1>1, <1>2, <1>3 DEF PhaseOK
<1>7. TodoOK'
  BY <1>2, <1>3 DEF TodoOK, migratable
<1>8. ASSUME NEW c \in pinned PROVE claims[c].version = 2 \/ c \in T
  <2>1. c \in Claims /\ claims[c] \in Existing /\ claims[c].version \in {1, 2}
    BY ExistingFields DEF IInv, TypeOK, PinnedOK
  <2> QED BY <1>1, <2>1 DEF IInv, PinnedOK, migratable
<1>9. PinnedOK'
  BY <1>2, <1>3, <1>8 DEF IInv, PinnedOK
<1> QED BY <1>2, <1>5, <1>6, <1>7, <1>9, StampedUnchanged DEF IInv

\* Restamping a claim keeps the invariant: its hash is the legacy hash the checkpoint
\* pins, so the specification it was launched from is the one the checkpoint is of.
LEMMA MigrateInv ==
    ASSUME IInv, NEW c \in Claims, migrateClaim(c)
    PROVE  IInv'
<1>1. CASE c \in changed
  BY <1>1, FailInv DEF migrateClaim
<1>2. CASE c \notin changed
  <2> DEFINE m == ctl.migration
  <2>1. /\ ctl.pc = "migrate" /\ ctl.spec \in Specs /\ m \in HashMigrations \ {NoMigration}
        /\ ctl.todo \subseteq Claims /\ c \in ctl.todo /\ migratable(c)
        /\ nodeClass.version = 1 /\ nodeClass.migration = m
        /\ ctl = [pc |-> "migrate", spec |-> ctl.spec, migration |-> m, todo |-> ctl.todo]
    BY SMTT(90), <1>2, ReconcileFields DEF IInv, TypeOK, PhaseOK, TodoOK, migrateClaim, Reconciles, Idle
  <2>2. /\ claims' = [claims EXCEPT ![c] = Restamped(c)]
        /\ ctl' = [ctl EXCEPT !.todo = @ \ {c}]
        /\ UNCHANGED <<nodeClass, changed, queued, pinned>> /\ Frame
    BY <1>2 DEF migrateClaim
  <2>3. /\ claims[c] \in Existing /\ claims[c].exists /\ claims[c].version = 1
        /\ claims[c].hash = m.legacy /\ ~claims[c].drifted
    BY <2>1, ExistingFields DEF migratable, IInv
  <2>4. PICK s \in Specs : m = Migration(s)
    BY <2>1, CheckpointsAgree
  <2>5. claims[c].made \in Specs /\ claims[c].hash = LegacyHash(claims[c].made)
    BY <2>3 DEF IInv, StampedAsMade, Existing
  <2>6. m.legacy = LegacyHash(s) /\ m.prov = ProvisioningHash(s)
    BY SMTT(90), <2>4 DEF Migration
  <2>7. claims[c].made = s /\ m.prov = ProvisioningHash(claims[c].made)
    <3>1. LegacyHash(claims[c].made) = LegacyHash(s)
      BY <2>3, <2>5, <2>6
    <3>2. claims[c].made = s
      BY <2>5, <3>1, HashesCover
    <3> QED BY <2>6, <3>2
  <2>8. /\ Restamped(c) \in Existing /\ Restamped(c).version = 2 /\ Restamped(c).hash = m.prov
        /\ Restamped(c).made = claims[c].made /\ Restamped(c).drifted = claims[c].drifted
        /\ Restamped(c).exists
    BY <2>3, <2>5, <2>7, HashesCover DEF Restamped, Existing
  <2>9. /\ claims' \in [Claims -> {NoClaim} \cup Existing] /\ claims'[c] = Restamped(c)
        /\ \A d \in Claims \ {c} : claims'[d] = claims[d]
    BY <2>2, <2>8 DEF IInv, TypeOK
  <2>10. /\ ctl'.pc = "migrate" /\ ctl'.migration = m /\ ctl'.todo = ctl.todo \ {c}
         /\ ctl' = [pc |-> "migrate", spec |-> ctl.spec, migration |-> m, todo |-> ctl.todo \ {c}]
    BY <2>1, <2>2
  <2>11. ctl' \in Reconciles
    BY <2>1, <2>10, ReconcilesMade
  <2>12. TypeOK'
    BY <2>2, <2>9, <2>11 DEF IInv, TypeOK, Frame
  <2>13. StampedAsMade'
    BY SMTT(90), <2>7, <2>8, <2>9 DEF IInv, StampedAsMade
  <2>14. PhaseOK'
    BY SMTT(90), <2>1, <2>2, <2>10 DEF PhaseOK
  <2>15. TodoOK'
    BY <2>1, <2>2, <2>9, <2>10 DEF IInv, TodoOK, migratable
  <2>16. PinnedOK'
    <3> SUFFICES ASSUME NEW d \in pinned'
                 PROVE  /\ claims'[d].exists /\ ~claims'[d].drifted
                        /\ \/ claims'[d].version = 2
                           \/ nodeClass'.migration.set /\ claims'[d].hash = nodeClass'.migration.legacy
                        /\ claims'[d].version = 2 \/ d \in ctl'.todo
      BY <2>10 DEF PinnedOK
    <3>1. d \in pinned /\ d \in Claims
      BY <2>2 DEF IInv, TypeOK
    <3>2. CASE d = c
      BY <2>3, <2>8, <2>9, <3>2
    <3>3. CASE d # c
      BY <2>1, <2>2, <2>9, <2>10, <3>1, <3>3 DEF IInv, PinnedOK
    <3> QED BY <3>2, <3>3
  <2> QED BY <2>12, <2>13, <2>14, <2>15, <2>16 DEF IInv
<1> QED BY <1>1, <1>2

\* The end of the restamping keeps the invariant: no claim the checkpoint covers is left.
LEMMA MigratedInv ==
    ASSUME IInv, Migrated
    PROVE  IInv'
<1>1. /\ ctl.spec \in Specs /\ ctl' = [pc |-> "finish", spec |-> ctl.spec]
      /\ ctl.pc = "migrate" /\ ctl.todo = {}
      /\ UNCHANGED <<nodeClass, claims, changed, queued, pinned>> /\ Frame
  BY ReconcileFields DEF IInv, TypeOK, Migrated
<1>2. ctl' \in Reconciles /\ ctl'.pc = "finish"
  BY <1>1, ReconcilesMade
<1>3. TypeOK'
  BY <1>1, <1>2 DEF IInv, TypeOK, Frame
<1>4. PhaseOK' /\ TodoOK' /\ PinnedOK'
  BY <1>1, <1>2 DEF IInv, PhaseOK, TodoOK, PinnedOK
<1> QED BY <1>1, <1>3, <1>4, StampedUnchanged DEF IInv

\* Removing the checkpoint keeps the invariant.
LEMMA FinishInv ==
    ASSUME IInv, Finish
    PROVE  IInv'
<1>1. CASE "nodeClass" \in changed
  BY <1>1, FailInv DEF Finish
<1>2. CASE "nodeClass" \notin changed
  <2>1. /\ ctl.pc = "finish" /\ ctl.spec \in Specs /\ ctl' = Idle /\ changed' = {}
        /\ nodeClass' = [nodeClass EXCEPT !.migration = NoMigration, !.version = 2,
                                          !.hash = ProvisioningHash(ctl.spec)]
        /\ UNCHANGED <<claims, queued, pinned>> /\ Frame
    BY <1>2, ReconcileFields DEF IInv, TypeOK, Finish
  <2>2. ctl' \in Reconciles /\ ctl'.pc = "idle"
    BY <2>1, ReconcilesMade
  <2>3. ProvisioningHash(ctl.spec) \in Hashes /\ NoMigration \in HashMigrations
    BY <2>1, HashesCover DEF HashMigrations
  <2>4. nodeClass' \in NodeClasses /\ nodeClass'.migration = NoMigration
    BY <2>1, <2>3 DEF IInv, TypeOK, NodeClasses
  <2>5. TypeOK'
    BY <2>1, <2>2, <2>4 DEF IInv, TypeOK, Frame
  <2>6. PhaseOK' /\ TodoOK' /\ PinnedOK'
    BY <2>1, <2>2, <2>4 DEF IInv, PhaseOK, TodoOK, PinnedOK
  <2> QED BY <2>1, <2>5, <2>6, StampedUnchanged DEF IInv
<1> QED BY <1>1, <1>2

\* An edit of the specification keeps the invariant.
LEMMA EditInv ==
    ASSUME IInv, EditSpec
    PROVE  IInv'
<1>1. PICK s \in Specs : nodeClass' = [nodeClass EXCEPT !.spec = s]
  BY DEF EditSpec
<1>2. /\ nodeClass' \in NodeClasses /\ nodeClass'.version = nodeClass.version
      /\ nodeClass'.migration = nodeClass.migration
  BY <1>1 DEF IInv, TypeOK, NodeClasses
<1>3. /\ changed' = changed \cup {"nodeClass"} /\ queued' = TRUE /\ edits' = edits + 1
      /\ edits < MaxEdits /\ UNCHANGED <<claims, ctl, pinned, writes, restarts>>
  BY DEF EditSpec
<1>4. TypeOK'
  BY SMTT(90), <1>2, <1>3, BoundsAssumption DEF IInv, TypeOK
<1>5. PhaseOK' /\ PinnedOK'
  BY <1>2, <1>3 DEF IInv, PhaseOK, PinnedOK
<1>6. TodoOK'
  BY <1>3 DEF IInv, TodoOK, migratable
<1> QED BY <1>3, <1>4, <1>5, <1>6, StampedUnchanged DEF IInv

\* A launch keeps the invariant.
LEMMA LaunchInv ==
    ASSUME IInv, NEW c \in Claims, Launch(c)
    PROVE  IInv'
<1> DEFINE new == Claim(nodeClass.spec, 2)
<1>1. /\ ~claims[c].exists /\ claims' = [claims EXCEPT ![c] = new] /\ changed' = changed \cup {c}
      /\ UNCHANGED <<nodeClass, ctl, queued, pinned>> /\ Frame
  BY DEF Launch
<1>2. nodeClass.spec \in Specs
  BY DEF IInv, TypeOK, NodeClasses
<1>3. /\ new \in Existing /\ new.hash = ProvisioningHash(new.made) /\ new.version = 2
  BY SMTT(90), <1>2, NewClaims
<1>4. /\ claims' \in [Claims -> {NoClaim} \cup Existing] /\ claims'[c] = new
      /\ \A d \in Claims \ {c} : claims'[d] = claims[d]
  BY <1>1, <1>3 DEF IInv, TypeOK
<1>5. TypeOK'
  BY <1>1, <1>4 DEF IInv, TypeOK, Frame
<1>6. StampedAsMade'
  BY SMTT(90), <1>3, <1>4 DEF IInv, StampedAsMade
<1>7. PhaseOK'
  BY <1>1 DEF IInv, PhaseOK
<1>8. ctl.pc = "migrate" => ctl.todo \subseteq Claims
  BY ReconcileFields DEF IInv, TypeOK
<1>9. TodoOK'
  BY <1>1, <1>4, <1>8 DEF IInv, TodoOK, migratable
<1>10. c \notin pinned /\ pinned \subseteq Claims
  BY <1>1 DEF IInv, TypeOK, PinnedOK
<1>11. PinnedOK'
  BY <1>1, <1>4, <1>10 DEF IInv, PinnedOK
<1> QED BY <1>5, <1>6, <1>7, <1>9, <1>11 DEF IInv

\* Core's mark on a claim keeps the invariant: the claim is no longer one the checkpoint
\* must protect, and its patch conflicts.
LEMMA MarkInv ==
    ASSUME IInv, NEW c \in Claims, MarkDrifted(c)
    PROVE  IInv'
<1> DEFINE new == [claims[c] EXCEPT !.drifted = ~@]
<1>1. /\ claims[c].exists /\ claims' = [claims EXCEPT ![c] = new] /\ changed' = changed \cup {c}
      /\ pinned' = pinned \ {c} /\ writes' = writes + 1 /\ writes < MaxWrites
      /\ UNCHANGED <<nodeClass, ctl, queued, edits, restarts>>
  BY DEF MarkDrifted
<1>2. claims[c] \in Existing
  BY <1>1, ExistingFields DEF IInv
<1>3. /\ new \in Existing /\ new.hash = claims[c].hash /\ new.made = claims[c].made
      /\ new.version = claims[c].version
  BY <1>2 DEF Existing
<1>4. /\ claims' \in [Claims -> {NoClaim} \cup Existing] /\ claims'[c] = new
      /\ \A d \in Claims \ {c} : claims'[d] = claims[d]
  BY <1>1, <1>3 DEF IInv, TypeOK
<1>5. TypeOK'
  BY SMTT(90), <1>1, <1>4, BoundsAssumption DEF IInv, TypeOK
<1>6. StampedAsMade'
  BY <1>1, <1>3, <1>4 DEF IInv, StampedAsMade
<1>7. PhaseOK'
  BY <1>1 DEF IInv, PhaseOK
<1>8. ctl.pc = "migrate" => ctl.todo \subseteq Claims
  BY ReconcileFields DEF IInv, TypeOK
<1>9. TodoOK'
  BY <1>1, <1>4, <1>8 DEF IInv, TodoOK, migratable
<1>10. pinned \subseteq Claims
  BY DEF IInv, TypeOK
<1>11. PinnedOK'
  BY <1>1, <1>4, <1>10 DEF IInv, PinnedOK
<1> QED BY <1>5, <1>6, <1>7, <1>9, <1>11 DEF IInv

\* Another write of a claim keeps the invariant.
LEMMA WriteInv ==
    ASSUME IInv, NEW c \in Claims, WriteClaim(c)
    PROVE  IInv'
<1>1. /\ changed' = changed \cup {c} /\ writes' = writes + 1 /\ writes < MaxWrites
      /\ UNCHANGED <<nodeClass, claims, ctl, queued, pinned, edits, restarts>>
  BY DEF WriteClaim
<1>2. TypeOK'
  BY SMTT(90), <1>1, BoundsAssumption DEF IInv, TypeOK
<1>3. PhaseOK' /\ PinnedOK'
  BY <1>1 DEF IInv, PhaseOK, PinnedOK
<1>4. TodoOK'
  BY <1>1 DEF IInv, TodoOK, migratable
<1> QED BY <1>1, <1>2, <1>3, <1>4, StampedUnchanged DEF IInv

\* A restart keeps the invariant.
LEMMA RestartInv ==
    ASSUME IInv, Restart
    PROVE  IInv'
<1>1. /\ ctl' = Idle /\ ctl' \in Reconciles /\ ctl'.pc = "idle" /\ changed' = {} /\ queued' = TRUE
      /\ restarts' = restarts + 1 /\ restarts < MaxRestarts
      /\ UNCHANGED <<nodeClass, claims, pinned, edits, writes>>
  BY ReconcilesMade DEF Restart
<1>2. TypeOK'
  BY SMTT(90), <1>1, BoundsAssumption DEF IInv, TypeOK
<1>3. PhaseOK' /\ TodoOK' /\ PinnedOK'
  BY <1>1 DEF IInv, PhaseOK, TodoOK, PinnedOK
<1> QED BY <1>1, <1>2, <1>3, StampedUnchanged DEF IInv

\* A stuttering step keeps the invariant.
LEMMA StutterInv ==
    ASSUME IInv, UNCHANGED vars
    PROVE  IInv'
<1>1. TypeOK'
  BY DEF IInv, TypeOK, vars
<1>2. PhaseOK' /\ PinnedOK'
  BY DEF IInv, PhaseOK, PinnedOK, vars
<1>3. TodoOK'
  BY DEF IInv, TodoOK, migratable, vars
<1> QED BY <1>1, <1>2, <1>3, StampedUnchanged DEF IInv, vars

\* Every step of the migration, of users and of core keeps the inductive invariant.
THEOREM MigrationInductive == Spec => []IInv
<1>1. IInv /\ [Next]_vars => IInv'
  <2> SUFFICES ASSUME IInv, [Next]_vars PROVE IInv'
    OBVIOUS
  <2>1. CASE ControllerNext
    BY <2>1, ReconcileInv, CheckpointInv, ListInv, MigrateInv, MigratedInv, FinishInv
       DEF ControllerNext
  <2>2. CASE EditSpec \/ Restart \/ UNCHANGED vars
    BY <2>2, EditInv, RestartInv, StutterInv
  <2>3. CASE \E c \in Claims : Launch(c) \/ MarkDrifted(c) \/ WriteClaim(c)
    BY <2>3, LaunchInv, MarkInv, WriteInv
  <2> QED BY <2>1, <2>2, <2>3 DEF Next
<1> QED BY <1>1, InitInv, PTL DEF Spec

\* migrateClaims never stamps a claim with the hash of a specification it was not
\* launched from, whatever is edited and whenever the controller restarts.
THEOREM StampsAreOwn == Spec => []StampedAsMade
<1>1. IInv => StampedAsMade
  BY DEF IInv
<1> QED BY <1>1, MigrationInductive, PTL

\* What isNodeClassHashDrifted says of a claim, given the hash it carries.
LEMMA DriftOf ==
    ASSUME IInv, NEW c \in Claims, claims[c].exists
    PROVE  /\ claims[c].made.prov # nodeClass.spec.prov => isNodeClassHashDrifted(c)
           /\ claims[c].made = nodeClass.spec => ~isNodeClassHashDrifted(c)
           /\ c \in pinned /\ claims[c].made.prov = nodeClass.spec.prov => ~isNodeClassHashDrifted(c)
<1> DEFINE made == claims[c].made
           spec == nodeClass.spec
           m == nodeClass.migration
<1>1. made \in Specs /\ spec \in Specs /\ m \in HashMigrations /\ claims[c].version \in {1, 2}
  BY ExistingFields DEF IInv, TypeOK, NodeClasses
<1>2. CASE claims[c].version = 2
  <2>1. claims[c].hash = ProvisioningHash(made)
    BY SMTT(90), <1>2 DEF IInv, StampedAsMade
  <2>2. isNodeClassHashDrifted(c) <=> ProvisioningHash(made) # ProvisioningHash(spec)
    BY <1>2, <2>1 DEF isNodeClassHashDrifted
  <2>3. isNodeClassHashDrifted(c) <=> made.prov # spec.prov
    BY <1>1, <2>2, HashesCover
  <2> QED BY <2>3
<1>3. CASE claims[c].version = 1 /\ m.set /\ claims[c].hash = m.legacy
  <2>1. PICK s \in Specs : m = Migration(s)
    BY <1>1, <1>3, CheckpointsAgree
  <2>2. m.legacy = LegacyHash(s) /\ m.prov = ProvisioningHash(s)
    BY SMTT(90), <2>1 DEF Migration
  <2>3. LegacyHash(made) = LegacyHash(s)
    BY <1>3, <2>2 DEF IInv, StampedAsMade
  <2>4. made = s
    BY <1>1, <2>3, HashesCover
  <2>5. isNodeClassHashDrifted(c) <=> ProvisioningHash(spec) # ProvisioningHash(made)
    BY SMTT(90), <1>3, <2>2, <2>4 DEF isNodeClassHashDrifted
  <2>6. isNodeClassHashDrifted(c) <=> made.prov # spec.prov
    BY <1>1, <2>5, HashesCover
  <2> QED BY <2>6
<1>4. CASE claims[c].version = 1 /\ ~(m.set /\ claims[c].hash = m.legacy)
  <2>1. claims[c].hash = LegacyHash(made)
    BY <1>4 DEF IInv, StampedAsMade
  <2>2. isNodeClassHashDrifted(c) <=> LegacyHash(made) # LegacyHash(spec)
    BY SMTT(90), <1>4, <2>1 DEF isNodeClassHashDrifted
  <2>3. LegacyHash(made) = LegacyHash(spec) => made = spec
    BY <1>1, HashesCover
  <2>4. c \notin pinned
    BY SMTT(90), <1>4 DEF IInv, PinnedOK
  <2> QED BY <2>2, <2>3, <2>4
<1> QED BY <1>1, <1>2, <1>3, <1>4

\* A change of what provisioning depends on is never missed, not even in the middle of
\* the migration.
THEOREM DriftIsFound == Spec => []NoMissedDrift
<1>1. IInv => NoMissedDrift
  BY DriftOf DEF NoMissedDrift
<1> QED BY <1>1, MigrationInductive, PTL

\* The version bump drifts no claim of the current specification.
THEOREM BumpIsHarmless == Spec => []BumpDoesNotDrift
<1>1. IInv => BumpDoesNotDrift
  BY DriftOf DEF BumpDoesNotDrift
<1> QED BY <1>1, MigrationInductive, PTL

\* A claim the checkpoint covers drifts only with what provisioning depends on.
THEOREM PinnedAreExact == Spec => []PinnedStayExact
<1>1. ASSUME IInv PROVE \A c \in pinned : c \in Claims /\ claims[c].exists
  BY <1>1 DEF IInv, TypeOK, PinnedOK
<1>2. IInv => PinnedStayExact
  BY <1>1, DriftOf DEF PinnedStayExact
<1> QED BY <1>2, MigrationInductive, PTL

=============================================================================
