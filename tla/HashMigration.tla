---------------------------- MODULE HashMigration ----------------------------
(***************************************************************************)
(* The hash of a NodeClass, drift by hash, and the migration of claims     *)
(* from version 1 of the hash, which covers the whole specification, to    *)
(* version 2, which covers what provisioning depends on.                   *)
(*                                                                         *)
(* The controller reads the NodeClass and the claims from the API server   *)
(* and patches them with an optimistic lock.  Meanwhile the specification  *)
(* is edited, claims are launched and marked as drifted, and the           *)
(* controller is restarted.  A hash is modelled by what it covers: hashes  *)
(* are equal if and only if the covered parts are (no collisions).         *)
(***************************************************************************)
EXTENDS Naturals

CONSTANTS
    Claims,      \* the NodeClaims of the NodeClass (whose own name is not one of theirs)
    Parts,       \* the values of each part of a specification
    MaxEdits,    \* how often the specification is edited
    MaxWrites,   \* how often core writes a claim
    MaxRestarts  \* how often the controller is restarted

ASSUME ClaimsAssumption == "nodeClass" \notin Claims

ASSUME BoundsAssumption == MaxEdits \in Nat /\ MaxWrites \in Nat /\ MaxRestarts \in Nat

VARIABLES
    nodeClass,  \* the NodeClass: its specification and annotations
    claims,     \* the NodeClaims
    ctl,        \* the reconcile in progress
    changed,    \* the objects that changed since the reconcile read them
    queued,     \* the NodeClass is in the controller's work queue
    pinned,     \* history: the claims the checkpoint is about
    edits, writes, restarts

vars == <<nodeClass, claims, ctl, changed, queued, pinned, edits, writes, restarts>>

\* prov stands for the fields of provisioningSpec, other for the rest.
Specs == [prov : Parts, other : Parts]

ProvisioningHash(spec) == [covers |-> "provisioning", prov |-> spec.prov]

LegacyHash(spec) == [covers |-> "all", prov |-> spec.prov, other |-> spec.other]

Hashes == {ProvisioningHash(s) : s \in Specs} \cup {LegacyHash(s) : s \in Specs}

NoMigration == [set |-> FALSE]

Migration(spec) == [set |-> TRUE, legacy |-> LegacyHash(spec), prov |-> ProvisioningHash(spec)]

\* What ReadHashMigration can return.
HashMigrations == {NoMigration} \cup {Migration(s) : s \in Specs}

NodeClasses == [spec : Specs, version : {1, 2}, hash : Hashes, migration : HashMigrations]

\* made is the specification a claim was launched from.
NoClaim == [exists |-> FALSE]

Claim(spec, version) ==
    [exists |-> TRUE, made |-> spec, version |-> version, drifted |-> FALSE,
     hash |-> IF version = 1 THEN LegacyHash(spec) ELSE ProvisioningHash(spec)]

Existing == [exists : {TRUE}, made : Specs, version : {1, 2}, drifted : BOOLEAN, hash : Hashes]

Idle == [pc |-> "idle"]

\* A reconcile: where it is, the specification it read, the checkpoint, the claims to restamp.
Reconciles ==
    {Idle} \cup [pc : {"checkpoint", "finish"}, spec : Specs]
        \cup [pc : {"list"}, spec : Specs, migration : HashMigrations \ {NoMigration}]
        \cup [pc : {"migrate"}, spec : Specs, migration : HashMigrations \ {NoMigration},
              todo : SUBSET Claims]

-----------------------------------------------------------------------------
(* Drift *)

\* isNodeClassHashDrifted: a claim of version 1 that the checkpoint covers drifts with the
\* part that provisioning depends on, another one with the whole specification.
isNodeClassHashDrifted(c) ==
    LET current == claims[c].hash
        migration == nodeClass.migration
        expected == ProvisioningHash(nodeClass.spec)
    IN IF claims[c].version = 2 THEN current # expected
       ELSE IF migration.set /\ current = migration.legacy THEN expected # migration.prov
       ELSE current # LegacyHash(nodeClass.spec)

-----------------------------------------------------------------------------
(* The controller *)

Frame == UNCHANGED <<edits, writes, restarts>>

\* The reconcile fails and is queued again.
Fail == ctl' = Idle /\ changed' = {} /\ queued' = TRUE

\* The NodeClass is read.  Nothing is left to do if the annotations are up to date.
Reconcile ==
    /\ ctl.pc = "idle" /\ queued
    /\ queued' = FALSE /\ changed' = {}
    /\ ctl' = IF nodeClass.version = 2 THEN
                  IF nodeClass.hash = ProvisioningHash(nodeClass.spec) /\ ~nodeClass.migration.set
                  THEN Idle
                  ELSE [pc |-> "finish", spec |-> nodeClass.spec]
              ELSE IF nodeClass.migration.set
                  THEN [pc |-> "list", spec |-> nodeClass.spec, migration |-> nodeClass.migration]
              ELSE [pc |-> "checkpoint", spec |-> nodeClass.spec]
    /\ UNCHANGED <<nodeClass, claims, pinned>> /\ Frame

Checkpoint ==
    /\ ctl.pc = "checkpoint"
    /\ \/ /\ "nodeClass" \notin changed
          /\ nodeClass' = [nodeClass EXCEPT !.migration = Migration(ctl.spec)]
          /\ ctl' = [pc |-> "list", spec |-> ctl.spec, migration |-> Migration(ctl.spec)]
          /\ pinned' = {c \in Claims : claims[c].exists /\ claims[c].version = 1 /\ ~claims[c].drifted
                                         /\ claims[c].hash = LegacyHash(ctl.spec)}
          /\ UNCHANGED <<changed, queued>>
       \/ "nodeClass" \in changed /\ Fail /\ UNCHANGED <<nodeClass, pinned>>
    /\ UNCHANGED claims /\ Frame

\* Mutant: every claim of version 1 is migrated.
migratableAny(c) == claims[c].exists /\ claims[c].version = 1 /\ ~claims[c].drifted

\* The claims the migration is about.
migratable(c) ==
    /\ claims[c].exists /\ claims[c].version = 1
    /\ claims[c].hash = ctl.migration.legacy
    /\ ~claims[c].drifted

\* The claims are listed: the claims to restamp.
List ==
    /\ ctl.pc = "list"
    /\ ctl' = [pc |-> "migrate", spec |-> ctl.spec, migration |-> ctl.migration,
               todo |-> {c \in Claims : migratable(c)}]
    /\ changed' = changed \ Claims
    /\ UNCHANGED <<nodeClass, claims, queued, pinned>> /\ Frame

Restamped(c) == [claims[c] EXCEPT !.hash = ctl.migration.prov, !.version = 2]

\* Mutant: a claim that changed since it was listed is passed over.
migrateOrSkip(c) ==
    /\ ctl.pc = "migrate" /\ c \in ctl.todo
    /\ claims' = IF c \in changed THEN claims ELSE [claims EXCEPT ![c] = Restamped(c)]
    /\ ctl' = [ctl EXCEPT !.todo = @ \ {c}]
    /\ UNCHANGED <<nodeClass, changed, queued, pinned>> /\ Frame

\* Mutant: the error is not returned.
migrateOrForget(c) ==
    /\ ctl.pc = "migrate" /\ c \in ctl.todo
    /\ \/ /\ c \notin changed
          /\ claims' = [claims EXCEPT ![c] = Restamped(c)]
          /\ ctl' = [ctl EXCEPT !.todo = @ \ {c}]
          /\ UNCHANGED <<changed, queued>>
       \/ c \in changed /\ ctl' = Idle /\ changed' = {} /\ UNCHANGED <<claims, queued>>
    /\ UNCHANGED <<nodeClass, pinned>> /\ Frame

\* One claim is restamped; a conflict fails the reconcile.
migrateClaim(c) ==
    /\ ctl.pc = "migrate" /\ c \in ctl.todo
    /\ \/ /\ c \notin changed
          /\ claims' = [claims EXCEPT ![c] = Restamped(c)]
          /\ ctl' = [ctl EXCEPT !.todo = @ \ {c}]
          /\ UNCHANGED <<changed, queued>>
       \/ c \in changed /\ Fail /\ UNCHANGED claims
    /\ UNCHANGED <<nodeClass, pinned>> /\ Frame

Migrated ==
    /\ ctl.pc = "migrate" /\ ctl.todo = {}
    /\ ctl' = [pc |-> "finish", spec |-> ctl.spec]
    /\ UNCHANGED <<nodeClass, claims, changed, queued, pinned>> /\ Frame

\* The checkpoint is removed and the hash of the specification that was read is set.
Finish ==
    /\ ctl.pc = "finish"
    /\ \/ /\ "nodeClass" \notin changed
          /\ nodeClass' = [nodeClass EXCEPT !.migration = NoMigration, !.version = 2,
                                            !.hash = ProvisioningHash(ctl.spec)]
          /\ ctl' = Idle /\ changed' = {} /\ UNCHANGED queued
       \/ "nodeClass" \in changed /\ Fail /\ UNCHANGED nodeClass
    /\ UNCHANGED <<claims, pinned>> /\ Frame

ControllerNext ==
    Reconcile \/ Checkpoint \/ List \/ (\E c \in Claims : migrateClaim(c)) \/ Migrated \/ Finish

-----------------------------------------------------------------------------
(* Users, Karpenter core and restarts *)

\* The generation changes, so the event passes the controller's filter.
EditSpec ==
    /\ edits < MaxEdits
    /\ \E s \in Specs \ {nodeClass.spec} : nodeClass' = [nodeClass EXCEPT !.spec = s]
    /\ edits' = edits + 1 /\ changed' = changed \cup {"nodeClass"} /\ queued' = TRUE
    /\ UNCHANGED <<claims, ctl, pinned, writes, restarts>>

\* Create stamps the claim with the hash of the NodeClass it launches from.
Launch(c) ==
    /\ ~claims[c].exists
    /\ claims' = [claims EXCEPT ![c] = Claim(nodeClass.spec, 2)]
    /\ changed' = changed \cup {c}
    /\ UNCHANGED <<nodeClass, ctl, queued, pinned>> /\ Frame

\* Core sets the condition Drifted, for the hash or for another reason, and clears it.
MarkDrifted(c) ==
    /\ claims[c].exists /\ writes < MaxWrites /\ writes' = writes + 1
    /\ claims[c].drifted => ~isNodeClassHashDrifted(c)
    /\ claims' = [claims EXCEPT ![c].drifted = ~@]
    /\ pinned' = pinned \ {c}
    /\ changed' = changed \cup {c}
    /\ UNCHANGED <<nodeClass, ctl, queued, edits, restarts>>

\* Core writes something else of the claim.
WriteClaim(c) ==
    /\ claims[c].exists /\ c \notin changed /\ writes < MaxWrites /\ writes' = writes + 1
    /\ changed' = changed \cup {c}
    /\ UNCHANGED <<nodeClass, claims, ctl, queued, pinned, edits, restarts>>

\* The controller is restarted: the informer delivers every NodeClass again.
Restart ==
    /\ restarts < MaxRestarts /\ restarts' = restarts + 1
    /\ ctl' = Idle /\ changed' = {} /\ queued' = TRUE
    /\ UNCHANGED <<nodeClass, claims, pinned, edits, writes>>

-----------------------------------------------------------------------------
(* The specification *)

\* The provider was upgraded: the NodeClass and its claims carry hashes of version 1,
\* and a claim may have been launched from an earlier specification.
Init ==
    /\ \E s \in Specs :
          nodeClass = [spec |-> s, version |-> 1, hash |-> LegacyHash(s), migration |-> NoMigration]
    /\ claims \in [Claims -> {NoClaim} \cup {Claim(s, 1) : s \in Specs}]
    /\ ctl = Idle /\ changed = {} /\ queued = TRUE /\ pinned = {} /\ edits = 0 /\ writes = 0 /\ restarts = 0

Next ==
    \/ ControllerNext \/ EditSpec \/ Restart
    \/ \E c \in Claims : Launch(c) \/ MarkDrifted(c) \/ WriteClaim(c)

Spec == Init /\ [][Next]_vars

\* A queued NodeClass is reconciled, and a reconcile goes on once begun.
FairSpec == Spec /\ WF_vars(ControllerNext)

-----------------------------------------------------------------------------
(* Properties *)

\* The type invariant.
TypeOK ==
    /\ nodeClass \in NodeClasses
    /\ claims \in [Claims -> {NoClaim} \cup Existing]
    /\ ctl \in Reconciles
    /\ changed \subseteq Claims \cup {"nodeClass"} /\ pinned \subseteq Claims
    /\ queued \in BOOLEAN /\ edits \in 0..MaxEdits /\ writes \in 0..MaxWrites /\ restarts \in 0..MaxRestarts

\* Whatever is edited and whenever the controller restarts, the hash a claim carries is
\* the hash of the specification it was launched from: migrateClaims never stamps a claim
\* with the hash of a later specification.
StampedAsMade ==
    \A c \in Claims : claims[c].exists =>
        claims[c].hash = IF claims[c].version = 1 THEN LegacyHash(claims[c].made)
                         ELSE ProvisioningHash(claims[c].made)

\* A claim launched from a specification that differs in what provisioning depends on
\* is reported as drifted, also in the middle of the migration.
NoMissedDrift ==
    \A c \in Claims :
        claims[c].exists /\ claims[c].made.prov # nodeClass.spec.prov => isNodeClassHashDrifted(c)

\* A claim launched from the current specification is never reported as drifted: neither
\* the version bump nor any step of the migration drifts it.
BumpDoesNotDrift ==
    \A c \in Claims :
        claims[c].exists /\ claims[c].made = nodeClass.spec => ~isNodeClassHashDrifted(c)

\* From the checkpoint on, a claim it covers drifts only with what provisioning depends
\* on, as under version 2: also if the specification is edited and the controller
\* restarted before the claim is restamped, and after the checkpoint is removed.
PinnedStayExact ==
    \A c \in pinned :
        claims[c].made.prov = nodeClass.spec.prov => ~isNodeClassHashDrifted(c)

\* The migration completes and the annotations follow the specification.
MigrationCompletes ==
    <>[](/\ nodeClass.version = 2 /\ ~nodeClass.migration.set
         /\ nodeClass.hash = ProvisioningHash(nodeClass.spec))

=============================================================================
