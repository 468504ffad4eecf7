---------------------------- MODULE MCLegacyNodes ----------------------------
EXTENDS LegacyNodes

\* What earlier releases wrote together is there together.  Tags and migration
\* have nothing in common but the objects: a claim has tags and is migrated
\* already, or it has none.
MCInit ==
  /\ Init
  /\ claim.labels = claim.taintFin /\ claim.regFin = claim.taintFin /\ claim.regFin = node.regFin
  /\ \/ claim.tags = TagKeys /\ claim.registered /\ ~claim.regFin /\ ~node.labels /\ node.owner
     \/ claim.tags = {} /\ claim.backend = "" /\ claim.regFin /\ node.labels = claim.registered

\* Claims that are migrated are not tagged, those that are tagged are not touched,
\* and a claim is touched or deleted, not both; a Node that takes the name is of an
\* earlier release and stays.
MCNext ==
  /\ Next
  /\ IF claim.tags = {} THEN UNCHANGED <<mode, written>> ELSE UNCHANGED touches
  /\ touches' > 0 => ~claim'.deleting
  /\ node'.uid # node.uid => node'.regFin
  /\ ~node.own => ~node'.deleting

MCSpec == MCInit /\ [][MCNext]_vars /\ Fairness
=============================================================================
