-------------------------- MODULE MCHashMigration --------------------------
EXTENDS HashMigration
CONSTANTS c1, c2, a, b
=============================================================================
