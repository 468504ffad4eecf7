---------------------- MODULE MCNodeClassTermination ----------------------
EXTENDS NodeClassTermination
CONSTANTS t1, t2

\* The integration is turned off, or left to one target and no deregistration.
MCIntegrations ==
    {[exists |-> TRUE, enabled |-> FALSE, autoDeregister |-> TRUE, targets |-> Targets],
     [exists |-> TRUE, enabled |-> TRUE, autoDeregister |-> FALSE, targets |-> {t1}]}
=============================================================================
