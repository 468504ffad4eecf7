--------------------------- MODULE MCNodeBootstrap ---------------------------
EXTENDS NodeBootstrap
CONSTANTS a, b

\* A cluster that answers everything, and one that has no network plugin.
Plain == [override |-> FALSE, kubeadm |-> "host", info |-> TRUE, ca |-> "configmap", cni |-> "calico"]
MCClusters == {Plain, [Plain EXCEPT !.override = TRUE, !.cni = "none"]}

MCInit == Init /\ cluster \in MCClusters /\ ~armed /\ bindings = {}
MCSpec == MCInit /\ [][Next]_vars /\ Fairness
=============================================================================
