-------------------------- MODULE MCInstanceTypes --------------------------
(* Instances of InstanceTypes for TLC. *)
EXTENDS InstanceTypes

\* One that is small, one the VPC API describes in a way that cannot be converted,
\* and two large ones, one of them also sold as spot: on demand it is the dearer
\* of the two, as spot the cheaper.
MCProfiles == <<"small", "broken", "large", "plain">>
MCProfileSpec ==
    [p \in ToSet(MCProfiles) |->
       CASE p = "small" -> [cpu |-> 2, memory |-> 8, arch |-> "amd64", ok |-> TRUE, classes |-> <<>>]
         [] p = "large" -> [cpu |-> 4, memory |-> 16, arch |-> "amd64", ok |-> TRUE,
                            classes |-> <<"standard", "spot">>]
         [] p = "plain" -> [cpu |-> 4, memory |-> 16, arch |-> "amd64", ok |-> TRUE,
                            classes |-> <<"standard">>]
         [] p = "broken" -> [cpu |-> 2, memory |-> 4, arch |-> "s390x", ok |-> FALSE,
                             classes |-> <<"standard">>]]
MCQuote == [p \in ToSet(MCProfiles) |->
              CASE p = "small" -> 20 [] p = "large" -> 15 [] p = "plain" -> 12 [] p = "broken" -> 10]

MCZones == <<"z1", "z2">>

\* No requirements, a fixed profile, minimal sizes, and a cap that only spot
\* meets; a kubelet that says nothing, and one that says some things.
Class(profile, requirements, zone) ==
    [profile |-> profile, requirements |-> requirements, zone |-> zone, kubelet |-> None]
Requirements(cpu, cap) == [arch |-> "amd64", cpu |-> cpu, memory |-> 4, cap |-> cap]
Kubelet == [kubeCPU |-> None, kubeMemory |-> 512, systemCPU |-> 600, systemMemory |-> None, eviction |-> 100]

MCClasses ==
    {[Class(None, None, "z1") EXCEPT !.kubelet = Kubelet], Class("small", None, None),
     Class(None, Requirements(2, None), None), Class(None, Requirements(2, 10), None)}

Claim(capacity, cpu) == [names |-> {"small", "large", "plain"}, capacity |-> capacity, zones |-> {"z1"},
                         requests |-> [cpu |-> cpu, memory |-> 5000]]
MCClaims == {Claim(CapacityTypes, 1400), Claim({"on-demand"}, 1000), Claim({"spot"}, 1000)}

\* One mark may have expired; the profile that is not converted has no quote.
MCInit ==
    /\ Init
    /\ "broken" \notin quoted
    /\ \A o \in Offerings : marks[o] = "expired" => o = [name |-> "large", zone |-> "z1", capacity |-> "spot"]
MCSpec == MCInit /\ [][Next]_vars /\ Fairness
=============================================================================
