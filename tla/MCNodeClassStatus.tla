------------------------- MODULE MCNodeClassStatus -------------------------
EXTENDS NodeClassStatus, TLC

\* Three zones in one VPC, two subnets of a zone in both; of no two is the same
\* share of addresses free.
MCSubnets == {"a1", "a2", "a3", "a4", "b1", "b2"}
MCVPCOf == [s \in MCSubnets |-> IF s \in {"b1", "b2"} THEN "B" ELSE "A"]
MCZoneOf == [s \in MCSubnets |-> CASE s = "a3" -> "z2" [] s = "a4" -> "z3" [] OTHER -> "z1"]
MCTotalIPs == [a1 |-> 16, a2 |-> 32, a3 |-> 32, a4 |-> 32, b1 |-> 16, b2 |-> 32]
MCRegionOf == [z \in {"z1", "z2", "z3"} |-> "south"]

\* An older Node is where autoplacement would not put one.
MCOlderNodes == [s \in MCSubnets |-> IF s = "a2" THEN 1 ELSE 0]

MCGroupVPC == [ga |-> "A", da |-> "A", db |-> "B"]
MCDefaultGroup == [A |-> "da", B |-> "db"]

MCAtoi == "0" :> 0 @@ "1" :> 1 @@ "04" :> 4 @@ "5" :> 5 @@ "9" :> 9 @@ "10" :> 10 @@ "22" :> 22
MCLetters == {"ibm", "ubuntu", "minimal", "golden"}
MCRegions == {"r006"}

ID(k) == <<"r006", k, "x", "x", "x", "x">>
Image(k, name, visibility, created) ==
  [id |-> ID(k), name |-> name, visibility |-> visibility, created |-> created, status |-> "available"]

\* Names of all formats: a patch counts more than a build and than a date, and
\* a minor version more than either.
Golden   == Image("g", <<"golden", "5">>, "private", 1)
Built    == Image("u1", <<"ibm", "ubuntu", "22", "04", "minimal", "amd64", "9">>, "public", 3)
Patched  == Image("u2", <<"ibm", "ubuntu", "22", "04", "5", "minimal", "amd64", "1">>, "public", 2)
Mainframe == Image("u3", <<"ibm", "ubuntu", "22", "04", "9", "minimal", "s390x", "1">>, "public", 4)
Later    == Image("u4", <<"ibm", "ubuntu", "22", "10", "amd64", "1">>, "public", 1)
Own      == Image("u5", <<"ubuntu", "22", "10">>, "private", 5)
AllImages == {Golden, Built, Patched, Mainframe, Later, Own}

Jammy == [os |-> "ubuntu", major |-> "22", minor |-> "04", arch |-> "", variant |-> "minimal"]
Newest == [Jammy EXCEPT !.minor = "", !.variant = ""]
MCMeant ==
  <<ID("g"), None>> :> <<ID("g")>>
    @@ <<<<"golden", "*">>, None>> :> <<ID("g")>>
    @@ <<<<>>, Jammy>> :> <<ID("u2"), ID("u1")>>
    @@ <<<<>>, Newest>> :> <<ID("u4"), ID("u2"), ID("u1"), ID("u5")>>

Base == [region |-> "south", vpc |-> "A", zone |-> None, subnet |-> None, strategy |-> None,
         image |-> <<>>, selector |-> Jammy, groups |-> {}, keys |-> {}, profile |-> None,
         requirements |-> None, formed |-> TRUE]
Strategy(balance) == [balance |-> balance, minimum |-> 0, tags |-> {}]

\* Specifications with an explicit subnet, and with each strategy: alone, with a
\* zone, and in another VPC.
MCSpecs ==
  {[Base EXCEPT !.subnet = "a1", !.zone = "z1", !.image = ID("g"), !.selector = None, !.keys = {"key"},
                !.groups = {"ga"}, !.profile = "p1"],
   [Base EXCEPT !.subnet = "a2", !.formed = FALSE],
   [Base EXCEPT !.strategy = Strategy("CostOptimized"), !.selector = Newest],
   [Base EXCEPT !.zone = "z1", !.strategy = Strategy("Balanced")],
   [Base EXCEPT !.vpc = "B", !.strategy = Strategy("AvailabilityFirst"), !.image = <<"golden", "*">>,
                !.selector = None, !.requirements = "types"]}

Healthy ==
  [up |-> {"south", "A", "B", "ga", "da", "db", "key", "types"}, images |-> AllImages,
   state |-> [s \in MCSubnets |-> "available"], ips |-> [a1 |-> 11, a2 |-> 12, a3 |-> 20, a4 |-> 10, b1 |-> 11, b2 |-> 12]]
MCCloudStates ==
  {Healthy,
   [Healthy EXCEPT !.up = @ \ {"key", "ga", "db", "types"}, !.state["a1"] = "failed", !.ips["a2"] = 11,
                   !.images = {Golden, Mainframe, [Built EXCEPT !.status = "obsolete"],
                               [Own EXCEPT !.status = "deprecated"]}]}

\* The class begins well formed, and with a zone only for its subnet; the user may
\* edit it into any other.
MCInit ==
  /\ Init
  /\ cloud = Healthy
  /\ nc.spec.formed
  /\ nc.spec.zone # None => nc.spec.subnet # None
MCSpec == MCInit /\ [][Next]_vars /\ Fairness
=============================================================================
