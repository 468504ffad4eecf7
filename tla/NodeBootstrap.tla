---------------------------- MODULE NodeBootstrap ----------------------------
(***************************************************************************)
(* How an instance of VPC mode becomes a Node: user data with a bootstrap  *)
(* token that concurrent launches share, the token controller that deletes *)
(* expired tokens and keeps the bindings that let a token's holder join,   *)
(* and core's registration of the Node that appears.                       *)
(*                                                                         *)
(* Time counts in units that are short against the life of a token.  An    *)
(* expiration is stored with a precision of seconds, far below one unit.   *)
(***************************************************************************)
EXTENDS Integers, FiniteSets, Sequences

CONSTANTS
  Launches,      \* Creates in progress, one claim each
  TTL,           \* life of a token that GenerateBootstrapToken makes
  Renew,         \* a token is not handed out this long before it expires
  MaxTime,       \* bound: end of time
  MaxTokens,     \* bound: tokens ever made
  MaxFailures    \* bound: failures of calls

ASSUME LifeAssumption ==
  /\ IsFiniteSet(Launches)
  /\ {TTL, Renew, MaxTime, MaxTokens, MaxFailures} \subseteq Nat /\ Renew < TTL

VARIABLES
  now,
  tokens,    \* stored token secrets: id -> expiration
  made,      \* tokens made so far
  launch,    \* per launch: step, listed tokens, token, since when, user data
  bindings,  \* ClusterRoleBindings that exist
  ctl,       \* token controller: step, tokens listed
  armed,     \* the controller has seen a secret of kube-system
  cluster,   \* what the cluster's configuration says to those who look
  failures

vars == <<now, tokens, made, launch, bindings, ctl, armed, cluster, failures>>

Steps == {"idle", "list", "choose", "create", "gather", "booting", "joined", "registered"}
BindingOrder == <<"nodes", "approve", "renewals", "serving">>
Bindings == {BindingOrder[i] : i \in DOMAIN BindingOrder}

\* Where the API server's address can be found, and in which form.
Clusters ==
  [override : BOOLEAN, kubeadm : {"absent", "hostport", "host"}, info : BOOLEAN,
   ca : {"configmap", "token", "none"}, cni : {"calico", "cilium", "none"}]

UserData ==
  [endpoint : {"", "override", "kubeadm", "info", "client"}, taints : BOOLEAN, unregistered : BOOLEAN]
NoUserData == [endpoint |-> "", taints |-> FALSE, unregistered |-> FALSE]
NotStarted == [pc |-> "idle", listed |-> <<>>, token |-> 0, since |-> 0, data |-> NoUserData]

TypeOK ==
  /\ now \in 0..MaxTime /\ made \in 0..MaxTokens /\ failures \in 0..MaxFailures
  /\ DOMAIN tokens \subseteq 1..made /\ \A t \in DOMAIN tokens : tokens[t] \in 0..(MaxTime + TTL)
  /\ \A l \in Launches :
       /\ launch[l].pc \in Steps /\ launch[l].token \in 0..made /\ launch[l].data \in UserData
       /\ launch[l].pc \in {"gather", "booting"} => launch[l].token # 0
  /\ bindings \subseteq Bindings /\ armed \in BOOLEAN /\ cluster \in Clusters
  /\ made > 0 => armed

-----------------------------------------------------------------------------
Fail == failures < MaxFailures /\ failures' = failures + 1

Set(l, rec) == launch' = [launch EXCEPT ![l] = rec]
GiveUp(l) == Set(l, NotStarted)

Minimum(s) == CHOOSE n \in s : \A k \in s : n <= k

\* Tokens of a listing with more than the time of renewal left.
Usable(ts, time) == {t \in DOMAIN ts : time < ts[t] - Renew}

\* Tokens of a listing that are past their expiration.
Expired(ts, time) == {t \in DOMAIN ts : time > ts[t]}

Without(ts, t) == [u \in DOMAIN ts \ {t} |-> ts[u]]

-----------------------------------------------------------------------------
(* User data of a launch.                                                   *)

\* An address without port is not taken from the kubeadm configuration.
parseKubeadmConfigEndpoint == cluster.kubeadm = "hostport"
parseClusterInfoEndpoint == cluster.info

\* The first source that answers; the client's own address always does.
GetInternalAPIServerEndpoint ==
  IF parseKubeadmConfigEndpoint THEN "kubeadm" ELSE IF parseClusterInfoEndpoint THEN "info" ELSE "client"

\* A launch begins: the version of the cluster and the address of its API
\* server.
FindEndpoint(l) ==
  /\ launch[l].pc = "idle"
  /\ \/ /\ LET e == IF cluster.override THEN "override" ELSE GetInternalAPIServerEndpoint
           IN  Set(l, [NotStarted EXCEPT !.pc = "list", !.data.endpoint = e])
        /\ UNCHANGED failures
     \/ Fail /\ GiveUp(l)
  /\ UNCHANGED <<now, tokens, made, bindings, ctl, armed, cluster>>

ListTokens(l) ==
  /\ launch[l].pc = "list"
  /\ \/ Set(l, [launch[l] EXCEPT !.pc = "choose", !.listed = tokens]) /\ UNCHANGED failures
     \/ Fail /\ GiveUp(l)
  /\ UNCHANGED <<now, tokens, made, bindings, ctl, armed, cluster>>

chooseUnexpired(l) ==
  /\ launch[l].pc = "choose"
  /\ LET valid == DOMAIN launch[l].listed \ Expired(launch[l].listed, now)
     IN  Set(l, IF valid = {}
                THEN [launch[l] EXCEPT !.pc = "create", !.listed = <<>>]
                ELSE [launch[l] EXCEPT !.pc = "gather", !.listed = <<>>,
                                       !.token = Minimum(valid), !.since = now])
  /\ UNCHANGED <<now, tokens, made, bindings, ctl, armed, cluster, failures>>

\* The first token of the listing that is not to be renewed yet, if any.
FindOrCreateBootstrapToken(l) ==
  /\ launch[l].pc = "choose"
  /\ LET valid == Usable(launch[l].listed, now)
     IN  Set(l, IF valid = {}
                THEN [launch[l] EXCEPT !.pc = "create", !.listed = <<>>]
                ELSE [launch[l] EXCEPT !.pc = "gather", !.listed = <<>>,
                                       !.token = Minimum(valid), !.since = now])
  /\ UNCHANGED <<now, tokens, made, bindings, ctl, armed, cluster, failures>>

GenerateBootstrapToken(l) ==
  /\ launch[l].pc = "create"
  /\ \/ /\ made < MaxTokens
        /\ made' = made + 1
        /\ tokens' = [t \in DOMAIN tokens \cup {made + 1} |-> IF t = made + 1 THEN now + TTL ELSE tokens[t]]
        /\ armed' = TRUE
        /\ Set(l, [launch[l] EXCEPT !.pc = "gather", !.token = made + 1, !.since = now])
        /\ UNCHANGED failures
     \/ Fail /\ GiveUp(l) /\ UNCHANGED <<tokens, made, armed>>
  /\ UNCHANGED <<now, bindings, ctl, cluster>>

\* The certificate authority, from one of two places, or none.
getClusterCA == cluster.ca # "none"

\* A plugin that is installed; the release of some is asked of the network.
detectCNIPluginAndVersion == cluster.cni # "none"
getLatestCNIVersion(fails) == cluster.cni = "calico" => ~fails

\* The first of selected type, label of the claim and profile of the class
\* whose architecture can be looked up; only the first is always there.
detectArchitecture(fails, others) == ~fails \/ others

\* Taints of the claim if it can be read, and the unregistered taint always.
Options(data, claimRead) ==
  [data EXCEPT !.taints = claimRead, !.unregistered = TRUE]

\* Everything that is looked up after the token; then the instance is created.
GetUserData(l) ==
  /\ launch[l].pc = "gather"
  /\ \E cniFails, archFails, claimFails, others \in BOOLEAN :
       LET failed == Cardinality({f \in {<<1, cniFails>>, <<2, archFails>>, <<3, claimFails>>} : f[2]})
       IN  /\ failures + failed <= MaxFailures
           /\ failures' = failures + failed
           /\ IF getClusterCA /\ detectCNIPluginAndVersion /\ getLatestCNIVersion(cniFails)
                 /\ detectArchitecture(archFails, others)
              THEN Set(l, [launch[l] EXCEPT !.pc = "booting",
                                            !.data = Options(@, ~claimFails)])
              ELSE GiveUp(l)
  /\ UNCHANGED <<now, tokens, made, bindings, ctl, armed, cluster>>

-----------------------------------------------------------------------------
(* The token controller.                                                    *)

First(n) == {BindingOrder[i] : i \in 1..n}

stopAtExisting ==
  /\ armed /\ ctl.pc = "idle"
  /\ LET n == Minimum({i \in DOMAIN BindingOrder : BindingOrder[i] \in bindings} \cup {Len(BindingOrder)})
     IN  bindings' = bindings \cup First(n)
  /\ ctl' = [ctl EXCEPT !.pc = "list"]
  /\ UNCHANGED <<now, tokens, made, launch, armed, cluster, failures>>

\* A pass begins.  Create one binding after the other; one that exists already
\* is no error, and the first that fails ends the pass.
ensureBootstrapRBAC ==
  /\ armed /\ ctl.pc = "idle"
  /\ \/ /\ bindings' = Bindings
        /\ ctl' = [ctl EXCEPT !.pc = "list"]
        /\ UNCHANGED failures
     \/ /\ Fail
        /\ \E n \in 0..(Len(BindingOrder) - 1) : bindings' = bindings \cup First(n)
        /\ UNCHANGED ctl
  /\ UNCHANGED <<now, tokens, made, launch, armed, cluster>>

ListForCleanup ==
  /\ ctl.pc = "list"
  /\ \/ ctl' = [ctl EXCEPT !.pc = "clean", !.listed = tokens] /\ UNCHANGED failures
     \/ Fail /\ ctl' = [ctl EXCEPT !.pc = "idle"]
  /\ UNCHANGED <<now, tokens, made, launch, bindings, armed, cluster>>

\* One listed token after the other; a deletion that fails is only logged.
cleanupExpiredTokens ==
  /\ ctl.pc = "clean"
  /\ IF DOMAIN ctl.listed = {}
     THEN ctl' = [ctl EXCEPT !.pc = "idle"] /\ UNCHANGED <<tokens, failures>>
     ELSE LET t == Minimum(DOMAIN ctl.listed) IN
          /\ ctl' = [ctl EXCEPT !.listed = Without(@, t)]
          /\ IF t \in Expired(ctl.listed, now)
             THEN \/ tokens' = Without(tokens, t) /\ UNCHANGED failures
                  \/ Fail /\ UNCHANGED tokens
             ELSE UNCHANGED <<tokens, failures>>
  /\ UNCHANGED <<now, made, launch, bindings, armed, cluster>>

-----------------------------------------------------------------------------
(* The instance, Karpenter core, the administrator and time.                *)

Accepted(l) ==
  /\ launch[l].token \in DOMAIN tokens /\ now <= tokens[launch[l].token]
  /\ {"nodes", "approve"} \subseteq bindings /\ launch[l].data.endpoint # ""

Join(l) ==
  /\ launch[l].pc = "booting" /\ Accepted(l)
  /\ Set(l, [launch[l] EXCEPT !.pc = "joined", !.token = 0, !.since = 0])
  /\ UNCHANGED <<now, tokens, made, bindings, ctl, armed, cluster, failures>>

\* Core gives the Node the taints of its claim and takes the unregistered
\* taint away; a Node without that taint is none of its business.
CoreRegisters(l) ==
  /\ launch[l].pc = "joined" /\ launch[l].data.unregistered
  /\ Set(l, [launch[l] EXCEPT !.pc = "registered", !.data.taints = TRUE, !.data.unregistered = FALSE])
  /\ UNCHANGED <<now, tokens, made, bindings, ctl, armed, cluster, failures>>

\* The Node goes and another claim is launched.
Leave(l) ==
  /\ launch[l].pc = "registered"
  /\ GiveUp(l)
  /\ UNCHANGED <<now, tokens, made, bindings, ctl, armed, cluster, failures>>

DropBinding ==
  /\ Fail
  /\ \E b \in bindings : bindings' = bindings \ {b}
  /\ UNCHANGED <<now, tokens, made, launch, ctl, armed, cluster>>

Tick ==
  /\ now < MaxTime /\ now' = now + 1
  /\ UNCHANGED <<tokens, made, launch, bindings, ctl, armed, cluster, failures>>

-----------------------------------------------------------------------------
Init ==
  /\ now = 0 /\ tokens = <<>> /\ made = 0
  /\ launch = [l \in Launches |-> NotStarted]
  /\ bindings \in SUBSET Bindings
  /\ ctl = [pc |-> "idle", listed |-> <<>>]
  /\ armed \in BOOLEAN
  /\ cluster \in Clusters
  /\ failures = 0

Create(l) ==
  \/ ListTokens(l) \/ FindOrCreateBootstrapToken(l)
  \/ GenerateBootstrapToken(l) \/ GetUserData(l)
Controller == ensureBootstrapRBAC \/ ListForCleanup \/ cleanupExpiredTokens

Next ==
  \/ \E l \in Launches : FindEndpoint(l) \/ Create(l) \/ Join(l) \/ CoreRegisters(l) \/ Leave(l)
  \/ Controller \/ DropBinding \/ Tick

Spec == Init /\ [][Next]_vars
Fairness ==
  /\ WF_vars(Controller)
  /\ \A l \in Launches : WF_vars(Create(l)) /\ WF_vars(Join(l)) /\ WF_vars(CoreRegisters(l))
FairSpec == Spec /\ Fairness

-----------------------------------------------------------------------------
\* A token outlives the boot it was handed out for: for as long as the time of
\* renewal after a launch got it, it is stored and not expired, whatever other
\* launches and the cleanup do.
TokenOutlivesBoot ==
  \A l \in Launches :
    launch[l].pc \in {"gather", "booting"} /\ now <= launch[l].since + Renew =>
      launch[l].token \in DOMAIN tokens /\ now <= tokens[launch[l].token]

\* Launches share tokens: there are never more that could be handed out than
\* launches, however often they fail and start again.
TokensAreShared == Cardinality(Usable(tokens, now)) <= Cardinality(Launches)

\* Pods never see a Node without the taints of its claim: until core has put
\* them there, the Node has the unregistered taint, even if the claim could not
\* be read when the user data was made.
TaintedUntilRegistered ==
  \A l \in Launches :
    launch[l].pc \in {"joined", "registered"} => launch[l].data.unregistered \/ launch[l].data.taints

\* An instance joins, with any set of bindings to begin with, unless it takes
\* longer than the time of renewal.
InstancesJoin ==
  \A l \in Launches :
    launch[l].pc = "booting" ~> launch[l].pc = "joined" \/ now > launch[l].since + Renew

\* Expired tokens are deleted: again and again there are none.
ExpiredTokensGo == []<>(Expired(tokens, now) = {})

\* What a booting instance was given serves it: its token outlives the boot,
\* tokens are shared, and its Node is tainted until core has registered it.
BootIsSafe == TypeOK /\ TokenOutlivesBoot /\ TokensAreShared /\ TaintedUntilRegistered

\* Instances join, and expired tokens go.
BootCompletes == InstancesJoin /\ ExpiredTokensGo
=============================================================================
