--------------------------- MODULE NodeClassStatus ---------------------------
(***************************************************************************)
(* One IBMNodeClass between its user, the status controller, the           *)
(* autoplacement controller and the launches that read it                  *)
(* (pkg/controllers/nodeclass/status, .../autoplacement, CloudProvider     *)
(* Create and IsDrifted, VPCInstanceProvider.Create up to the prototype).  *)
(*                                                                         *)
(* Both controllers read the class from the informer cache, look at the    *)
(* cloud and patch the status with an optimistic lock; the specification   *)
(* is edited and the cloud changes meanwhile.  A lock is the flag fresh of *)
(* a copy: it holds until the stored object changes.  Subnets are read     *)
(* through caches that live for minutes, so that a reader sees a state of  *)
(* the cloud of that time (Views).  What the validation reads in one go is *)
(* one look at the cloud.  Formats of identifiers, the known regions and   *)
(* the required fields are one fact of a specification (formed).           *)
(***************************************************************************)
EXTENDS SubnetSelection, ImageResolution

CONSTANTS
  Claims,        \* NodeClaims that launch from the class
  Specs,         \* the specifications the user may write
  CloudStates,   \* [up: what exists, images, state and ips: of each subnet]
  Subnets, VPCOf, ZoneOf, TotalIPs,  \* subnets and their fixed facts
  RegionOf,      \* the region of each zone
  OlderNodes,    \* Nodes of the cluster in each subnet that are not of Claims
  GroupVPC,      \* the VPC of each security group
  DefaultGroup,  \* the default security group of each VPC
  Meant,         \* the images that each request of a user means, best first
  Profiles,      \* instance profiles
  None,
  Refreshing,    \* whether the refresh interval of a day passes
  MaxStamps,     \* bound: validations that take until the next second
  MaxEdits, MaxChanges

VARIABLES
  nc,        \* the stored NodeClass
  cached,    \* the informer's copy of it
  behind,    \* the stored object changed since that copy
  queued,    \* controllers with the class in their queue
  ctl,       \* what each controller works on
  cloud, recent,   \* the cloud now, and its states in the subnet caches
  creating,  \* launches between the check of the facade and the provider
  launched,  \* what each claim was launched with
  selected,  \* history: the selection was made for the present generation
  edits, changes, stamps

vars == <<nc, cached, behind, queued, ctl, cloud, recent, creating, launched, selected, edits, changes, stamps>>

Controllers == {"status", "autoplacement"}

Idle == [pc |-> "idle"]

Views == recent \cup {cloud}

-----------------------------------------------------------------------------
(* The cloud as the providers read it.                                      *)

Info(s, view) == SubnetInfo(s, ZoneOf[s], view.state[s], view.ips[s], TotalIPs[s])

ListSubnets(vpc, view) == {Info(s, view) : s \in {t \in Subnets : VPCOf[t] = vpc}}

\* The images a specification may be resolved to; None for an error.
Resolutions ==
  [view \in CloudStates |-> [spec \in Specs |->
     LET found == IF spec.image # <<>> THEN ResolveImage(spec.image, view.images)
                  ELSE ResolveImageBySelector(spec.selector, view.images)
     IN  IF found = {} THEN {None} ELSE found]]

Resolved(spec) == Resolutions[cloud][spec]

\* What a strategy may select, ranked without the nodes of the cluster.
Selections ==
  [view \in CloudStates |-> [spec \in {x \in Specs : x.strategy # None} |->
     SelectSubnets(ListSubnets(spec.vpc, view), spec.strategy, [s \in Subnets |-> 0])]]

-----------------------------------------------------------------------------
(* The validation of the status controller, phase by phase.                 *)

validateRequiredFieldsAndFormats(spec) == spec.formed

validateRegion(spec) == spec.region \in cloud.up

validateVPCInRegion(spec) == spec.vpc \in cloud.up

validateSubnet(spec, view) ==
  /\ RegionOf[ZoneOf[spec.subnet]] = spec.region
  /\ view.state[spec.subnet] = "available" /\ view.ips[spec.subnet] >= 10

validateSubnetsAvailable(spec, view) ==
  \E s \in ListSubnets(spec.vpc, view) :
    /\ s.state = "available" /\ s.available > 10
    /\ spec.zone \in {None, s.zone}

validateSecurityGroups(spec) ==
  \A g \in spec.groups : g \in cloud.up /\ GroupVPC[g] = spec.vpc

ResolvedGroups(spec) ==
  IF spec.groups # {} THEN spec.groups ELSE {DefaultGroup[spec.vpc]}

resolveDefaultSecurityGroup(spec) == DefaultGroup[spec.vpc] \in cloud.up

validateSSHKeys(spec) == spec.keys \subseteq cloud.up

\* The image that was resolved is stored in the status.
validateImageConfiguration(image) == image # None

validateZoneSubnetCompatibility(spec) ==
  spec.zone # None /\ spec.subnet # None => ZoneOf[spec.subnet] = spec.zone

validatePlacementStrategy(spec) ==
  spec.strategy # None =>
    /\ spec.strategy.balance \in {"Balanced", "AvailabilityFirst", "CostOptimized"}
    /\ spec.strategy.minimum >= 0

\* The object after validateIBMCloudResources, of a specification that is
\* well formed: a check that fails ends it, and what earlier ones resolved
\* stays.
validateIBMCloudResources(obj, view, image) ==
  LET spec == obj.spec
      network == /\ validateRegion(spec)
                 /\ validateVPCInRegion(spec)
                 /\ IF spec.subnet # None
                    THEN validateSubnet(spec, view)
                    ELSE validateSubnetsAvailable(spec, view)
      imaged == network /\ validateImageConfiguration(image)
      grouped == imaged /\ IF spec.groups # {} THEN validateSecurityGroups(spec)
                           ELSE resolveDefaultSecurityGroup(spec)
  IN  [obj EXCEPT
         !.image = IF imaged THEN image ELSE @,
         !.groups = IF grouped THEN ResolvedGroups(spec) ELSE @,
         !.ready = IF grouped /\ validateSSHKeys(spec) THEN "True" ELSE "False"]

\* validateNodeClass, and the Ready condition that Reconcile sets after it.
Validated(obj, view, image) ==
  LET spec == obj.spec
      checked == IF validateRequiredFieldsAndFormats(spec)
                 THEN validateIBMCloudResources(obj, view, image)
                 ELSE [obj EXCEPT !.ready = "False"]
  IN  [checked EXCEPT
         !.ready = IF validateZoneSubnetCompatibility(spec) /\ validatePlacementStrategy(spec)
                   THEN @ ELSE "False",
         !.observed = obj.gen]

-----------------------------------------------------------------------------
(* The API server and the informer.                                         *)

Stale(copies) == [c \in DOMAIN copies |-> IF copies[c] = Idle THEN Idle ELSE [copies[c] EXCEPT !.fresh = FALSE]]

\* The stored object becomes new; an unchanged one makes no event.  A stamp is
\* a new LastValidationTime, which no property reads but which is a change.
Store(new, stamp, controllers) ==
  IF new # nc \/ stamp
  THEN nc' = new /\ behind' = TRUE /\ ctl' = Stale(controllers)
  ELSE ctl' = controllers /\ UNCHANGED <<nc, behind>>

Sync ==
  /\ behind
  /\ cached' = nc
  /\ behind' = FALSE
  /\ queued' = Controllers
  /\ UNCHANGED <<nc, ctl, cloud, recent, creating, launched, selected, edits, changes, stamps>>

EditSpec ==
  /\ edits < MaxEdits
  /\ \E spec \in Specs \ {nc.spec} :
       Store([nc EXCEPT !.spec = spec, !.gen = @ + 1], FALSE, ctl)
  /\ edits' = edits + 1
  /\ selected' = FALSE
  /\ UNCHANGED <<cached, queued, cloud, recent, creating, launched, changes, stamps>>

CloudChange ==
  /\ changes < MaxChanges
  /\ cloud' \in CloudStates \ {cloud}
  /\ recent' = recent \cup {cloud}
  /\ changes' = changes + 1
  /\ UNCHANGED <<nc, cached, behind, queued, ctl, creating, launched, selected, edits, stamps>>

CachesExpire ==
  /\ recent # {}
  /\ recent' = {}
  /\ UNCHANGED <<nc, cached, behind, queued, ctl, cloud, creating, launched, selected, edits, changes, stamps>>

-----------------------------------------------------------------------------
(* The status controller.                                                   *)

StatusReconcile ==
  /\ "status" \in queued
  /\ ctl["status"] = Idle
  /\ \E view \in Views, image \in Resolved(cached.spec) :
       ctl' = [ctl EXCEPT !["status"] =
                 [pc |-> "patch", obj |-> Validated(cached, view, image), fresh |-> ~behind]]
  /\ queued' = queued \ {"status"}
  /\ UNCHANGED <<nc, cached, behind, cloud, recent, creating, launched, selected, edits, changes, stamps>>

Merged(obj) ==
  [nc EXCEPT !.image = obj.image, !.groups = obj.groups,
             !.ready = obj.ready, !.observed = obj.observed]

\* The patch with its optimistic lock; a conflict puts the class back into the
\* queue.  The stamp is in seconds, so that it may or may not differ.
patchNodeClassStatus ==
  /\ ctl["status"].pc = "patch"
  /\ IF ctl["status"].fresh
     THEN /\ \E stamp \in {FALSE, stamps < MaxStamps} :
               /\ Store(Merged(ctl["status"].obj), stamp, [ctl EXCEPT !["status"] = Idle])
               /\ stamps' = IF stamp THEN stamps + 1 ELSE stamps
          /\ UNCHANGED queued
     ELSE /\ ctl' = [ctl EXCEPT !["status"] = Idle]
          /\ queued' = queued \cup {"status"}
          /\ UNCHANGED <<nc, behind, stamps>>
  /\ UNCHANGED <<cached, cloud, recent, creating, launched, selected, edits, changes>>

\* RequeueAfter of a reconcile that succeeded.
refreshInterval ==
  /\ Refreshing
  /\ ctl["status"] = Idle
  /\ "status" \notin queued
  /\ queued' = queued \cup {"status"}
  /\ UNCHANGED <<nc, cached, behind, ctl, cloud, recent, creating, launched, selected, edits, changes, stamps>>
-----------------------------------------------------------------------------
(* The autoplacement controller.                                            *)

AutoReconcile ==
  /\ "autoplacement" \in queued
  /\ ctl["autoplacement"] = Idle
  /\ LET selectsTypes == cached.spec.profile = None /\ cached.spec.requirements # None
     IN  ctl' = [ctl EXCEPT !["autoplacement"] =
                   [pc |-> IF selectsTypes THEN "types" ELSE "subnets",
                    obj |-> cached, fresh |-> ~behind]]
  /\ queued' = queued \ {"autoplacement"}
  /\ UNCHANGED <<nc, cached, behind, cloud, recent, creating, launched, selected, edits, changes, stamps>>

\* A patch of the autoplacement controller, then what Reconcile does next: go
\* on with the object the patch returned, end, or return an error.
patchNodeClassStatusWithStored(new, next) ==
  IF ctl["autoplacement"].fresh
  THEN LET goesOn == [pc |-> "subnets", obj |-> new, fresh |-> TRUE]
           others == [ctl EXCEPT !["autoplacement"] = Idle]
       IN  /\ IF new # nc
              THEN /\ nc' = new
                   /\ behind' = TRUE
                   /\ ctl' = [Stale(others) EXCEPT !["autoplacement"] =
                                IF next = "subnets" THEN goesOn ELSE Idle]
              ELSE /\ ctl' = [others EXCEPT !["autoplacement"] =
                                IF next = "subnets" THEN goesOn ELSE Idle]
                   /\ UNCHANGED <<nc, behind>>
           /\ queued' = IF next = "error" THEN queued \cup {"autoplacement"} ELSE queued
           /\ selected' = (selected \/ next = "end")
  ELSE /\ ctl' = [ctl EXCEPT !["autoplacement"] = Idle]
       /\ queued' = queued \cup {"autoplacement"}
       /\ UNCHANGED <<nc, behind, selected>>

\* The types that fit go into the status too; nothing reads them there.
SelectInstanceTypes ==
  /\ ctl["autoplacement"].pc = "types"
  /\ LET obj == ctl["autoplacement"].obj
     IN  IF obj.spec.requirements \in cloud.up
         THEN patchNodeClassStatusWithStored([obj EXCEPT !.placed = "True"], "subnets")
         ELSE patchNodeClassStatusWithStored([obj EXCEPT !.placed = "False"], "error")
  /\ UNCHANGED <<cached, cloud, recent, creating, launched, edits, changes, stamps>>

\* Automatic selection; an explicit subnet clears the selection.
SelectOrClear(obj) ==
  IF obj.spec.subnet = None /\ obj.spec.strategy # None
  THEN \E view \in Views :
         LET found == Selections[view][obj.spec]
         IN  IF found = {}
             THEN patchNodeClassStatusWithStored([obj EXCEPT !.placed = "False"], "error")
             ELSE \E sel \in found :
                    patchNodeClassStatusWithStored(
                      [obj EXCEPT !.placed = "True", !.subnets = {s.id : s \in sel}], "end")
  ELSE IF obj.spec.subnet # None /\ obj.subnets # {}
       THEN patchNodeClassStatusWithStored([obj EXCEPT !.subnets = {}], "end")
       ELSE /\ ctl' = [ctl EXCEPT !["autoplacement"] = Idle]
            /\ UNCHANGED <<nc, behind, queued, selected>>

AutoSelect ==
  /\ ctl["autoplacement"].pc = "subnets"
  /\ SelectOrClear(ctl["autoplacement"].obj)
  /\ UNCHANGED <<cached, cloud, recent, creating, launched, edits, changes, stamps>>

-----------------------------------------------------------------------------
(* Create.                                                                  *)

gateIgnoresGeneration(class) == class.ready = "True"

\* A class that was validated as it is.
ReadyForGeneration(class) == class.ready = "True" /\ class.observed = class.gen

\* List: the profile of the class, or any that fits.
InstanceTypes(class) ==
  IF class.spec.profile # None THEN {class.spec.profile} ELSE Profiles

\* CloudProvider.Create: readiness and instance types, from the cache.
CreateChecks(c) ==
  /\ launched[c] = Idle
  /\ creating[c] = None
  /\ ReadyForGeneration(cached)
  /\ \E p \in InstanceTypes(cached) : creating' = [creating EXCEPT ![c] = p]
  /\ UNCHANGED <<nc, cached, behind, queued, ctl, cloud, recent, launched, selected, edits, changes, stamps>>

\* The nodes of the cluster by subnet.
Nodes ==
  [s \in Subnets |->
     OlderNodes[s] + Cardinality({c \in Claims : launched[c] # Idle /\ launched[c].subnet = s})]

\* The subnet of a launch is given by the specification or by the status.
GivenBySpec(class) == class.spec.subnet # None
GivenByStatus(class) == class.spec.subnet = None /\ class.spec.zone = None /\ class.subnets # {}

\* The subnets Create may choose; none when it returns an error.
Placements(class, view) ==
  LET spec == class.spec
      listed == ListSubnets(spec.vpc, view)
      fallback == UNION {selectSubnetFromMultiZoneList(sel) :
                           sel \in SelectSubnets(listed, spec.strategy, Nodes)}
  IN  CASE GivenBySpec(class) -> {spec.subnet}
        [] spec.subnet = None /\ spec.zone # None -> {s.id : s \in BestInZone(listed, spec.zone)}
        [] spec.subnet = None /\ spec.zone = None /\ spec.strategy = None -> {}
        [] GivenByStatus(class) -> class.subnets
        [] OTHER -> {s.id : s \in fallback}

ProfileMatches(class, profile) == class.spec.profile \in {None, profile}

LaunchGroups(spec) == IF spec.groups # {} THEN spec.groups ELSE {DefaultGroup[spec.vpc]}

\* The image of the status, or one resolved on the spot.
LaunchImages(class) == IF class.image # None THEN {class.image} ELSE Resolved(class.spec)

\* VPCInstanceProvider.Create: the class is read again, from the API server.
ProviderCreate(c) ==
  /\ creating[c] # None
  /\ ReadyForGeneration(nc)
  /\ ProfileMatches(nc, creating[c])
  /\ nc.spec.groups = {} => DefaultGroup[nc.spec.vpc] \in cloud.up
  /\ \E view \in Views, image \in LaunchImages(nc) \ {None} : \E s \in Placements(nc, view) :
       launched' = [launched EXCEPT ![c] =
         [spec |-> nc.spec, gen |-> nc.gen, profile |-> creating[c], subnet |-> s,
          zone |-> IF nc.spec.zone # None THEN nc.spec.zone ELSE ZoneOf[s],
          groups |-> LaunchGroups(nc.spec), image |-> image,
          given |-> GivenBySpec(nc) \/ (GivenByStatus(nc) /\ selected)]]
  /\ creating' = [creating EXCEPT ![c] = None]
  /\ UNCHANGED <<nc, cached, behind, queued, ctl, cloud, recent, selected, edits, changes, stamps>>

\* An error of Create, which core calls again.
CreateFails(c) ==
  /\ creating[c] # None
  /\ creating' = [creating EXCEPT ![c] = None]
  /\ UNCHANGED <<nc, cached, behind, queued, ctl, cloud, recent, launched, selected, edits, changes, stamps>>
-----------------------------------------------------------------------------
(* Drift by what the status resolved, for a claim and the class as read.    *)

isImageDrifted(l, class) == class.image # None /\ l.image # class.image

isSubnetDrifted(l, class) ==
  IF class.spec.subnet # None
  THEN l.subnet # class.spec.subnet
  ELSE class.subnets # {} /\ l.subnet \notin class.subnets

areSecurityGroupsDrifted(l, class) == class.groups # {} /\ l.groups # class.groups

IsDrifted(l, class) ==
  isImageDrifted(l, class) \/ isSubnetDrifted(l, class) \/ areSecurityGroupsDrifted(l, class)

-----------------------------------------------------------------------------
Init ==
  /\ nc \in [spec : Specs, gen : {1}, ready : {"Unknown"}, observed : {0}, image : {None},
             groups : {{}}, subnets : {{}}, placed : {"Unknown"}]
  /\ cached = nc
  /\ behind = FALSE
  /\ queued = Controllers
  /\ ctl = [c \in Controllers |-> Idle]
  /\ cloud \in CloudStates
  /\ recent = {}
  /\ creating = [c \in Claims |-> None]
  /\ launched = [c \in Claims |-> Idle]
  /\ selected = FALSE
  /\ edits = 0 /\ changes = 0 /\ stamps = 0

Next ==
  \/ Sync \/ EditSpec \/ CloudChange \/ CachesExpire
  \/ StatusReconcile \/ patchNodeClassStatus \/ refreshInterval
  \/ AutoReconcile \/ SelectInstanceTypes \/ AutoSelect
  \/ \E c \in Claims : CreateChecks(c) \/ ProviderCreate(c) \/ CreateFails(c)

Spec == Init /\ [][Next]_vars

\* The informer delivers, the queues are worked off, the refresh comes and the
\* caches expire.
Fairness ==
  /\ WF_vars(Sync) /\ WF_vars(CachesExpire)
  /\ WF_vars(StatusReconcile) /\ WF_vars(patchNodeClassStatus) /\ WF_vars(refreshInterval)
  /\ WF_vars(AutoReconcile) /\ WF_vars(SelectInstanceTypes) /\ WF_vars(AutoSelect)
FairSpec == Spec /\ Fairness

-----------------------------------------------------------------------------
Launches == {launched[c] : c \in Claims} \ {Idle}

Request(spec) == <<spec.image, spec.selector>>

Images == UNION {ToSet(Meant[r]) : r \in DOMAIN Meant}

Classes ==
  [spec : Specs, gen : 1..(MaxEdits + 1), ready : {"Unknown", "True", "False"},
   observed : 0..(MaxEdits + 1), image : Images \cup {None},
   groups : SUBSET DOMAIN GroupVPC, subnets : SUBSET Subnets,
   placed : {"Unknown", "True", "False"}]

\* The types of the state of NodeClass, controllers, cloud and launches.
TypeOK ==
  /\ nc \in Classes /\ cached \in Classes
  /\ nc.observed <= nc.gen
  /\ behind \in BOOLEAN
  /\ queued \subseteq Controllers
  /\ \A c \in Controllers :
       ctl[c] # Idle => ctl[c].obj \in Classes /\ (ctl[c].fresh => ctl[c].obj.gen = nc.gen)
  /\ {cloud} \cup recent \subseteq CloudStates
  /\ creating \in [Claims -> Profiles \cup {None}]
  /\ selected \in BOOLEAN
  /\ \A l \in Launches : l.spec \in Specs /\ l.subnet \in Subnets

\* What the status controller publishes belongs to the generation it names: a
\* class that is Ready for its generation carries an image and the security
\* groups of that very specification, although it was edited and written by
\* two controllers while the validation looked at the cloud.
ReadyIsOfTheSpec ==
  ReadyForGeneration(nc) =>
    /\ nc.spec.formed
    /\ nc.image \in ToSet(Meant[Request(nc.spec)])
    /\ nc.groups = ResolvedGroups(nc.spec)

\* What Create puts into the prototype is of one generation of the class, the
\* one whose readiness it checked, although the facade chose the instance
\* type from an older copy.
LaunchFollowsSpec ==
  \A l \in Launches :
    /\ l.image \in ToSet(Meant[Request(l.spec)])
    /\ l.spec.profile \in {None, l.profile}
    /\ l.groups = ResolvedGroups(l.spec)
    /\ l.spec.subnet \in {None, l.subnet}
    /\ l.zone = ZoneOf[l.subnet]

\* IsDrifted does not tear down what Create has just built: while neither the
\* class is edited nor the cloud changes, no claim launched from the class is
\* reported as drifted by its image or its security groups, nor by its subnet if
\* that was the one specified or one selected for this generation.  A subnet
\* that Create chose itself, for a zone or before there was a selection, or took
\* from a selection for an older generation, has no such guarantee.
FreshIsNotDrifted ==
  changes = 0 =>
    \A l \in Launches : l.gen = nc.gen =>
      /\ ~isImageDrifted(l, nc) /\ ~areSecurityGroupsDrifted(l, nc)
      /\ l.given => ~isSubnetDrifted(l, nc)

\* The subnets a strategy may select from, and the share of their addresses that
\* is free, compared.
Selectable(spec) == {s \in Subnets : VPCOf[s] = spec.vpc /\ eligible(Info(s, cloud), spec.strategy)}
Emptier(s, t) == cloud.ips[s] * TotalIPs[t] > cloud.ips[t] * TotalIPs[s]

\* While the cloud stands still, what the autoplacement controller has selected
\* for a specification is what its strategy says: AvailabilityFirst all subnets
\* of the VPC that can be used; Balanced, of each zone the one with the largest
\* share of free addresses; CostOptimized the same of two zones, those in which
\* that share is largest.
SelectionIsBest ==
  LET spec == nc.spec
      candidates == Selectable(spec)
      zones == {ZoneOf[s] : s \in nc.subnets}
  IN  changes = 0 /\ selected /\ spec.subnet = None /\ spec.strategy # None =>
        IF spec.strategy.balance = "AvailabilityFirst" THEN nc.subnets = candidates
        ELSE /\ \A s \in nc.subnets, t \in candidates : ZoneOf[t] = ZoneOf[s] /\ t # s =>
                   Emptier(s, t) /\ t \notin nc.subnets
             /\ \A s \in nc.subnets, t \in candidates : ZoneOf[t] \notin zones =>
                   spec.strategy.balance = "CostOptimized" /\ Emptier(s, t)
             /\ spec.strategy.balance = "CostOptimized" =>
                   Cardinality(zones) = (IF Cardinality({ZoneOf[t] : t \in candidates}) > 2 THEN 2
                                         ELSE Cardinality({ZoneOf[t] : t \in candidates}))

\* Of the images a request means, those that exist, and are usable if they are
\* chosen by a selector: a name or an ID is taken at its word.
Available(spec) ==
  SelectSeq(Meant[Request(spec)],
            LAMBDA id : \E i \in cloud.images : i.id = id /\ (spec.image = <<>> => usable(i)))

\* Once the user and the cloud are quiet, the status tells of the current
\* generation, and a Ready class has the best image of those the user means,
\* by version, patch and build of their names, whatever was resolved before.
StatusFollows ==
  <>[](/\ nc.observed = nc.gen
       /\ nc.ready = "True" => Available(nc.spec) # <<>> /\ nc.image = Head(Available(nc.spec)))

\* Once the user and the cloud are quiet, the selection is of the VPC of the
\* class, and an explicit subnet leaves none, unless nothing can be selected.
SelectionFollows ==
  <>[](/\ nc.spec.subnet # None => nc.subnets = {}
       /\ (nc.spec.subnet = None /\ nc.spec.strategy # None /\ nc.placed = "True")
          => nc.subnets # {} /\ \A s \in nc.subnets : VPCOf[s] = nc.spec.vpc)

\* The status and what is launched from it are consistent with the
\* specification, in every interleaving of edits, validations and launches:
\* the four properties above and the types.
ClassIsConsistent ==
  /\ TypeOK
  /\ ReadyIsOfTheSpec /\ LaunchFollowsSpec /\ FreshIsNotDrifted /\ SelectionIsBest

\* Status and selection both follow the user and the cloud.
ClassFollows == StatusFollows /\ SelectionFollows
=============================================================================
