--------------------------- MODULE InstanceTypes ---------------------------
(***************************************************************************)
(* The catalog of instance types: IBMInstanceTypeProvider lists the        *)
(* profiles of the VPC API with retries, turns each into an instance type  *)
(* with one offering per zone and capacity type, filters and ranks them    *)
(* for a NodeClass, and CloudProvider.Create picks from the result the     *)
(* profile, the capacity type and the zone of a launch.                    *)
(*                                                                         *)
(* One call is followed, against everything that changes meanwhile: marks  *)
(* of unavailable offerings, which other calls and controllers set and     *)
(* which expire, prices that are known or not, the cache of zones, and     *)
(* calls to IBM Cloud that fail.  Memory is in GiB and what a kubelet      *)
(* holds back in MiB; CPUs are whole, held back in thousandths; prices are *)
(* in hundredths.                                                          *)
(***************************************************************************)
EXTENDS Integers, SequencesExt

CONSTANTS
    Profiles,        \* the instance profiles in the order of the VPC API
    ProfileSpec,     \* what the VPC API says of each profile
    Quote,           \* the price of each profile
    Zones,           \* the zones of the region, as a sequence
    Classes,         \* the NodeClasses calls are made for
    Claims,          \* the requirements of NodeClaims
    None,            \* no profile, no requirements, no cap, no zone
    Steps,           \* attempts at listing the profiles
    SpotPercent,     \* price of spot capacity, in percent
    MaxEvents        \* bound on marks and on price outages

VARIABLES
    marks,           \* cache of unavailable offerings: none, fresh or expired
    quoted,          \* profiles the pricing provider has a price of
    zonesCached,     \* the zones are in the cache and less than an hour old
    events,          \* changes of marks and quoted
    call             \* the call in progress

vars == <<marks, quoted, zonesCached, events, call>>

-----------------------------------------------------------------------------
(* State *)

Names == ToSet(Profiles)

CapacityTypes == {"on-demand", "spot"}

Offerings == [name: Names, zone: ToSet(Zones), capacity: CapacityTypes]

\* A call: List, Get or Create for a class; attempts left; profiles left to
\* convert; offerings left to build for the first of them and those built; the
\* instance types converted; and whether a zone lookup failed on the way.
Idle == [op |-> "none", pc |-> "idle", class |-> None, claim |-> None, name |-> None,
         attempts |-> 0, profiles |-> <<>>, todo |-> <<>>, built |-> <<>>, types |-> <<>>,
         zonesFailed |-> FALSE, launch |-> None]

Init ==
    /\ marks \in [Offerings -> {"none", "expired"}]
    /\ quoted \in SUBSET Names
    /\ zonesCached = FALSE
    /\ events = 0
    /\ call = Idle

TypeOK ==
    /\ marks \in [Offerings -> {"none", "fresh", "expired"}]
    /\ quoted \subseteq Names
    /\ zonesCached \in BOOLEAN
    /\ events \in 0..MaxEvents
    /\ call.attempts \in IF call.pc = "idle" THEN {0} ELSE 1..Steps
    /\ \A i \in DOMAIN call.types :
          /\ call.types[i].name \in Names
          /\ ToSet(Zones) \subseteq {o.zone : o \in ToSet(call.types[i].offerings)}
                \/ call.class.requirements # None

-----------------------------------------------------------------------------
(* Offerings and prices *)

GetCapacityTypeFromAvailabilityClass(class) == IF class = "spot" THEN "spot" ELSE "on-demand"

\* A profile without availability classes is sold on demand.
GetSupportedCapacityTypes(classes) ==
    IF classes = <<>> THEN <<"on-demand">>
    ELSE [i \in DOMAIN classes |-> GetCapacityTypeFromAvailabilityClass(classes[i])]

\* The offerings of a profile, zone by zone.
OfferingsOf(p) ==
    LET types == GetSupportedCapacityTypes(ProfileSpec[p].classes)
        n == Len(types)
    IN [i \in 1..(Len(Zones) * n) |->
           [name |-> p, zone |-> Zones[((i - 1) \div n) + 1], capacity |-> types[((i - 1) % n) + 1]]]

Discounted(price, capacity) ==
    IF capacity = "spot" THEN (price * SpotPercent) \div 100 ELSE price

PriceLimited(class) == class.requirements # None /\ class.requirements.cap # None

MinPrice(offerings) ==
    IF offerings = <<>> THEN 0
    ELSE CHOOSE x \in {o.price : o \in ToSet(offerings)} :
            \A o \in ToSet(offerings) : x <= o.price

\* resource.ScaledValue(Giga) of m GiB; exact below 339 GiB.
memoryGB(m) == (m * 107375 + 99999) \div 100000

\* A score as a fraction: the mean price of a CPU and of a gigabyte, in whole
\* units of the currency, or the size of the instance when the price is unknown.
\* Lower is better.
calculateInstanceTypeScore(it) ==
    LET cpu == ProfileSpec[it.name].cpu
        gb == memoryGB(ProfileSpec[it.name].memory)
        price == MinPrice(it.offerings)
    IN IF price <= 0 THEN [num |-> cpu + gb, den |-> 1]
       ELSE [num |-> price * (cpu + gb), den |-> 200 * cpu * gb]

Better(x, y) == x.num * y.den < y.num * x.den

\* sort.Slice is not stable: any order that respects the scores.
rankInstanceTypes(types) ==
    {s \in SetToSeqs(ToSet(types)) :
        \A i, j \in DOMAIN s :
            i < j => ~Better(calculateInstanceTypeScore(s[j]), calculateInstanceTypeScore(s[i]))}

-----------------------------------------------------------------------------
(* What the kubelet holds back *)

\* A quantity that is not given, or that cannot be parsed (None), has its default.
Quantity(q, default) == IF q \in Nat THEN q ELSE default

calculateOverhead(kubelet) ==
    IF kubelet = None THEN [cpu |-> 200, memory |-> 2548]
    ELSE [cpu |-> Quantity(kubelet.kubeCPU, 100) + Quantity(kubelet.systemCPU, 100),
          memory |-> Quantity(kubelet.kubeMemory, 1024) + Quantity(kubelet.systemMemory, 1024)
                       + Quantity(kubelet.eviction, 500)]

\* Core's Allocatable, the capacity without the overhead, has room for requests.
Fits(requests, name, kubelet) ==
    LET overhead == calculateOverhead(kubelet)
    IN  /\ requests.cpu <= ProfileSpec[name].cpu * 1000 - overhead.cpu
        /\ requests.memory <= ProfileSpec[name].memory * 1024 - overhead.memory

-----------------------------------------------------------------------------
(* Filtering *)

\* The offerings within the price cap.
WithinCap(it, req) ==
    IF req.cap = None THEN it.offerings
    ELSE SelectSeq(it.offerings, LAMBDA o : o.price >= 0 /\ o.price <= req.cap)

Meets(it, req) ==
    /\ req.arch \in {None, ProfileSpec[it.name].arch}
    /\ ProfileSpec[it.name].cpu >= req.cpu
    /\ ProfileSpec[it.name].memory >= req.memory
    /\ WithinCap(it, req) # <<>> \/ req.cap = None

\* The possible results of filterCatalog.
filterCatalog(types, req) ==
    LET kept == SelectSeq(types, LAMBDA it : Meets(it, req))
    IN rankInstanceTypes([i \in DOMAIN kept |->
                            [name |-> kept[i].name, offerings |-> WithinCap(kept[i], req)]])

\* The possible results of List for what was converted.
SelectFor(class, types) ==
    CASE class.profile # None -> {SelectSeq(types, LAMBDA it : it.name = class.profile)}
      [] class.profile = None /\ class.requirements # None -> filterCatalog(types, class.requirements)
      [] OTHER -> {types}

-----------------------------------------------------------------------------
(* Listing *)

World == <<marks, quoted, zonesCached, events>>

\* The operations: List for core or a controller, Get for the IKS provider, and
\* Create, which lists for the class of its claim.
Begin(op, class, claim, name) ==
    /\ call.pc = "idle"
    /\ call' = [Idle EXCEPT !.op = op, !.pc = "client", !.class = class, !.attempts = Steps,
                            !.claim = claim, !.name = name]
    /\ UNCHANGED World

Fail == call' = Idle

\* The backoff: another attempt if there is one left.
Retry == IF call.attempts = 1 THEN Fail
         ELSE call' = [call EXCEPT !.pc = "client", !.attempts = @ - 1]

GetClient ==
    /\ call.pc = "client"
    /\ call' = [call EXCEPT !.pc = "profiles"] \/ Retry
    /\ UNCHANGED World

\* The answer to ListInstanceProfiles: all are converted, in this order.
ListProfiles ==
    /\ call.pc = "profiles"
    /\ call.op # "get"
    /\ call' = [call EXCEPT !.pc = "convert", !.profiles = Profiles]
    /\ UNCHANGED World

\* Get looks for its profile in the answer, and does not retry without it.
Get ==
    /\ call.pc = "profiles"
    /\ call.op = "get"
    /\ IF call.name \in Names THEN call' = [call EXCEPT !.pc = "convert", !.profiles = <<call.name>>]
       ELSE Fail
    /\ UNCHANGED World

\* isRetryableError decides whether a failed attempt is repeated.
ListProfilesFails ==
    /\ call.pc = "profiles"
    /\ \E retryable \in BOOLEAN : IF retryable THEN Retry ELSE Fail
    /\ UNCHANGED World

\* A profile that cannot be converted: List goes on without it, Get fails.
Skip == IF call.op = "get" THEN Fail
        ELSE call' = [call EXCEPT !.pc = "convert", !.profiles = Tail(@)]

\* convertVPCProfileToInstanceType up to the zones: name, CPUs and memory.
Convert ==
    /\ call.pc = "convert"
    /\ call.profiles # <<>>
    /\ IF ProfileSpec[Head(call.profiles)].ok THEN call' = [call EXCEPT !.pc = "zones"] ELSE Skip
    /\ UNCHANGED World

\* From the cache or from the VPC API, which fills the cache.
getZonesForRegion ==
    /\ call.pc = "zones"
    /\ zonesCached' = TRUE
    /\ call' = [call EXCEPT !.pc = "offer", !.todo = OfferingsOf(Head(call.profiles)), !.built = <<>>]
    /\ UNCHANGED <<marks, quoted, events>>

ZonesFail ==
    /\ call.pc = "zones"
    /\ ~zonesCached
    /\ IF call.op = "get" THEN Fail
       ELSE call' = [call EXCEPT !.pc = "convert", !.profiles = Tail(@), !.zonesFailed = TRUE]
    /\ UNCHANGED World

\* The price of an offering; no quote counts as a price of zero.
GetPrice(o) == IF o.name \in quoted THEN Discounted(Quote[o.name], o.capacity) ELSE 0

\* An offering of which the mark said that it is available or not.
Entry(o) ==
    [zone |-> o.zone, capacity |-> o.capacity, price |-> GetPrice(o), available |-> marks[o] # "fresh"]

\* One offering: with a price cap, it is left out if there is no quote.  Its mark
\* is read under the read lock; for an expired one IsUnavailable goes on.
Offer ==
    /\ call.pc = "offer"
    /\ call.todo # <<>>
    /\ LET o == Head(call.todo)
       IN  call' = IF PriceLimited(call.class) /\ o.name \notin quoted THEN [call EXCEPT !.todo = Tail(@)]
                   ELSE IF marks[o] = "expired"
                   THEN [call EXCEPT !.pc = "upgrade", !.built = Append(@, Entry(o))]
                   ELSE [call EXCEPT !.todo = Tail(@), !.built = Append(@, Entry(o))]
    /\ UNCHANGED World

upgradeBlindly ==
    /\ call.pc = "upgrade"
    /\ marks' = [marks EXCEPT ![Head(call.todo)] = "none"]
    /\ call' = [call EXCEPT !.pc = "offer", !.todo = Tail(@)]
    /\ UNCHANGED <<quoted, zonesCached, events>>

\* Under the write lock an expired mark is dropped, unless it was set again.
IsUnavailable ==
    /\ call.pc = "upgrade"
    /\ marks' = [marks EXCEPT ![Head(call.todo)] = IF @ = "expired" THEN "none" ELSE @]
    /\ call' = [call EXCEPT !.pc = "offer", !.todo = Tail(@)]
    /\ UNCHANGED <<quoted, zonesCached, events>>

Converted ==
    /\ call.pc = "offer"
    /\ call.todo = <<>>
    /\ call' = [call EXCEPT !.pc = "convert", !.profiles = Tail(@), !.built = <<>>,
                   !.types = Append(@, [name |-> Head(call.profiles), offerings |-> call.built])]
    /\ UNCHANGED World

\* The end of List: an empty catalog is an error, an empty selection is not.
List ==
    /\ call.pc = "convert"
    /\ call.profiles = <<>>
    /\ IF call.types = <<>> THEN Fail
       ELSE \E types \in IF call.op = "get" THEN {call.types}
                         ELSE SelectFor(call.class, call.types) :
               call' = [call EXCEPT !.pc = IF call.op = "create" THEN "choose" ELSE "done",
                                    !.types = types]
    /\ UNCHANGED World

-----------------------------------------------------------------------------
(* Create *)

\* Offerings.Compatible(reqs).Available()
OpenFor(it, claim) ==
    SelectSeq(it.offerings, LAMBDA o : /\ o.zone \in claim.zones
                                       /\ o.capacity \in claim.capacity
                                       /\ o.available)

Compatible(types, claim, kubelet) ==
    SelectSeq(types, LAMBDA it : 
        it.name \in claim.names /\ Fits(claim.requests, it.name, kubelet) /\ OpenFor(it, claim) # <<>>)

resolveByClaim(claim, types) == IF "spot" \in claim.capacity THEN "spot" ELSE "on-demand"

\* Spot if the claim allows it and any of the types has it.
ResolveCapacityType(claim, types) ==
    IF /\ "spot" \in claim.capacity
       /\ \E it \in ToSet(types) : \E o \in ToSet(OpenFor(it, claim)) : o.capacity = "spot"
    THEN "spot" ELSE "on-demand"

\* The launch gets the first compatible type, and the zone of the class or of
\* one of its subnets.
Create ==
    /\ call.pc = "choose"
    /\ LET compatible == Compatible(call.types, call.claim, call.class.kubelet)
       IN IF compatible = <<>> THEN Fail
          ELSE \E zone \in ToSet(Zones) :
                  /\ call.class.zone \in {None, zone}
                  /\ call' = [call EXCEPT !.pc = "done", !.types = compatible,
                        !.launch = [name |-> Head(compatible).name, zone |-> zone,
                                    capacity |-> ResolveCapacityType(call.claim, compatible)]]
    /\ UNCHANGED World

Return == call.pc = "done" /\ Fail /\ UNCHANGED World

-----------------------------------------------------------------------------
(* Environment *)

Event == events < MaxEvents /\ events' = events + 1

\* Interruptions and preemptions mark offerings, marks expire.
Add(o) ==
    /\ Event
    /\ marks' = [marks EXCEPT ![o] = "fresh"]
    /\ UNCHANGED <<quoted, zonesCached, call>>

Expire(o) ==
    /\ marks[o] = "fresh"
    /\ marks' = [marks EXCEPT ![o] = "expired"]
    /\ UNCHANGED <<quoted, zonesCached, events, call>>

\* Prices are fetched or are lost in a refresh.
Reprice(p) ==
    /\ Event
    /\ quoted' = IF p \in quoted THEN quoted \ {p} ELSE quoted \cup {p}
    /\ UNCHANGED <<marks, zonesCached, call>>

ZonesExpire ==
    /\ zonesCached
    /\ Event
    /\ zonesCached' = FALSE
    /\ UNCHANGED <<marks, quoted, call>>

-----------------------------------------------------------------------------
(* Specification *)

Step == GetClient \/ ListProfiles \/ Get \/ ListProfilesFails \/ Convert \/ getZonesForRegion
        \/ ZonesFail \/ Offer \/ IsUnavailable \/ Converted \/ List \/ Create \/ Return

\* FilterInstanceTypes lists for a class with other requirements and no profile.
FilterInstanceTypes(class) ==
    /\ class.requirements # None
    /\ Begin("list", [class EXCEPT !.profile = None], None, None)

Start ==
    \/ \E class \in Classes : FilterInstanceTypes(class)
    \/ \E class \in Classes : Begin("list", class, None, None)
    \/ \E class \in Classes, name \in Names \cup {None} : Begin("get", class, None, name)
    \/ \E class \in Classes, claim \in Claims : Begin("create", class, claim, None)

Next ==
    \/ Step
    \/ Start
    \/ \E o \in Offerings : Add(o) \/ Expire(o)
    \/ \E p \in Names : Reprice(p)
    \/ ZonesExpire

Spec == Init /\ [][Next]_vars

\* A call that has begun runs on: its goroutine is scheduled and each call to
\* IBM Cloud is answered or times out.
Fairness == WF_vars(Step)
FairSpec == Spec /\ Fairness

-----------------------------------------------------------------------------
(* Properties *)

\* A price cap is kept: whatever List returns under MaximumHourlyPrice costs no
\* more than that, also when prices appear and disappear while it runs (an
\* offering without a quote must not pass as free), and so does the profile that
\* Create launches at the capacity type it launches it with, although it takes
\* the two from different types.
CapIsKept ==
    call.pc = "done" /\ call.op # "get" /\ PriceLimited(call.class)
      => LET cap == call.class.requirements.cap
         IN  /\ \A it \in ToSet(call.types) : \A o \in ToSet(it.offerings) :
                   Discounted(Quote[it.name], o.capacity) <= cap
             /\ call.launch # None
                  => Discounted(Quote[call.launch.name], call.launch.capacity) <= cap

\* The profiles a class without a price cap asks for.
Wanted(class) ==
    {p \in Names :
        /\ ProfileSpec[p].ok
        /\ class.profile \in {None, p}
        /\ class.profile = None /\ class.requirements # None
             => /\ class.requirements.arch \in {None, ProfileSpec[p].arch}
                /\ ProfileSpec[p].cpu >= class.requirements.cpu
                /\ ProfileSpec[p].memory >= class.requirements.memory}

\* A list that is returned is whole: it lacks a profile the class asks for only
\* if a lookup of the zones failed in this very call.  Core takes a type that is
\* not listed for gone and replaces its nodes.
ListIsWhole ==
    call.pc = "done" /\ call.op = "list" /\ ~call.zonesFailed /\ ~PriceLimited(call.class)
      => {it.name : it \in ToSet(call.types)} = Wanted(call.class)

\* What the claim would pay for the type, and what the ranking takes it to cost:
\* the cheapest offering that the claim can use, and the cheapest one listed.
ClaimPrice(it) == MinPrice(OpenFor(it, call.claim))
ListPrice(it) == MinPrice(it.offerings)

\* For a class with requirements, no other type that fits the claim is cheaper
\* for the claim than the one Create launches, and nowhere smaller.  This is so
\* when the launched type is ranked by a price the claim can have and the
\* prices of the other one are known: the ranking also counts offerings the
\* claim excludes or that are marked unavailable.
RankedLaunchIsPreferred ==
    call.launch # None /\ call.class.requirements # None
      => LET launched == Head(call.types)
         IN  ListPrice(launched) = ClaimPrice(launched)
               => ~\E it \in ToSet(call.types) :
                     /\ ListPrice(it) > 0
                     /\ ClaimPrice(it) < ClaimPrice(launched)
                     /\ ProfileSpec[it.name].cpu >= ProfileSpec[launched.name].cpu
                     /\ ProfileSpec[it.name].memory >= ProfileSpec[launched.name].memory

\* The launch is one that was on offer when the list was made.  Its capacity
\* type is always that of an open offering of one of the types that fit; when
\* the claim leaves only one capacity type, of the launched type; and when the
\* claim leaves only the zone of the launch, in that zone.  Claims that leave a
\* choice have no such guarantee: Create chooses the profile, the capacity type
\* and the zone one by one.
LaunchIsOffered ==
    call.launch # None
      => LET claim == call.claim
             Open(it) == {o \in ToSet(OpenFor(it, claim)) : o.capacity = call.launch.capacity}
         IN  /\ \E it \in ToSet(call.types) : Open(it) # {}
             /\ Cardinality(claim.capacity) = 1
                  => \E o \in Open(Head(call.types)) :
                        claim.zones = {call.launch.zone} => o.zone = call.launch.zone

\* A mark in force stays: a call that found the mark expired does not drop the
\* new one that an interruption has set since.
MarksStay ==
    [][call' # call => \A o \in Offerings : marks[o] = "fresh" => marks'[o] = "fresh"]_vars

\* What List and Create answer is right for the world they looked at, although
\* it changed under them: capped, whole, preferred and on offer.
AnswersAreRight ==
    TypeOK /\ CapIsKept /\ ListIsWhole /\ RankedLaunchIsPreferred /\ LaunchIsOffered
=============================================================================
