------------------------ MODULE NodeBootstrapProofs ------------------------
(***************************************************************************)
(* The theorem about NodeBootstrap, for any number of launches, any life   *)
(* of a token and any time of renewal: a token outlives the boot it was    *)
(* handed out for, launches share tokens, and a Node is tainted until core *)
(* has registered it.                                                      *)
(*                                                                         *)
(* Launches and the cleanup of tokens work on listings that age.  The      *)
(* invariant says what an old listing is still good for: a token of it is  *)
(* stored until it expires (Copy), so one that was handed out is stored    *)
(* for the time of renewal (Handed).  That tokens are shared is not a      *)
(* matter of their number alone: every token that could be handed out is   *)
(* accounted to a launch of its own, which is not about to make another    *)
(* (Shared).  Lemma XInv says that the step X preserves the invariant.     *)
(***************************************************************************)
EXTENDS NodeBootstrap, FiniteSetTheorems, WellFoundedInduction, TLAPS

\* Zenon proves most leaves; one that needs arithmetic or record types names SMT.
USE ZenonT(90)

-----------------------------------------------------------------------------
(* The inductive invariant *)

\* What a listing of tokens may be: expirations by id.
Listing == UNION {[S -> Nat] : S \in SUBSET Nat}

LaunchState == [pc : Steps, listed : Listing, token : Nat, since : Nat, data : UserData]

Types ==
  /\ now \in 0..MaxTime /\ made \in 0..MaxTokens /\ failures \in 0..MaxFailures
  /\ tokens \in Listing /\ DOMAIN tokens \subseteq 1..made
  /\ \A t \in DOMAIN tokens : tokens[t] \in 0..(MaxTime + TTL)
  /\ launch \in [Launches -> LaunchState]
  /\ ctl \in [pc : {"idle", "list", "clean"}, listed : Listing]
  /\ bindings \subseteq Bindings /\ armed \in BOOLEAN /\ cluster \in Clusters
  /\ made > 0 => armed

\* A listing shows tokens that were made, with their expiration, and those that
\* have not expired are stored.
Copy(f) ==
  \A t \in DOMAIN f : /\ t \in 1..made
                      /\ t \in DOMAIN tokens => tokens[t] = f[t]
                      /\ now <= f[t] => t \in DOMAIN tokens

Copies == Copy(ctl.listed) /\ \A l \in Launches : Copy(launch[l].listed)

\* The token of a launch lives longer than the time of renewal.
Handed(r) ==
  /\ r.token <= made
  /\ r.pc \in {"gather", "booting"} =>
       /\ r.token # 0 /\ r.since <= now
       /\ now <= r.since + Renew => r.token \in DOMAIN tokens /\ r.since + Renew < tokens[r.token]

\* The taints in the user data of a launch, and on its Node.
Tainted(r) ==
  /\ r.pc \in {"booting", "joined"} => r.data.unregistered
  /\ r.pc = "registered" => r.data.taints

\* The launch is not about to make a token while t could be handed out: if it
\* has a listing, it finds t there.
Finds(r, t) == r.pc # "create" /\ (r.pc = "choose" => t \in DOMAIN r.listed)

\* f accounts the tokens of U to launches, one to each.
Accounts(f, U) ==
  /\ f \in [U -> Launches]
  /\ \A t, u \in U : f[t] = f[u] => t = u
  /\ \A t \in U : Finds(launch[f[t]], t)

Shared == \E f : Accounts(f, Usable(tokens, now))

IInv ==
  /\ Types /\ Copies /\ Shared
  /\ \A l \in Launches : Handed(launch[l]) /\ Tainted(launch[l])

LEMMA Constants ==
  /\ IsFiniteSet(Launches) /\ Renew < TTL
  /\ TTL \in Nat /\ Renew \in Nat /\ MaxTime \in Nat /\ MaxTokens \in Nat /\ MaxFailures \in Nat
  BY LifeAssumption

-----------------------------------------------------------------------------
(* Listings *)

LEMMA ListingFacts ==
  ASSUME NEW f \in Listing
  PROVE  DOMAIN f \subseteq Nat /\ \A t \in DOMAIN f : f[t] \in Nat
  BY DEF Listing

LEMMA IsListing ==
  ASSUME NEW S \in SUBSET Nat, NEW f \in [S -> Nat]
  PROVE  f \in Listing
  BY DEF Listing

LEMMA EmptyListing == <<>> \in Listing /\ DOMAIN <<>> = {}
  <1>1. <<>> \in [{} -> Nat] /\ DOMAIN <<>> = {}
    BY SMTT(90)
  <1> QED BY <1>1, IsListing

LEMMA WithoutFacts ==
  ASSUME NEW f \in Listing, NEW t
  PROVE  /\ Without(f, t) \in Listing /\ DOMAIN Without(f, t) = DOMAIN f \ {t}
         /\ \A u \in DOMAIN f \ {t} : Without(f, t)[u] = f[u]
  <1>1. Without(f, t) \in [DOMAIN f \ {t} -> Nat]
    BY ListingFacts DEF Without
  <1>2. DOMAIN f \ {t} \in SUBSET Nat
    BY ListingFacts
  <1>3. Without(f, t) \in Listing
    BY <1>1, <1>2, IsListing
  <1> QED BY <1>3 DEF Without

LEMMA NotStartedFacts ==
  /\ NotStarted \in LaunchState /\ NotStarted.pc = "idle" /\ NotStarted.token = 0
  /\ NotStarted.listed = <<>> /\ NotStarted.data \in UserData
  <1>1. NoUserData \in UserData
    BY DEF NoUserData, UserData
  <1> QED BY <1>1, EmptyListing DEF NotStarted, LaunchState, Steps

-----------------------------------------------------------------------------
(* Time passes, tokens are made, and expired ones go *)

\* What happens to the tokens: new ones get a new id, and only expired ones go.
Later ==
  /\ now <= now' /\ made <= made'
  /\ \A t \in DOMAIN tokens' : t \in 1..made => t \in DOMAIN tokens /\ tokens'[t] = tokens[t]
  /\ \A t \in DOMAIN tokens : t \notin DOMAIN tokens' => tokens[t] < now

\* A listing stays what it was.
LEMMA CopyStays ==
  ASSUME Types, Types', Later, NEW f \in Listing, Copy(f)
  PROVE  Copy(f)'
  <1> SUFFICES ASSUME NEW t \in DOMAIN f
               PROVE  /\ t \in 1..made'
                      /\ t \in DOMAIN tokens' => tokens'[t] = f[t]
                      /\ now' <= f[t] => t \in DOMAIN tokens'
    BY DEF Copy
  <1>1. /\ t \in 1..made /\ (t \in DOMAIN tokens => tokens[t] = f[t])
        /\ now <= f[t] => t \in DOMAIN tokens
    BY DEF Copy
  <1>2. f[t] \in Nat /\ now \in Nat /\ now' \in Nat /\ made \in Nat /\ made' \in Nat
    BY SMTT(90), ListingFacts DEF Types
  <1>3. t \in 1..made'
    BY SMTT(90), <1>1, <1>2 DEF Later
  <1>4. t \in DOMAIN tokens' => tokens'[t] = f[t]
    BY <1>1 DEF Later
  <1>5. ASSUME now' <= f[t]
        PROVE  t \in DOMAIN tokens'
    <2>1. now <= f[t]
      BY SMTT(90), <1>2, <1>5 DEF Later
    <2>2. t \in DOMAIN tokens /\ ~(tokens[t] < now)
      BY SMTT(90), <1>1, <1>2, <2>1
    <2> QED BY <2>2 DEF Later
  <1> QED BY <1>3, <1>4, <1>5

\* A token that was handed out stays for the time of renewal.
LEMMA HandedStays ==
  ASSUME Types, Types', Later, NEW r \in LaunchState, Handed(r)
  PROVE  Handed(r)'
  <1>1. /\ now \in Nat /\ now' \in Nat /\ now <= now' /\ made \in Nat /\ made' \in Nat /\ made <= made'
        /\ r.token \in Nat /\ r.since \in Nat /\ Renew \in Nat
    BY SMTT(90), Constants DEF Types, Later, LaunchState
  <1>2. ASSUME r.pc \in {"gather", "booting"}, now' <= r.since + Renew
        PROVE  r.token \in DOMAIN tokens' /\ r.since + Renew < tokens'[r.token]
    <2>1. now <= r.since + Renew
      BY SMTT(90), <1>1, <1>2
    <2>2. /\ r.token # 0 /\ r.token <= made /\ r.token \in DOMAIN tokens
          /\ r.since + Renew < tokens[r.token]
      BY <1>2, <2>1 DEF Handed
    <2>3. tokens[r.token] \in Nat
      BY <2>2, ListingFacts DEF Types
    <2>4. ~(tokens[r.token] < now)
      BY SMTT(90), <1>1, <2>1, <2>2, <2>3
    <2>5. r.token \in DOMAIN tokens'
      BY <2>2, <2>4 DEF Later
    <2>6. r.token \in 1..made
      BY SMTT(90), <1>1, <2>2
    <2> QED BY <2>2, <2>5, <2>6 DEF Later
  <1>3. r.token <= made => r.token <= made'
    BY SMTT(90), <1>1
  <1>4. r.since <= now => r.since <= now'
    BY SMTT(90), <1>1
  <1> QED BY <1>2, <1>3, <1>4 DEF Handed

\* A token that cannot be handed out never can again.
LEMMA UsableStays ==
  ASSUME Types, Types', Later, NEW t \in Usable(tokens, now)', t \in 1..made
  PROVE  t \in Usable(tokens, now)
  <1>1. t \in DOMAIN tokens' /\ now' < tokens'[t] - Renew
    BY DEF Usable
  <1>2. t \in DOMAIN tokens /\ tokens'[t] = tokens[t]
    BY <1>1 DEF Later
  <1>3. now \in Nat /\ now' \in Nat /\ now <= now' /\ tokens[t] \in Nat /\ Renew \in Nat
    BY SMTT(90), <1>2, Constants, ListingFacts DEF Types, Later
  <1>4. now < tokens[t] - Renew
    BY SMTT(90), <1>1, <1>2, <1>3
  <1> QED BY <1>2, <1>4 DEF Usable

\* Without new tokens, the same launches account for those that are left.
LEMMA SharedStays ==
  ASSUME IInv, Types', Later, made' = made, UNCHANGED launch
  PROVE  Shared'
  <1> DEFINE U == Usable(tokens, now)
             V == Usable(tokens, now)'
  <1>1. PICK f : Accounts(f, U)
    BY DEF IInv, Shared
  <1>2. V \subseteq U
    <2>1. ASSUME NEW t \in V PROVE t \in U
      <3>1. t \in 1..made
        BY <2>1 DEF Usable, Types
      <3> QED BY <2>1, <3>1, UsableStays DEF IInv
    <2> QED BY <2>1
  <1> DEFINE g == [t \in V |-> f[t]]
  <1>3. g \in [V -> Launches] /\ \A t \in V : g[t] = f[t]
    BY <1>1, <1>2 DEF Accounts
  <1>4. \A t, u \in V : g[t] = g[u] => t = u
    BY <1>1, <1>2, <1>3 DEF Accounts
  <1>5. \A t \in V : Finds(launch'[g[t]], t)
    BY <1>1, <1>2, <1>3 DEF Accounts
  <1> HIDE DEF g
  <1> QED BY <1>3, <1>4, <1>5 DEF Shared, Accounts

-----------------------------------------------------------------------------
(* The steps of a launch *)

LEMMA MinimumFacts ==
  ASSUME NEW S \in SUBSET Nat, S # {}
  PROVE  Minimum(S) \in S
  <1>1. \E x \in S : \A y \in S : <<y, x>> \notin OpToRel(<, Nat)
    BY NatLessThanWellFounded, WFMin
  <1>2. PICK x \in S : \A y \in S : <<y, x>> \notin OpToRel(<, Nat)
    BY <1>1
  <1>3. \A y \in S : x <= y
    <2>1. ASSUME NEW y \in S PROVE x <= y
      <3>1. x \in Nat /\ y \in Nat
        OBVIOUS
      <3>2. ~(y < x)
        BY <1>2, <3>1 DEF OpToRel
      <3> QED BY SMTT(90), <3>1, <3>2
    <2> QED BY <2>1
  <1> QED BY <1>3 DEF Minimum

\* A step of one launch that leaves the tokens alone.
LEMMA LaunchMoves ==
  ASSUME IInv, NEW l \in Launches, NEW r \in LaunchState, Set(l, r),
         UNCHANGED <<now, tokens, made, bindings, ctl, armed, cluster>>,
         failures' \in 0..MaxFailures,
         Copy(r.listed), Handed(r), Tainted(r),
         r.pc = "choose" => r.listed = tokens,
         r.pc = "create" => launch[l].pc = "choose" /\ Usable(launch[l].listed, now) = {}
  PROVE  IInv'
  <1>1. /\ launch \in [Launches -> LaunchState] /\ launch' = [launch EXCEPT ![l] = r]
    BY DEF Set, IInv, Types
  <1>2. /\ launch' \in [Launches -> LaunchState]
        /\ launch'[l] = r /\ \A k \in Launches : k # l => launch'[k] = launch[k]
    BY <1>1
  <1>3. Types'
    BY <1>2 DEF IInv, Types
  <1>4. \A k \in Launches : Handed(launch[k])' /\ Tainted(launch[k])'
    BY <1>2 DEF IInv, Handed, Tainted
  <1>5. Copies'
    BY SMTT(90), <1>2 DEF IInv, Copies, Copy
  <1>6. Shared'
    <2> DEFINE U == Usable(tokens, now)
    <2>1. PICK f : Accounts(f, U)
      BY DEF IInv, Shared
    <2>2. ASSUME NEW t \in U, f[t] = l
          PROVE  Finds(r, t)
      <3>1. t \in DOMAIN tokens /\ now < tokens[t] - Renew
        BY DEF Usable
      <3>2. r.pc # "create"
        <4>1. SUFFICES ASSUME r.pc = "create" PROVE FALSE
          OBVIOUS
        <4>2. launch[l].pc = "choose" /\ Usable(launch[l].listed, now) = {}
          BY <4>1
        <4>3. t \in DOMAIN launch[l].listed
          BY <2>1, <2>2, <4>2 DEF Accounts, Finds
        <4>4. tokens[t] = launch[l].listed[t]
          BY <3>1, <4>3 DEF IInv, Copies, Copy
        <4> QED BY <3>1, <4>2, <4>3, <4>4 DEF Usable
      <3> QED BY <3>1, <3>2 DEF Finds
    <2>3. \A t \in U : Finds(launch'[f[t]], t)
      BY <1>2, <2>1, <2>2 DEF Accounts
    <2>4. U' = U
      BY DEF Usable
    <2> HIDE DEF U
    <2>5. Accounts(f, U)'
      BY <2>1, <2>3, <2>4 DEF Accounts
    <2> QED BY <2>5 DEF Shared, U
  <1> QED BY <1>3, <1>4, <1>5, <1>6 DEF IInv

LEMMA LaunchGivesUp ==
  ASSUME IInv, NEW l \in Launches, GiveUp(l),
         UNCHANGED <<now, tokens, made, bindings, ctl, armed, cluster>>,
         failures' \in 0..MaxFailures
  PROVE  IInv'
  <1>1. Copy(NotStarted.listed) /\ Handed(NotStarted) /\ Tainted(NotStarted)
    <2>1. 0 <= made
      BY SMTT(90) DEF IInv, Types
    <2> QED BY <2>1, NotStartedFacts, EmptyListing DEF Copy, Handed, Tainted
  <1> QED BY <1>1, NotStartedFacts, LaunchMoves DEF GiveUp

LEMMA Failing ==
  ASSUME IInv, Fail \/ UNCHANGED failures
  PROVE  failures' \in 0..MaxFailures
  BY SMTT(90), Constants DEF IInv, Types, Fail

LEMMA FindEndpointInv ==
  ASSUME IInv, NEW l \in Launches, FindEndpoint(l)
  PROVE  IInv'
  <1>1. /\ UNCHANGED <<now, tokens, made, bindings, ctl, armed, cluster>>
        /\ failures' \in 0..MaxFailures
    BY Failing DEF FindEndpoint
  <1>2. CASE GiveUp(l)
    BY <1>1, <1>2, LaunchGivesUp
  <1> DEFINE e == IF cluster.override THEN "override" ELSE GetInternalAPIServerEndpoint
             r == [NotStarted EXCEPT !.pc = "list", !.data.endpoint = e]
  <1>3. CASE Set(l, r)
    <2>1. e \in {"", "override", "kubeadm", "info", "client"}
      BY DEF GetInternalAPIServerEndpoint
    <2> HIDE DEF e
    <2>2. NotStarted \in LaunchState
      BY NotStartedFacts
    <2>3. [NotStarted.data EXCEPT !.endpoint = e] \in UserData
      BY <2>1, NotStartedFacts DEF UserData
    <2>4. /\ r \in LaunchState /\ r.pc = "list" /\ r.token = NotStarted.token
          /\ r.listed = NotStarted.listed
      BY <2>2, <2>3 DEF LaunchState, Steps
    <2> HIDE DEF r
    <2>5. 0 <= made
      BY SMTT(90) DEF IInv, Types
    <2>6. Copy(r.listed) /\ Handed(r) /\ Tainted(r)
      BY <2>4, <2>5, NotStartedFacts, EmptyListing DEF Copy, Handed, Tainted
    <2> QED BY <1>1, <1>3, <2>4, <2>6, LaunchMoves
  <1> QED BY <1>2, <1>3 DEF FindEndpoint

LEMMA ListTokensInv ==
  ASSUME IInv, NEW l \in Launches, ListTokens(l)
  PROVE  IInv'
  <1>1. /\ UNCHANGED <<now, tokens, made, bindings, ctl, armed, cluster>>
        /\ failures' \in 0..MaxFailures
    BY Failing DEF ListTokens
  <1>2. CASE GiveUp(l)
    BY <1>1, <1>2, LaunchGivesUp
  <1> DEFINE r == [launch[l] EXCEPT !.pc = "choose", !.listed = tokens]
  <1>3. CASE Set(l, r)
    <2>1. launch[l] \in LaunchState /\ tokens \in Listing /\ launch[l].token <= made
      BY DEF IInv, Types, Handed
    <2>2. r \in LaunchState /\ r.pc = "choose" /\ r.token = launch[l].token /\ r.listed = tokens
      BY <2>1 DEF LaunchState, Steps
    <2> HIDE DEF r
    <2>3. Copy(tokens)
      BY DEF IInv, Types, Copy
    <2>4. Handed(r) /\ Tainted(r)
      BY <2>1, <2>2 DEF Handed, Tainted
    <2> QED BY <1>1, <1>3, <2>2, <2>3, <2>4, LaunchMoves
  <1> QED BY <1>2, <1>3 DEF ListTokens

LEMMA FindOrCreateBootstrapTokenInv ==
  ASSUME IInv, NEW l \in Launches, FindOrCreateBootstrapToken(l)
  PROVE  IInv'
  <1> DEFINE valid == Usable(launch[l].listed, now)
             t == Minimum(valid)
             c == [launch[l] EXCEPT !.pc = "create", !.listed = <<>>]
             r == [launch[l] EXCEPT !.pc = "gather", !.listed = <<>>, !.token = t, !.since = now]
  <1>1. /\ UNCHANGED <<now, tokens, made, bindings, ctl, armed, cluster>>
        /\ failures' \in 0..MaxFailures /\ launch[l].pc = "choose"
    BY Failing DEF FindOrCreateBootstrapToken
  <1>2. launch[l] \in LaunchState /\ now \in Nat /\ launch[l].token <= made
    BY SMTT(90) DEF IInv, Types, Handed
  <1>3. launch[l].listed \in Listing
    BY <1>2 DEF LaunchState
  <1>4. \/ valid = {} /\ Set(l, c)
        \/ valid # {} /\ Set(l, r)
    BY DEF FindOrCreateBootstrapToken
  <1>5. CASE valid = {} /\ Set(l, c)
    <2>1. c \in LaunchState /\ c.pc = "create" /\ c.token = launch[l].token /\ c.listed = <<>>
      BY <1>2, EmptyListing DEF LaunchState, Steps
    <2> HIDE DEF c
    <2>2. Copy(c.listed) /\ Handed(c) /\ Tainted(c)
      BY <1>2, <2>1, EmptyListing DEF Copy, Handed, Tainted
    <2> QED BY <1>1, <1>5, <2>1, <2>2, LaunchMoves
  <1>6. CASE valid # {} /\ Set(l, r)
    <2>1. valid \in SUBSET Nat
      BY <1>3, ListingFacts DEF Usable
    <2>2. t \in valid
      BY <1>6, <2>1, MinimumFacts
    <2>3. t \in DOMAIN launch[l].listed /\ now < launch[l].listed[t] - Renew
      BY <2>2 DEF Usable
    <2>4. launch[l].listed[t] \in Nat /\ t \in Nat
      BY <1>3, <2>3, ListingFacts
    <2>5. now <= launch[l].listed[t] /\ now + Renew < launch[l].listed[t]
      BY SMTT(90), <1>2, <2>3, <2>4, Constants
    <2>6. t \in 1..made /\ t \in DOMAIN tokens /\ tokens[t] = launch[l].listed[t]
      BY <2>3, <2>5 DEF IInv, Copies, Copy
    <2> HIDE DEF t
    <2>7. r \in LaunchState /\ r.pc = "gather" /\ r.token = t /\ r.since = now /\ r.listed = <<>>
      BY <1>2, <2>4, EmptyListing DEF LaunchState, Steps
    <2> HIDE DEF r
    <2>8. made \in Nat
      BY SMTT(90) DEF IInv, Types
    <2>9. t <= made /\ t # 0 /\ now <= now
      BY SMTT(90), <1>2, <2>6, <2>8
    <2>10. Handed(r)
      BY <2>5, <2>6, <2>7, <2>9 DEF Handed
    <2>11. Copy(r.listed) /\ Tainted(r)
      BY <2>7, EmptyListing DEF Copy, Tainted
    <2> QED BY <1>1, <1>6, <2>7, <2>10, <2>11, LaunchMoves
  <1> QED BY <1>4, <1>5, <1>6

\* A token is made: it is accounted to the launch that makes it, to which no
\* other token is.
LEMMA GenerateBootstrapTokenInv ==
  ASSUME IInv, NEW l \in Launches, GenerateBootstrapToken(l)
  PROVE  IInv'
  <1> DEFINE n == made + 1
             r == [launch[l] EXCEPT !.pc = "gather", !.token = n, !.since = now]
  <1>1. CASE GiveUp(l) /\ UNCHANGED <<tokens, made, armed>> /\ Fail
    <2>1. UNCHANGED <<now, tokens, made, bindings, ctl, armed, cluster>>
      BY <1>1 DEF GenerateBootstrapToken
    <2> QED BY <1>1, <2>1, Failing, LaunchGivesUp
  <1>2. ASSUME /\ made < MaxTokens /\ made' = n
               /\ tokens' = [t \in DOMAIN tokens \cup {n} |-> IF t = n THEN now + TTL ELSE tokens[t]]
               /\ armed' = TRUE /\ Set(l, r) /\ UNCHANGED failures
        PROVE  IInv'
    <2>1. /\ UNCHANGED <<now, bindings, ctl, cluster>> /\ launch[l].pc = "create"
      BY DEF GenerateBootstrapToken
    <2>2. /\ launch[l] \in LaunchState /\ now \in 0..MaxTime /\ now \in Nat
          /\ made \in Nat /\ n \in Nat /\ tokens \in Listing /\ DOMAIN tokens \subseteq 1..made
          /\ n \in 0..MaxTokens /\ n > 0 /\ n \notin 1..made /\ 1..made \subseteq 1..n /\ n \in 1..n
          /\ now + TTL \in 0..(MaxTime + TTL) /\ now + TTL \in Nat /\ made <= n /\ n # 0
      BY SMTT(90), <1>2, Constants DEF IInv, Types
    <2>3. /\ DOMAIN tokens' = DOMAIN tokens \cup {n} /\ tokens'[n] = now + TTL
          /\ \A t \in DOMAIN tokens : tokens'[t] = tokens[t]
      BY <1>2, <2>2
    <2>4. tokens' \in Listing
      <3>1. tokens' \in [DOMAIN tokens \cup {n} -> Nat] /\ DOMAIN tokens \cup {n} \in SUBSET Nat
        BY <1>2, <2>2, ListingFacts
      <3> QED BY <3>1, IsListing
    <2> HIDE DEF n
    <2>5. r \in LaunchState /\ r.pc = "gather" /\ r.token = n /\ r.since = now
          /\ r.listed = launch[l].listed
      BY <2>2 DEF LaunchState, Steps
    <2> HIDE DEF r
    <2>6. /\ launch' \in [Launches -> LaunchState]
          /\ launch'[l] = r /\ \A k \in Launches : k # l => launch'[k] = launch[k]
      BY <1>2, <2>5 DEF Set, IInv, Types
    <2>7. Types'
      <3>1. /\ made' \in 0..MaxTokens /\ DOMAIN tokens' \subseteq 1..made'
            /\ \A t \in DOMAIN tokens' : tokens'[t] \in 0..(MaxTime + TTL)
        BY <1>2, <2>2, <2>3 DEF IInv, Types
      <3> QED BY <1>2, <2>1, <2>4, <2>6, <3>1 DEF IInv, Types
    <2>8. Later
      <3>1. now <= now' /\ made <= made'
        BY SMTT(90), <1>2, <2>1, <2>2
      <3> QED BY <2>2, <2>3, <3>1 DEF Later
    <2>9. \A k \in Launches : Copy(launch[k].listed)'
      <3>1. ASSUME NEW k \in Launches
            PROVE  launch'[k].listed = launch[k].listed /\ launch[k].listed \in Listing
                   /\ Copy(launch[k].listed)
        BY <2>5, <2>6 DEF IInv, Types, LaunchState, Copies
      <3> QED BY <2>7, <2>8, <3>1, CopyStays DEF IInv
    <2>10. Copies'
      <3>1. ctl.listed \in Listing /\ ctl' = ctl /\ Copy(ctl.listed)
        BY <2>1 DEF IInv, Types, Copies
      <3>2. Copy(ctl.listed)'
        BY <2>7, <2>8, <3>1, CopyStays DEF IInv
      <3> QED BY <2>9, <3>2 DEF Copies
    <2>11. \A k \in Launches : Handed(launch[k])' /\ Tainted(launch[k])'
      <3>1. now + Renew < now + TTL /\ n <= n /\ now <= now
        BY SMTT(90), <2>2, Constants
      <3>2. Handed(launch[l])' /\ Tainted(launch[l])'
        BY <1>2, <2>1, <2>2, <2>3, <2>5, <2>6, <3>1 DEF Handed, Tainted
      <3>3. ASSUME NEW k \in Launches, k # l
            PROVE  Handed(launch[k])' /\ Tainted(launch[k])'
        <4>1. launch'[k] = launch[k] /\ launch[k] \in LaunchState /\ Handed(launch[k]) /\ Tainted(launch[k])
          BY <2>6, <3>3 DEF IInv, Types
        <4> QED BY <2>7, <2>8, <4>1, HandedStays DEF IInv, Tainted
      <3> QED BY <3>2, <3>3
    <2>12. Shared'
      <3> DEFINE U == Usable(tokens, now)
      <3>1. PICK f : Accounts(f, U)
        BY DEF IInv, Shared
      <3>2. \A t \in Usable(tokens, now)' : t = n \/ t \in U
        <4>1. ASSUME NEW t \in Usable(tokens, now)', t # n
              PROVE  t \in U
          <5>1. t \in DOMAIN tokens /\ t \in 1..made
            BY <2>2, <2>3, <4>1 DEF Usable
          <5> QED BY <2>7, <2>8, <4>1, <5>1, UsableStays DEF IInv
        <4> QED BY <4>1
      <3>3. \A t \in U : f[t] \in Launches /\ f[t] # l /\ t # n
        BY <2>1, <2>2, <3>1 DEF Accounts, Finds, Usable
      <3> DEFINE V == Usable(tokens, now)'
                 g == [t \in V |-> IF t = n THEN l ELSE f[t]]
      <3>4. g \in [V -> Launches] /\ \A t \in V : g[t] = IF t = n THEN l ELSE f[t]
        BY <3>2, <3>3
      <3> HIDE DEF g
      <3>5. \A t, u \in V : g[t] = g[u] => t = u
        BY <3>1, <3>2, <3>3, <3>4 DEF Accounts
      <3>6. ASSUME NEW t \in V PROVE Finds(launch'[g[t]], t)
        <4>1. CASE t = n
          BY <2>5, <2>6, <3>4, <4>1 DEF Finds
        <4>2. CASE t # n
          BY <2>6, <3>1, <3>2, <3>3, <3>4, <4>2 DEF Accounts
        <4> QED BY <4>1, <4>2
      <3> QED BY <3>4, <3>5, <3>6 DEF Shared, Accounts
    <2> QED BY <2>7, <2>10, <2>11, <2>12 DEF IInv
  <1> QED BY <1>1, <1>2 DEF GenerateBootstrapToken

LEMMA GetUserDataInv ==
  ASSUME IInv, NEW l \in Launches, GetUserData(l)
  PROVE  IInv'
  <1>1. /\ UNCHANGED <<now, tokens, made, bindings, ctl, armed, cluster>> /\ launch[l].pc = "gather"
        /\ launch[l] \in LaunchState /\ Handed(launch[l]) /\ Copy(launch[l].listed)
    BY DEF GetUserData, IInv, Types, Copies
  <1>2. PICK cniFails, archFails, claimFails, others \in BOOLEAN :
          LET failed == Cardinality({f \in {<<1, cniFails>>, <<2, archFails>>, <<3, claimFails>>} : f[2]})
              r == [launch[l] EXCEPT !.pc = "booting", !.data = Options(@, ~claimFails)]
          IN  /\ failures + failed <= MaxFailures
              /\ failures' = failures + failed
              /\ Set(l, r) \/ GiveUp(l)
    BY DEF GetUserData
  <1> DEFINE S == {f \in {<<1, cniFails>>, <<2, archFails>>, <<3, claimFails>>} : f[2]}
             r == [launch[l] EXCEPT !.pc = "booting", !.data = Options(@, ~claimFails)]
  <1>3. failures' \in 0..MaxFailures
    <2>1. IsFiniteSet({<<1, cniFails>>} \cup {<<2, archFails>>} \cup {<<3, claimFails>>})
      BY FS_Singleton, FS_Union
    <2>2. S \in SUBSET ({<<1, cniFails>>} \cup {<<2, archFails>>} \cup {<<3, claimFails>>})
      OBVIOUS
    <2>3. IsFiniteSet(S)
      BY <2>1, <2>2, FS_Subset
    <2>4. Cardinality(S) \in Nat
      BY <2>3, FS_CardinalityType
    <2>5. failures + Cardinality(S) <= MaxFailures /\ failures' = failures + Cardinality(S)
      BY <1>2
    <2> HIDE DEF S
    <2> QED BY SMTT(90), <2>4, <2>5, Constants DEF IInv, Types
  <1>4. CASE GiveUp(l)
    BY <1>1, <1>3, <1>4, LaunchGivesUp
  <1>5. CASE Set(l, r)
    <2>1. launch[l].data \in UserData
      BY <1>1 DEF LaunchState
    <2>2. Options(launch[l].data, ~claimFails) \in UserData
          /\ Options(launch[l].data, ~claimFails).unregistered
      BY <2>1 DEF Options, UserData
    <2>3. /\ r \in LaunchState /\ r.pc = "booting" /\ r.token = launch[l].token
          /\ r.since = launch[l].since /\ r.listed = launch[l].listed /\ r.data.unregistered
      BY <1>1, <2>2 DEF LaunchState, Steps
    <2> HIDE DEF r
    <2>4. Handed(r) /\ Tainted(r) /\ Copy(r.listed)
      BY <1>1, <2>3 DEF Handed, Tainted
    <2> QED BY <1>1, <1>3, <1>5, <2>3, <2>4, LaunchMoves
  <1> QED BY <1>2, <1>4, <1>5

LEMMA JoinInv ==
  ASSUME IInv, NEW l \in Launches, Join(l) \/ CoreRegisters(l) \/ Leave(l)
  PROVE  IInv'
  <1>1. /\ UNCHANGED <<now, tokens, made, bindings, ctl, armed, cluster>>
        /\ failures' \in 0..MaxFailures /\ made \in Nat
        /\ launch[l] \in LaunchState /\ Handed(launch[l]) /\ Tainted(launch[l]) /\ Copy(launch[l].listed)
    BY SMTT(90), Failing DEF Join, CoreRegisters, Leave, IInv, Types, Copies
  <1>2. CASE Leave(l)
    BY <1>1, <1>2, LaunchGivesUp DEF Leave
  <1>3. CASE Join(l)
    <2> DEFINE r == [launch[l] EXCEPT !.pc = "joined", !.token = 0, !.since = 0]
    <2>1. Set(l, r) /\ launch[l].pc = "booting"
      BY <1>3 DEF Join
    <2>2. /\ r \in LaunchState /\ r.pc = "joined" /\ r.token = 0
          /\ r.listed = launch[l].listed /\ r.data = launch[l].data
      BY <1>1 DEF LaunchState, Steps
    <2> HIDE DEF r
    <2>3. 0 <= made
      BY SMTT(90), <1>1
    <2>4. Handed(r) /\ Tainted(r) /\ Copy(r.listed)
      BY <1>1, <2>1, <2>2, <2>3 DEF Handed, Tainted
    <2> QED BY <1>1, <2>1, <2>2, <2>4, LaunchMoves
  <1>4. CASE CoreRegisters(l)
    <2> DEFINE r == [launch[l] EXCEPT !.pc = "registered", !.data.taints = TRUE,
                                      !.data.unregistered = FALSE]
               d == [launch[l].data EXCEPT !.taints = TRUE, !.unregistered = FALSE]
    <2>1. Set(l, r)
      BY <1>4 DEF CoreRegisters
    <2>2. d \in UserData /\ d.taints = TRUE
      BY <1>1 DEF LaunchState, UserData
    <2>3. r = [launch[l] EXCEPT !.pc = "registered", !.data = d]
      BY <1>1 DEF LaunchState, UserData
    <2> HIDE DEF d, r
    <2>4. /\ r \in LaunchState /\ r.pc = "registered" /\ r.token = launch[l].token
          /\ r.listed = launch[l].listed /\ r.data = d
      BY <1>1, <2>2, <2>3 DEF LaunchState, Steps
    <2>5. Handed(r) /\ Tainted(r) /\ Copy(r.listed)
      BY <1>1, <2>2, <2>4 DEF Handed, Tainted
    <2> QED BY <1>1, <2>1, <2>4, <2>5, LaunchMoves
  <1> QED BY <1>2, <1>3, <1>4

-----------------------------------------------------------------------------
(* The token controller and time *)

\* The tokens age or go, and the launches stay.
LEMMA TokensAge ==
  ASSUME IInv, Types', Later, UNCHANGED <<made, launch>>, Copy(ctl.listed)'
  PROVE  IInv'
  <1>1. ASSUME NEW l \in Launches
        PROVE  /\ launch[l] \in LaunchState /\ launch[l].listed \in Listing
               /\ Copy(launch[l].listed) /\ Handed(launch[l]) /\ Tainted(launch[l])
    BY DEF IInv, Types, LaunchState, Copies
  <1>2. \A l \in Launches : Copy(launch[l].listed)'
    BY <1>1, CopyStays DEF IInv
  <1>3. \A l \in Launches : Handed(launch[l])'
    BY <1>1, HandedStays DEF IInv
  <1>4. \A l \in Launches : Tainted(launch[l])'
    BY <1>1 DEF Tainted
  <1> QED BY <1>2, <1>3, <1>4, SharedStays DEF IInv, Copies

LEMMA StaysLater ==
  ASSUME Types, UNCHANGED <<now, made, tokens>>
  PROVE  Later
  BY SMTT(90) DEF Types, Later

LEMMA BindingFacts == \A n \in 0..(Len(BindingOrder) - 1) : First(n) \subseteq Bindings
  BY SMTT(90) DEF First, Bindings, BindingOrder

LEMMA RBACInv ==
  ASSUME IInv, ensureBootstrapRBAC \/ DropBinding
  PROVE  IInv'
  <1>1. bindings' \subseteq Bindings
    BY BindingFacts DEF ensureBootstrapRBAC, DropBinding, IInv, Types
  <1>2. UNCHANGED <<now, tokens, made, launch, armed, cluster>>
    BY DEF ensureBootstrapRBAC, DropBinding
  <1>3. ctl' \in [pc : {"idle", "list", "clean"}, listed : Listing] /\ ctl'.listed = ctl.listed
    BY DEF ensureBootstrapRBAC, DropBinding, IInv, Types
  <1>4. failures' \in 0..MaxFailures
    BY Failing DEF ensureBootstrapRBAC, DropBinding
  <1>5. Types'
    BY <1>1, <1>2, <1>3, <1>4 DEF IInv, Types
  <1>6. Copy(ctl.listed)'
    BY <1>2, <1>3 DEF IInv, Copies, Copy
  <1> QED BY <1>2, <1>5, <1>6, StaysLater, TokensAge DEF IInv

LEMMA ListForCleanupInv ==
  ASSUME IInv, ListForCleanup
  PROVE  IInv'
  <1>1. UNCHANGED <<now, tokens, made, launch, bindings, armed, cluster>>
        /\ failures' \in 0..MaxFailures
    BY Failing DEF ListForCleanup
  <1>2. /\ ctl' \in [pc : {"idle", "list", "clean"}, listed : Listing]
        /\ ctl'.listed \in {tokens, ctl.listed}
    BY DEF ListForCleanup, IInv, Types
  <1>3. Types'
    BY <1>1, <1>2 DEF IInv, Types
  <1>4. Copy(tokens) /\ Copy(ctl.listed)
    BY DEF IInv, Types, Copies, Copy
  <1>5. Copy(ctl.listed)'
    BY <1>1, <1>2, <1>4 DEF Copy
  <1> QED BY <1>1, <1>3, <1>5, StaysLater, TokensAge DEF IInv

\* Only a token that has expired is deleted, also by an old listing.
LEMMA cleanupExpiredTokensInv ==
  ASSUME IInv, cleanupExpiredTokens
  PROVE  IInv'
  <1> DEFINE t == Minimum(DOMAIN ctl.listed)
             Ctl == [pc : {"idle", "list", "clean"}, listed : Listing]
  <1>1. /\ UNCHANGED <<now, made, launch, bindings, armed, cluster>> /\ failures' \in 0..MaxFailures
        /\ ctl \in Ctl /\ ctl.listed \in Listing /\ Copy(ctl.listed) /\ tokens \in Listing
    BY Failing DEF cleanupExpiredTokens, IInv, Types, Copies
  <1>2. \/ ctl' = [ctl EXCEPT !.pc = "idle"] /\ UNCHANGED tokens
        \/ ctl' = [ctl EXCEPT !.listed = Without(@, t)] /\ UNCHANGED tokens
        \/ /\ ctl' = [ctl EXCEPT !.listed = Without(@, t)] /\ tokens' = Without(tokens, t)
           /\ t \in Expired(ctl.listed, now)
    BY DEF cleanupExpiredTokens
  <1> HIDE DEF t
  <1>3. /\ ctl' \in Ctl /\ DOMAIN ctl'.listed \subseteq DOMAIN ctl.listed
        /\ \A u \in DOMAIN ctl'.listed : ctl'.listed[u] = ctl.listed[u]
    <2>1. CASE ctl' = [ctl EXCEPT !.pc = "idle"]
      BY <1>1, <2>1
    <2>2. CASE ctl' = [ctl EXCEPT !.listed = Without(@, t)]
      <3>1. Without(ctl.listed, t) \in Listing
        BY <1>1, WithoutFacts
      <3>2. ctl' \in Ctl /\ ctl'.listed = Without(ctl.listed, t)
        BY <1>1, <2>2, <3>1
      <3>3. /\ DOMAIN Without(ctl.listed, t) = DOMAIN ctl.listed \ {t}
            /\ \A u \in DOMAIN ctl.listed \ {t} : Without(ctl.listed, t)[u] = ctl.listed[u]
        BY <1>1, WithoutFacts
      <3> QED BY <3>2, <3>3
    <2> QED BY <1>2, <2>1, <2>2
  <1>4. /\ tokens' \in Listing /\ DOMAIN tokens' \subseteq DOMAIN tokens
        /\ \A u \in DOMAIN tokens' : tokens'[u] = tokens[u]
        /\ \A u \in DOMAIN tokens : u \notin DOMAIN tokens' => tokens[u] < now
    <2>1. CASE UNCHANGED tokens
      BY <1>1, <2>1
    <2>2. CASE tokens' = Without(tokens, t) /\ t \in Expired(ctl.listed, now)
      <3>1. /\ tokens' \in Listing /\ DOMAIN tokens' = DOMAIN tokens \ {t}
            /\ \A u \in DOMAIN tokens' : tokens'[u] = tokens[u]
        BY <1>1, <2>2, WithoutFacts
      <3>2. t \in DOMAIN ctl.listed /\ now > ctl.listed[t]
        BY <2>2 DEF Expired
      <3>3. t \in DOMAIN tokens => tokens[t] = ctl.listed[t]
        BY <1>1, <3>2 DEF Copy
      <3>4. ctl.listed[t] < now
        BY <3>2
      <3> QED BY <3>1, <3>3, <3>4
    <2> QED BY <1>2, <2>1, <2>2
  <1>5. Types'
    <2>1. /\ DOMAIN tokens' \subseteq 1..made'
          /\ \A u \in DOMAIN tokens' : tokens'[u] \in 0..(MaxTime + TTL)
      BY <1>1, <1>4 DEF IInv, Types
    <2> QED BY <1>1, <1>3, <1>4, <2>1 DEF IInv, Types
  <1>6. Later
    <2>1. now <= now' /\ made <= made'
      BY SMTT(90), <1>1 DEF IInv, Types
    <2> QED BY <1>4, <2>1 DEF Later
  <1>7. Copy(ctl.listed)'
    <2>1. PICK f : f = ctl.listed
      OBVIOUS
    <2>2. Copy(f)'
      BY <1>1, <1>5, <1>6, <2>1, CopyStays DEF IInv
    <2> QED BY <1>3, <2>1, <2>2 DEF Copy
  <1> QED BY <1>1, <1>5, <1>6, <1>7, TokensAge

LEMMA TickInv ==
  ASSUME IInv, Tick
  PROVE  IInv'
  <1>1. /\ now' \in 0..MaxTime /\ now <= now' /\ made <= made
        /\ UNCHANGED <<tokens, made, launch, bindings, ctl, armed, cluster, failures>>
    BY SMTT(90), Constants DEF Tick, IInv, Types
  <1>2. Types' /\ Later
    BY <1>1 DEF IInv, Types, Later
  <1>3. ctl.listed \in Listing /\ Copy(ctl.listed)
    BY DEF IInv, Types, Copies
  <1>4. Copy(ctl.listed)'
    BY <1>1, <1>2, <1>3, CopyStays DEF IInv
  <1> QED BY <1>1, <1>2, <1>4, TokensAge

-----------------------------------------------------------------------------
(* The invariant holds, and implies the properties *)

LEMMA InitInv ==
  ASSUME Init
  PROVE  IInv
  <1>1. /\ now = 0 /\ tokens = <<>> /\ made = 0 /\ launch = [l \in Launches |-> NotStarted]
        /\ bindings \in SUBSET Bindings /\ ctl = [pc |-> "idle", listed |-> <<>>]
        /\ armed \in BOOLEAN /\ cluster \in Clusters /\ failures = 0
    BY DEF Init
  <1>2. Types
    <2>1. 0 \in 0..MaxTime /\ 0 \in 0..MaxTokens /\ 0 \in 0..MaxFailures /\ ~(0 > 0)
      BY SMTT(90), Constants
    <2>2. /\ launch \in [Launches -> LaunchState]
          /\ ctl \in [pc : {"idle", "list", "clean"}, listed : Listing]
      BY <1>1, NotStartedFacts, EmptyListing
    <2> QED BY <1>1, <2>1, <2>2, EmptyListing DEF Types
  <1>3. Copies
    <2>1. Copy(<<>>)
      BY EmptyListing DEF Copy
    <2>2. ctl.listed = <<>> /\ \A l \in Launches : launch[l].listed = <<>>
      BY <1>1, NotStartedFacts
    <2> QED BY <2>1, <2>2 DEF Copies
  <1>4. Shared
    <2>1. Usable(tokens, now) = {}
      BY <1>1, EmptyListing DEF Usable
    <2> DEFINE f == [t \in {} |-> t]
    <2>2. Accounts(f, {})
      BY DEF Accounts
    <2> QED BY <2>1, <2>2 DEF Shared
  <1>5. ASSUME NEW l \in Launches PROVE Handed(launch[l]) /\ Tainted(launch[l])
    <2>1. launch[l] = NotStarted /\ 0 <= made
      BY SMTT(90), <1>1
    <2> QED BY <2>1, NotStartedFacts DEF Handed, Tainted
  <1> QED BY <1>2, <1>3, <1>4, <1>5 DEF IInv

LEMMA StutterInv ==
  ASSUME IInv, UNCHANGED vars
  PROVE  IInv'
  <1>1. Types' /\ UNCHANGED <<now, made, tokens, launch>>
    BY DEF IInv, Types, vars
  <1>2. Copy(ctl.listed)'
    BY DEF IInv, Copies, Copy, vars
  <1> QED BY <1>1, <1>2, StaysLater, TokensAge DEF IInv

LEMMA NextInv ==
  ASSUME IInv, [Next]_vars
  PROVE  IInv'
  <1>1. ASSUME NEW l \in Launches, Create(l)
        PROVE  IInv'
    BY <1>1, ListTokensInv, FindOrCreateBootstrapTokenInv, GenerateBootstrapTokenInv, GetUserDataInv
       DEF Create
  <1>2. CASE Controller
    BY <1>2, RBACInv, ListForCleanupInv, cleanupExpiredTokensInv DEF Controller
  <1> QED BY <1>1, <1>2, FindEndpointInv, JoinInv, RBACInv, TickInv, StutterInv DEF Next

LEMMA InvSafe ==
  ASSUME IInv
  PROVE  BootIsSafe
  <1>1. Types /\ \A l \in Launches : /\ launch[l] \in LaunchState
                                     /\ Handed(launch[l]) /\ Tainted(launch[l])
    BY DEF IInv, Types
  <1>2. TypeOK
    <2>1. ASSUME NEW l \in Launches
          PROVE  /\ launch[l].pc \in Steps /\ launch[l].token \in 0..made /\ launch[l].data \in UserData
                 /\ launch[l].pc \in {"gather", "booting"} => launch[l].token # 0
      <3>1. launch[l].token \in Nat /\ launch[l].token <= made /\ made \in Nat
        BY SMTT(90), <1>1 DEF Types, LaunchState, Handed
      <3>2. launch[l].token \in 0..made
        BY SMTT(90), <3>1
      <3> QED BY <1>1, <3>2 DEF LaunchState, Handed
    <2> QED BY <1>1, <2>1 DEF TypeOK, Types
  <1>3. TokenOutlivesBoot
    <2>1. ASSUME NEW l \in Launches, launch[l].pc \in {"gather", "booting"},
                 now <= launch[l].since + Renew
          PROVE  launch[l].token \in DOMAIN tokens /\ now <= tokens[launch[l].token]
      <3>1. launch[l].token \in DOMAIN tokens /\ launch[l].since + Renew < tokens[launch[l].token]
        BY <1>1, <2>1 DEF Handed
      <3>2. now \in Nat /\ launch[l].since \in Nat /\ Renew \in Nat /\ tokens[launch[l].token] \in Nat
        BY SMTT(90), <1>1, <3>1, Constants, ListingFacts DEF Types, LaunchState
      <3> QED BY SMTT(90), <2>1, <3>1, <3>2
    <2> QED BY <2>1 DEF TokenOutlivesBoot
  <1>4. TokensAreShared
    <2> DEFINE U == Usable(tokens, now)
    <2>1. PICK f : Accounts(f, U)
      BY DEF IInv, Shared
    <2>2. f \in Injection(U, Launches)
      BY <2>1 DEF Accounts, Injection, IsInjective
    <2>3. Cardinality(U) <= Cardinality(Launches)
      BY <2>2, Constants, FS_Injection
    <2> QED BY <2>3 DEF TokensAreShared
  <1>5. TaintedUntilRegistered
    BY <1>1 DEF Tainted, TaintedUntilRegistered
  <1> QED BY <1>2, <1>3, <1>4, <1>5 DEF BootIsSafe

\* What a booting instance was given serves it, for any number of launches and
\* any life of tokens longer than the time of renewal: the token that
\* FindOrCreateBootstrapToken handed out is stored and valid for the time of
\* renewal although cleanupExpiredTokens works on old listings, there are never
\* more tokens to hand out than launches, and no Node loses the unregistered
\* taint before core has put the taints of its claim on it.
THEOREM BootingIsSafe == Spec => []BootIsSafe
  <1>1. Init => IInv
    BY InitInv
  <1>2. IInv /\ [Next]_vars => IInv'
    BY NextInv
  <1>3. IInv => BootIsSafe
    BY InvSafe
  <1> QED BY <1>1, <1>2, <1>3, PTL DEF Spec

=============================================================================
