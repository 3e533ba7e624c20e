------------------------------- MODULE Access -------------------------------
(***************************************************************************)
(* Who a caller is and what a caller may do: the token verifier            *)
(* (internal/access/oidc), with the limiter that paces the refetches of    *)
(* the identity provider's key set, and the role policy                    *)
(* (internal/access/access.go).                                            *)
(*                                                                         *)
(* A name is the sequence of its parts between separators, so "a.b.t" is   *)
(* <<"a", "b", "t">>; a part with a space in it is padded.  Time is kept   *)
(* as ages that stop growing at the limiter's interval, which is all the   *)
(* code compares them with.                                                *)
(***************************************************************************)
EXTENDS Naturals, Sequences, SequencesExt, FiniteSets

CONSTANTS Clients, Keys,
          Tokens,       \* the bearer tokens clients may present
          Configs,      \* verifier configurations an operator may write
          Policies,     \* the [[roles]] and [group_to_role] an operator may write
          Advertised,   \* the tools the gateway serves
          RefetchInterval,     \* jwksRefetchInterval, in ticks
          MaxRotations  \* bound: how often the identity provider changes its keys

ASSUME IntervalAssumption == RefetchInterval \in Nat

\* A name has a part, if only an empty one.
ASSUME NamesAssumption ==
    /\ \A tool \in Advertised : tool \in Seq(STRING) \ {<< >>}
    /\ \A p \in Policies : \A i \in DOMAIN p.roles :
         DOMAIN p.roles[i].grants \subseteq Seq(STRING) \ {<< >>}

VARIABLES config,       \* the verifier's configuration
          published,    \* the key set the identity provider serves
          retired,      \* keys it has served and withdrawn
          cached,       \* the verifier's cached key set
          fetch,        \* the request for the key set in flight
          age,          \* time since refetchLimiter.last
          idle,         \* time since a request last reached the identity provider
          req,          \* each client's request
          policy        \* the policy in force

accessVars == <<config, published, retired, cached, fetch, age, idle, req, policy>>

NoReq == [phase |-> "none"]
NoFetch == [on |-> FALSE, keys |-> {}]
EmptyPolicy == [roles |-> << >>, mapping |-> << >>]

----------------------------------------------------------------------------
(* Names.                                                                  *)

GrantAll == <<"*">>
\* The padded parts, and what strings.TrimSpace leaves of each.
Bare     == (" " :> "") @@ (" a" :> "a") @@ ("t " :> "t") @@ (" g1" :> "g1")
Spaced   == DOMAIN Bare
Blank(n)   == n \in {<<"">>, <<" ">>}
Clean(n)   == n[1] \notin Spaced /\ Last(n) \notin Spaced
TrimSpace(n) == [i \in DOMAIN n |-> IF n[i] \in Spaced THEN Bare[n[i]] ELSE n[i]]
HasSeparator(n) == Len(n) > 1

----------------------------------------------------------------------------
(* Roles.  Tools is a set of names, Grants a function from the name of a   *)
(* backend to the list of its tools' ids.                                  *)

AllowsExplicitly(r, tool) == tool \in r.tools

\* CutPrefix(tool, backend + "."): what follows the backend's name.
Under(backend, tool) == Len(tool) > Len(backend) /\ IsPrefix(backend, tool)
Rest(backend, tool)  == SubSeq(tool, Len(backend) + 1, Len(tool))

Allows(r, tool) ==
    \/ tool \in r.tools
    \/ \E backend \in DOMAIN r.grants :
        /\ Under(backend, tool) /\ Rest(backend, tool) # <<"">>
        /\ {GrantAll, Rest(backend, tool)} \cap ToSet(r.grants[backend]) # {}

\* Grant keys not looked at for the separator.
ValidBackendLoose(b) == ~Blank(b) /\ Clean(b) /\ b # GrantAll

ValidBackend(b) == ~Blank(b) /\ Clean(b) /\ b # GrantAll /\ ~HasSeparator(b)

ValidIds(ids) ==
    /\ GrantAll \in ToSet(ids) => Len(ids) = 1
    /\ \A i \in DOMAIN ids : ~Blank(ids[i]) /\ Clean(ids[i]) /\ ~HasSeparator(ids[i])
    /\ IsInjective(ids)

validateGrants(r) ==
    \A b \in DOMAIN r.grants : ValidBackend(b) /\ ValidIds(r.grants[b])

ValidateRole(r) ==
    /\ Clean(r.name) /\ ~Blank(r.name)
    /\ \A tool \in r.tools : Clean(tool) /\ ~Blank(tool)
    /\ validateGrants(r)

ValidateGroupName(g) == ~Blank(g) /\ Clean(g)

RoleNames(p) == {p.roles[i].name : i \in DOMAIN p.roles}

NewPolicy(p) ==
    /\ \A i \in DOMAIN p.roles : ValidateRole(p.roles[i])
    /\ \A i, j \in DOMAIN p.roles : p.roles[i].name = p.roles[j].name => i = j
    /\ \A g \in DOMAIN p.mapping : ValidateGroupName(g) /\ p.mapping[g] \in RoleNames(p)

RolesFor(p, id) ==
    {p.roles[i] : i \in {j \in DOMAIN p.roles :
        \E g \in id.groups \cap DOMAIN p.mapping : p.mapping[g] = p.roles[j].name}}

Authorize(p, id, tool) == \E r \in RolesFor(p, id) : Allows(r, tool)

\* The capability of one role with the name of another.
AuthorizeNonReadAcross(p, id, tool) ==
    /\ \E r \in RolesFor(p, id) : r.nonRead
    /\ \E r \in RolesFor(p, id) : Allows(r, tool)

AuthorizeNonRead(p, id, tool) ==
    \E r \in RolesFor(p, id) : r.nonRead /\ AllowsExplicitly(r, tool)

AllowedTools(p, id, tools) ==
    {tool \in tools : \E r \in RolesFor(p, id) : Allows(r, tool)}

----------------------------------------------------------------------------
(* The verifier.                                                           *)

Asymmetric == {"RS256", "ES256", "EdDSA"}

SigningAlgs(c) == IF c.algs = {} THEN Asymmetric ELSE c.algs

New(c) == c.issuer # "" /\ c.audience # "" /\ SigningAlgs(c) \subseteq Asymmetric

\* A verifier New accepted, before it fetched any key.
AccessInit ==
    /\ config \in {c \in Configs : New(c)}
    /\ published \in {{k} : k \in Keys} /\ retired = {} /\ cached = {}
    /\ fetch = NoFetch /\ age = RefetchInterval /\ idle = RefetchInterval
    /\ req = [c \in Clients |-> NoReq] /\ policy = EmptyPolicy

\* What the library checks before it asks for a key (external).
ClaimsHold(t) ==
    /\ t.iss = config.issuer /\ config.audience \in t.aud /\ t.live
    /\ t.alg \in SigningAlgs(config)

\* A subject of each kind that ValidateSubject refuses: blank at an end, longer
\* than maxBlockText, with a control or an invisible format character in it.
Unfit == {" ", " alice", "alice longer than maxBlockText", "al\tice", "al(U+200B)ice"}

\* The subject checks that follow a verified signature.
ValidateSubject(s) == s # "" /\ s \notin Unfit

SubjectAny(t) == t.object

SubjectHolds(t) == t.object /\ t.sub # "" /\ ValidateSubject(t.sub)

\* A groups claim that is not an array names no group; entries that are not
\* strings, or blank, are left out, and the rest are trimmed.
groupsFrom(t) ==
    IF t.groups.kind # "array" THEN {}
    ELSE {TrimSpace(g.is) : g \in {h \in t.groups.list : h.kind = "string"}} \ {<<"">>}

Identity(t) == [sub |-> t.sub, groups |-> groupsFrom(t)]

Refused(t)  == [phase |-> "refused", token |-> t]
Judged(t, keys) ==
    IF t.key \in keys /\ SubjectHolds(t)
    THEN [phase |-> "known", token |-> t, id |-> Identity(t)]
    ELSE Refused(t)

\* A request arrives: the token's shape, then the library's claim checks, then
\* the cached keys.  A token no cached key verifies waits for the key set.
Verify(c, t) ==
    /\ req[c].phase \in {"none", "known", "refused"}
    /\ req' = [req EXCEPT ![c] =
            IF ~t.compact \/ ~ClaimsHold(t) THEN Refused(t)
            ELSE IF t.key \in cached THEN Judged(t, cached)
            ELSE [phase |-> "keys", token |-> t]]
    /\ UNCHANGED <<config, published, retired, cached, fetch, age, idle, policy>>

AwaitingKeys == {c \in Clients : req[c].phase = "keys"}

\* The limiter counting what it refuses as well as what it lets through.
LimitedCounted == /\ age < RefetchInterval /\ age' = 0

Limited == /\ age < RefetchInterval /\ UNCHANGED age

\* The limiter measuring from the last fetch that worked.
TakeSlotLater == age >= RefetchInterval /\ UNCHANGED age

TakeSlot == age >= RefetchInterval /\ age' = 0

\* The first to need the key set starts the request for it; the others wait
\* for the same one (external: the library's single flight).  The limiter
\* answers for the provider inside its interval; a redirect it lets pass is
\* part of the fetch it follows.
StartFetch ==
    /\ AwaitingKeys # {} /\ ~fetch.on /\ TakeSlot
    /\ fetch' = [on |-> TRUE, keys |-> published] /\ idle' = 0
    /\ UNCHANGED <<config, published, retired, cached, req, policy>>

Resume(keys) ==
    req' = [c \in Clients |-> IF c \in AwaitingKeys THEN Judged(req[c].token, keys) ELSE req[c]]

FetchLimited ==
    /\ AwaitingKeys # {} /\ ~fetch.on /\ Limited /\ Resume({})
    /\ UNCHANGED <<config, published, retired, cached, fetch, idle, policy>>

FetchDone ==
    /\ fetch.on /\ Resume(fetch.keys) /\ cached' = fetch.keys /\ fetch' = NoFetch
    /\ UNCHANGED <<config, published, retired, age, idle, policy>>

\* A failed fetch that empties the cache.
KeptAfterErrorNot == cached' = {}

KeptAfterError == UNCHANGED cached

FetchFailed ==
    /\ fetch.on /\ Resume({}) /\ KeptAfterError /\ fetch' = NoFetch
    /\ UNCHANGED <<config, published, retired, age, idle, policy>>

\* The identity provider publishes a new key, beside the old ones or in their
\* place (external).
Rotate ==
    /\ Cardinality(retired) < MaxRotations
    /\ \E k \in Keys \ (published \union retired), keep \in SUBSET published :
        /\ published' = keep \union {k} /\ retired' = retired \union (published \ keep)
    /\ UNCHANGED <<config, cached, fetch, age, idle, req, policy>>

SlotTick ==
    /\ age < RefetchInterval \/ idle < RefetchInterval
    /\ age' = IF age < RefetchInterval THEN age + 1 ELSE age
    /\ idle' = IF idle < RefetchInterval THEN idle + 1 ELSE idle
    /\ UNCHANGED <<config, published, retired, cached, fetch, req, policy>>

\* A configuration is read: a policy NewPolicy refuses leaves the one in force.
Load(p) ==
    /\ NewPolicy(p) /\ policy' = p
    /\ UNCHANGED <<config, published, retired, cached, fetch, age, idle, req>>

AccessNext ==
    \/ \E c \in Clients, t \in Tokens : Verify(c, t)
    \/ StartFetch \/ FetchLimited \/ FetchDone \/ FetchFailed \/ Rotate \/ SlotTick
    \/ \E p \in Policies : Load(p)

\* Goroutines the runtime schedules, time, and a provider that answers some of
\* the requests that go on being made to it.
AccessFair == /\ WF_accessVars(StartFetch) /\ WF_accessVars(FetchLimited)
              /\ WF_accessVars(FetchDone \/ FetchFailed) /\ SF_accessVars(FetchDone)
              /\ WF_accessVars(SlotTick)

AccessSpec == AccessInit /\ [][AccessNext]_accessVars
AccessFairSpec == AccessSpec /\ AccessFair

----------------------------------------------------------------------------
(* Type correctness: a known caller has a subject the blocklist can name,  *)
(* however the token spelled it (oidc.go, Verify).                         *)
AccessTypeOK ==
    /\ config \in Configs /\ policy \in Policies \union {EmptyPolicy}
    /\ published \subseteq Keys /\ retired \subseteq Keys /\ cached \subseteq Keys
    /\ fetch \in [on : BOOLEAN, keys : SUBSET Keys]
    /\ age \in 0..RefetchInterval /\ idle \in 0..RefetchInterval
    /\ \A c \in Clients :
        /\ req[c].phase \in {"none", "keys", "known", "refused"}
        /\ req[c].phase = "known" => ValidateSubject(req[c].id.sub)

(* A tool granted without being named is one of the backend the grant is   *)
(* on: its first part is the key, whatever policy an operator managed to   *)
(* load (access.go, Allows and validateGrants).                            *)
GrantsStayHome ==
    \A i \in DOMAIN policy.roles, tool \in Advertised :
        Allows(policy.roles[i], tool) =>
            \/ tool \in policy.roles[i].tools
            \/ <<tool[1]>> \in DOMAIN policy.roles[i].grants

(* A caller who may change something through a tool has one role that both *)
(* names that tool and carries the capability: a wildcard, or a second     *)
(* role of the same caller, does not add up to it, and what may be changed *)
(* is also listed (access.go, AuthorizeNonRead and AllowedTools).          *)
NonReadIsNamed ==
    \A c \in Clients : req[c].phase = "known" =>
        \A tool \in Advertised : AuthorizeNonRead(policy, req[c].id, tool) =>
            /\ tool \in AllowedTools(policy, req[c].id, Advertised)
            /\ \E g \in req[c].id.groups \cap DOMAIN policy.mapping, i \in DOMAIN policy.roles :
                /\ policy.mapping[g] = policy.roles[i].name
                /\ policy.roles[i].nonRead /\ tool \in policy.roles[i].tools

(* However many tokens with unknown keys arrive, the identity provider is  *)
(* asked for its keys at most once per interval, failed requests included  *)
(* (jwks_limit.go, RoundTrip).                                             *)
FetchesPaced == [][~fetch.on /\ fetch'.on => idle >= RefetchInterval]_accessVars

(* A key the verifier knows and the provider still serves is never         *)
(* forgotten: an outage of the provider refuses no caller whose key was    *)
(* already known (oidc.go New, the key set's cache).                       *)
KnownKeysSurvive == [][cached \cap published \subseteq cached']_accessVars

(* A caller who keeps presenting a good token is let in again and again    *)
(* after the provider changed its keys, even while others keep sending     *)
(* tokens with unknown keys: what the limiter refuses does not push the    *)
(* next fetch further away (jwks_limit.go, RoundTrip).                     *)
GoodToken(t) == t.compact /\ ClaimsHold(t) /\ SubjectHolds(t)
KeyRotationIsPickedUp ==
    \A c \in Clients, t \in {u \in Tokens : u.key \in Keys /\ ValidateSubject(u.sub)} :
        (GoodToken(t) /\ <>[](t.key \in published) /\ []<>(req[c].phase = "keys" /\ req[c].token = t))
            => []<>(req[c].phase = "known")

(* A caller may do what one of its roles was written to let it do, and the *)
(* writer of a policy cannot say more than was meant (Allows,              *)
(* AuthorizeNonRead, validateGrants).                                      *)
RolesMeanWhatTheySay == AccessTypeOK /\ GrantsStayHome /\ NonReadIsNamed

(* The identity provider is asked seldom, and what it answered is kept     *)
(* (RoundTrip, the key set's cache).                                       *)
KeysAreKept == FetchesPaced /\ KnownKeysSurvive

----------------------------------------------------------------------------
(* The inductive invariant of the proofs.                                  *)

Undecided(t) == [phase |-> "keys", token |-> t]
Known(t)   == [phase |-> "known", token |-> t, id |-> Identity(t)]

AccessTypes ==
    /\ config \in Configs /\ policy \in Policies \union {EmptyPolicy}
    /\ published \subseteq Keys /\ retired \subseteq Keys /\ cached \subseteq Keys
    /\ fetch \in [on : BOOLEAN, keys : SUBSET Keys]
    /\ age \in 0..RefetchInterval /\ idle \in 0..RefetchInterval
    /\ req \in [Clients -> {NoReq} \union {Refused(t) : t \in Tokens} \union {Undecided(t) : t \in Tokens}
                             \union {Known(t) : t \in {u \in Tokens : SubjectHolds(u)}}]

\* What the verifier has or is about to get was served once, and a request in flight
\* brings back every known key that is still served.
KeysWereServed ==
    /\ cached \union fetch.keys \subseteq published \union retired
    /\ fetch.on => cached \cap published \subseteq fetch.keys

AccessInv ==
    /\ AccessTypes /\ KeysWereServed
    /\ age <= idle                                      \* every request took the limiter's slot
    /\ policy = EmptyPolicy \/ NewPolicy(policy)        \* only a valid policy is in force
=============================================================================
