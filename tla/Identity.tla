-------------------------------- MODULE Identity --------------------------------
(***************************************************************************)
(* Who a caller is: OIDCClaimNormalizer (normalizer.py) and the three      *)
(* adapters of IdentityPort - memory.py, db.py and oidc.py of              *)
(* packages/aegismind-identity.                                            *)
(*                                                                         *)
(* Tokens are resolved by the OIDC adapter, which keeps the last principal *)
(* of every subject; the principals it answers, and others, are registered *)
(* with the memory and the database adapter.  These two are given the same *)
(* calls here, so that their answers can be compared.  A claim that has    *)
(* not the shape the code looks for is one that is not there.  Between a   *)
(* lookup at the userinfo endpoint and its answer the adapter keeps        *)
(* nothing, so a resolve is one step.                                      *)
(***************************************************************************)
EXTENDS Values, FiniteSets

CONSTANTS
  OpaqueTokens,             \* opaque tokens, and subjects that are given as a token
  TokenClaims,        \* the sets of claims that tokens carry and userinfo answers
  Tenants,
  GivenGroups,        \* what a registration may pass as groups, {} for none or {a set},
  GivenScopes,        \* and as tenant_scopes
  Pools,              \* what the database holds: users, groups and scopes of its rows
  Strategies,         \* the provider an adapter may be set up for
  MaxIdentityCalls    \* bound on the calls that change something

VARIABLES
  strategy, userinfo, pooled, pool,       \* how the adapters were set up
  cached,                                 \* oidc.py: the principal of each subject
  memPrincipals, memGroups, memScopes,    \* memory.py
  users, dbGroups, dbScopes,              \* db.py
  identityCalls,
  latest,             \* history: the claims a subject was last resolved from, and the tenant asked for
  named,              \* history: the groups and tenants a principal was ever given or asked for
  registered          \* history: how often a principal was registered

setUp == <<strategy, userinfo, pooled, pool>>
memoryAdapter == <<memPrincipals, memGroups, memScopes>>
dbAdapter == <<users, dbGroups, dbScopes>>
identityVars ==
  <<setUp, cached, memoryAdapter, dbAdapter, identityCalls, latest, named, registered>>

\* A principal, of whom the attributes that are not looked at are left out.
IsPrincipal(p) ==
  p = [id |-> p.id, type |-> p.type, tenant |-> p.tenant, roles |-> p.roles, groups |-> p.groups]

ASSUME IdentityAssumption ==
  /\ MaxIdentityCalls \in Nat /\ None \notin Tenants
  /\ \A c \in TokenClaims : \A n \in DOMAIN c.tenants : c.tenants[n] \in Tenants
  /\ \A data \in Pools : \A id \in DOMAIN data.users : IsPrincipal(data.users[id])

\* None is no tenant, no group and no sub, as the empty string is for the code.
Or(tenant, other) == IF tenant = None THEN other ELSE tenant
AskedTenants == Tenants \cup {None}
Nowhere == [x \in {} |-> {}]
At(f, id) == IF id \in DOMAIN f THEN f[id] ELSE {}

------------------------------------------------------------------------------
(* Claims: sub and name, the claims that name tenants and roles, the paths of  *)
(* groups, and whether there is a client_id, a preferred_username, an email.   *)

detect_provider(c) ==
  IF c.iss = "zitadel" \/ "urn:org" \in DOMAIN c.tenants \/ "urn:roles" \in DOMAIN c.roles
  THEN "zitadel"
  ELSE IF {"realm", "client"} \cap DOMAIN c.roles # {} THEN "keycloak" ELSE "generic"

\* The tenant asked for, or that of the first of the claims.
TenantOf(c, asked, claims) ==
  LET present == Only(claims, DOMAIN c.tenants)
  IN  Or(asked, IF present = <<>> THEN None ELSE c.tenants[Head(present)])

RolesIn(c, claims) == UNION {c.roles[claim] : claim \in claims \cap DOMAIN c.roles}

\* "/team" is "team", and "/" nothing.
Cleaned(paths) == {g.name : g \in paths} \ {None}

Person(c, asked, tenantClaims, roleClaims, service) ==
  [id |-> c.sub, type |-> IF service THEN "service" ELSE "user",
   tenant |-> TenantOf(c, asked, tenantClaims),
   roles |-> RolesIn(c, roleClaims), groups |-> Cleaned(c.groups)]

normalize_keycloak(c, asked) ==
  Person(c, asked, <<"tenant_id", "org", "organization">>, {"realm", "client", "top"},
         c.client /\ ~c.username)

normalize_zitadel(c, asked) ==
  Person(c, asked, <<"urn:org">>, {"urn:roles", "top"}, FALSE)

normalize_generic(c, asked) ==
  Person(c, asked, <<"tenant_id", "org_id", "organization", "tenant">>, {"top"},
         c.client /\ ~c.email)

normalize(c, asked) ==
  LET provider == IF strategy = "auto" THEN detect_provider(c) ELSE strategy IN
  CASE provider = "keycloak" -> normalize_keycloak(c, asked)
    [] provider = "zitadel" -> normalize_zitadel(c, asked)
    [] OTHER -> normalize_generic(c, asked)

\* The claims of a token that nothing could be learnt about: it is taken for a subject.
BarePrincipal(token) ==
  [sub |-> token, iss |-> None, tenants |-> <<>>, roles |-> <<>>, groups |-> {},
   client |-> FALSE, username |-> FALSE, email |-> FALSE]

------------------------------------------------------------------------------
(* The answers. *)

\* A principal without a tenant is placed in the one asked for.
Placed(p, asked) == [p EXCEPT !.tenant = Or(@, asked)]
Stranger(id, asked, groups) ==
  [id |-> id, type |-> "user", tenant |-> asked, roles |-> {}, groups |-> groups]
Home(p) == {p.tenant} \ {None}
HomeAt(f, id) == IF id \in DOMAIN f THEN Home(f[id]) ELSE {}
GroupsAt(f, id) == IF id \in DOMAIN f THEN f[id].groups ELSE {}

MemResolve(id, asked) ==
  IF id \in DOMAIN memPrincipals THEN Placed(memPrincipals[id], asked)
  ELSE Stranger(id, asked, At(memGroups, id))
MemGroups(id) == At(memGroups, id) \cup GroupsAt(memPrincipals, id)
MemScopes(id) == At(memScopes, id) \cup HomeAt(memPrincipals, id)

\* Who has no row is looked for among those that were registered with the adapter ...
DbResolve(id, asked) ==
  CASE pooled /\ id \in DOMAIN pool.users -> Placed(pool.users[id], asked)
    [] ~(pooled /\ id \in DOMAIN pool.users) /\ id \in DOMAIN users -> Placed(users[id], asked)
    [] OTHER -> Stranger(id, asked, {})

\* ... but their groups and scopes are not.
DbGroups(id) ==
  IF pooled THEN At(pool.groups, id) ELSE At(dbGroups, id) \cup GroupsAt(users, id)

DbScopes(id) ==
  IF pooled THEN At(pool.scopes, id) ELSE At(dbScopes, id) \cup HomeAt(users, id)

OidcGroups(id) == GroupsAt(cached, id)
OidcScopes(id) == HomeAt(cached, id)

------------------------------------------------------------------------------
(* The calls that change something. *)

IdentityInit ==
  /\ strategy \in Strategies /\ userinfo \in BOOLEAN
  /\ pooled \in BOOLEAN /\ pool \in Pools
  /\ cached = Nowhere
  /\ memPrincipals = Nowhere /\ memGroups = Nowhere /\ memScopes = Nowhere
  /\ users = Nowhere /\ dbGroups = Nowhere /\ dbScopes = Nowhere
  /\ identityCalls = 0 /\ latest = Nowhere /\ named = {} /\ registered = Nowhere

IdentityCall == identityCalls < MaxIdentityCalls /\ identityCalls' = identityCalls + 1

\* Mutant of Cache: the principal that was first seen stays.
Cache_First(p, name) == cached' = IF p.id \in DOMAIN cached THEN cached ELSE With(cached, p.id, p)

Cache(p, name) == cached' = With(cached, p.id, p)

\* A token without sub is refused.
ResolveClaims(c, name, asked) ==
  LET p == normalize(c, asked) IN
  /\ IdentityCall /\ c.sub # None
  /\ Cache(p, name)
  /\ latest' = With(latest, c.sub, [claims |-> c, asked |-> asked])
  /\ named' = named \cup {<<c.sub, g.name>> : g \in c.groups}
                    \cup {<<c.sub, c.tenants[n]>> : n \in DOMAIN c.tenants} \cup {<<c.sub, asked>>}
  /\ UNCHANGED <<setUp, memoryAdapter, dbAdapter, registered>>

\* A JWT: its payload is decoded and not verified, which the gateway has done.
ResolveJwt(c, asked) == ResolveClaims(c, c.name, asked)

\* Anything else: what userinfo answers, if there is one and it does.
ResolveOpaque(token, asked) ==
  \/ \E c \in TokenClaims : userinfo /\ ResolveClaims(c, c.name, asked)
  \/ ResolveClaims(BarePrincipal(token), token, asked)

\* What is empty is not given, for the memory adapter ...
Unioned(f, id, more) == IF more = {} THEN f ELSE With(f, id, At(f, id) \cup more)

add_principal(p, groups, scopes) ==
  /\ memPrincipals' = With(memPrincipals, p.id, p)
  /\ memGroups' = Unioned(memGroups, p.id, UNION groups)
  /\ memScopes' = Unioned(memScopes, p.id, IF UNION scopes # {} THEN UNION scopes ELSE Home(p))

\* ... while the other replaces by it what it had.
ReplacedBy(f, id, given) == IF given = {} THEN f ELSE With(f, id, UNION given)

upsert_user(p, groups, scopes) ==
  /\ users' = With(users, p.id, p)
  /\ dbGroups' = ReplacedBy(dbGroups, p.id, groups)
  /\ dbScopes' = IF scopes # {} THEN ReplacedBy(dbScopes, p.id, scopes)
                 ELSE Unioned(dbScopes, p.id, Home(p))

Register(p, groups, scopes) ==
  /\ IdentityCall
  /\ add_principal(p, groups, scopes) /\ upsert_user(p, groups, scopes)
  /\ registered' = With(registered, p.id,
       [n |-> IF p.id \in DOMAIN registered THEN registered[p.id].n + 1 ELSE 1,
        groups |-> groups, p |-> p])
  /\ named' = named \cup {<<p.id, x>> : x \in p.groups \cup Home(p) \cup (UNION groups) \cup (UNION scopes)}
  /\ UNCHANGED <<setUp, cached, latest>>

IdentityNext ==
  \/ \E asked \in AskedTenants :
       \/ \E c \in TokenClaims : ResolveJwt(c, asked)
       \/ \E token \in OpaqueTokens : ResolveOpaque(token, asked)
  \/ \E id \in DOMAIN cached, groups \in GivenGroups, scopes \in GivenScopes :
       Register(cached[id], groups, scopes)

IdentitySpec == IdentityInit /\ [][IdentityNext]_identityVars

------------------------------------------------------------------------------
(* Properties. *)

UserIds == DOMAIN cached \cup DOMAIN memPrincipals \cup DOMAIN pool.users \cup OpaqueTokens

IdentityTypeOK ==
  /\ identityCalls \in 0..MaxIdentityCalls
  /\ \A id \in DOMAIN cached :
       cached[id].id = id /\ cached[id].tenant \in AskedTenants /\ None \notin cached[id].groups
  /\ DOMAIN users = DOMAIN memPrincipals

\* The tenant a user's row names has a row of its own in the table of tenants.  Nothing in
\* the adapter sees to that: it only reads the two tables.
HasTenantRow(id) == id \in DOMAIN pool.users /\ Home(pool.users[id]) \subseteq At(pool.scopes, id)

\* Whichever adapter says that a principal belongs to a tenant also lists that tenant
\* among those it may reach.  A database does for the users that have a tenant row; who was
\* registered with its adapter and has no row is known, and may reach nothing.
HomeInScopes ==
  \A id \in UserIds :
    /\ HomeAt(cached, id) \subseteq OidcScopes(id)
    /\ Home(MemResolve(id, None)) \subseteq MemScopes(id)
    /\ ~pooled \/ HasTenantRow(id)
       => Home(DbResolve(id, None)) \subseteq DbScopes(id)

\* The memory adapter stands for the database in tests.  As long as no principal is
\* registered again they answer alike; after that it may still have groups and tenants
\* that the other has replaced, and never fewer.
AdaptersAgree ==
  ~pooled => \A id \in UserIds :
    /\ \A asked \in AskedTenants : DbResolve(id, asked) = MemResolve(id, asked)
    /\ DbGroups(id) \subseteq MemGroups(id) /\ DbScopes(id) \subseteq MemScopes(id)
    /\ id \in DOMAIN registered /\ registered[id].n = 1
       => DbGroups(id) = MemGroups(id) /\ DbScopes(id) = MemScopes(id)

\* The database adapter forgets the groups that the last registration left out.
GroupsWithdrawn ==
  ~pooled => \A id \in DOMAIN registered :
    registered[id].groups # {} => DbGroups(id) = registered[id].p.groups \cup UNION registered[id].groups

\* No adapter answers a group or a tenant that no claims of that principal, no
\* registration and no caller ever named for it: not those of somebody else.
GrantsTraced ==
  \A id \in UserIds : \A x \in OidcGroups(id) \cup OidcScopes(id) \cup MemGroups(id) \cup MemScopes(id)
                           \cup (IF pooled THEN {} ELSE DbGroups(id) \cup DbScopes(id)) :
    <<id, x>> \in named

\* What the OIDC adapter says of a subject is what its last claims say, however often and
\* with whatever tokens it was resolved before - so a lookup that fails, or by the bare
\* subject, takes its groups away - and the roles are among those the claims name.
ClaimsAreCurrent ==
  \A id \in DOMAIN latest :
    LET c == latest[id].claims IN
    /\ OidcGroups(id) = {g.name : g \in {h \in c.groups : h.name # None}}
    /\ latest[id].asked # None => OidcScopes(id) = {latest[id].asked}
    /\ (latest[id].asked = None /\ c.tenants = <<>>) => OidcScopes(id) = {}
    /\ id \in DOMAIN cached => cached[id].roles \subseteq UNION {c.roles[n] : n \in DOMAIN c.roles}
==============================================================================
