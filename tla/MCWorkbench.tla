----------------------------- MODULE MCWorkbench -----------------------------
\* The instance of Workbench for TLC.
EXTENDS Workbench, TLC

CONSTANTS p1, p2, a, b, v1, v2, tv1, tv2, gr1, gr2, x1, x2, x3, x4

\* The connectors and their readers.
Both == {<<p2, p1>>}
Usual == [github |-> <<>>, gmail |-> <<p1>>]
TwoPlaces == <<p1, p2>>
TwoBranches == <<"main", "dev">>
TwoNames == <<a, b>>
Three == (p1 :> [n \in {a, b} |-> 1]) @@ (p2 :> (a :> 1 @@ b :> 0))

\* The chunker.
Lengths == [text |-> 2, blank |-> 0, table |-> 1, fence |-> 1, h1 |-> 1, h2 |-> 1]

\* Vector stores.
TwoStoreDocs == <<v1, v2>>
DocOwners == v1 :> tv1 @@ v2 :> tv2
GroupsFor == v1 :> {gr1} @@ v2 :> {gr2}
Similarities == x1 :> 3 @@ x2 :> 3 @@ x3 :> 1 @@ x4 :> 1
Overlaps == x1 :> 0 @@ x2 :> 1 @@ x3 :> 2 @@ x4 :> 1
SomeBatches == {<<x3, x4>>, <<x2>>, <<x1, x2>>}
SomeFilters == {[tenant |-> None, groups |-> {}], [tenant |-> tv1, groups |-> {gr1, gr2}],
                [tenant |-> tv2, groups |-> {gr1}]}

\* Object stores.
SomeKeys == {<<"a">>, <<"/", "/", "t1", "/", "a">>}
SomePrefixes == {<<>>, <<"a">>}

\* Model servers.
SomeLlmSettings ==
  {[kind |-> "ollama", base |-> None, model |-> "llama"],
   [kind |-> "ollama", base |-> "localhost", model |-> "llama"], [kind |-> "hosted", base |-> None, model |-> "gpt"]}
SomeInstallations ==
  {[u \in Endpoints |-> IF u = "openai" THEN <<"gpt", "bge">> ELSE <<"bge", "qwen">>],
   [u \in Endpoints |-> IF u = "docker" THEN <<"bge">> ELSE <<"llama", "bge">>]}
SomeReachables == {{"localhost", "openai"}, {"docker", "loopback"}}

\* Compiled manifests.
Manifest(p, i) == [pagination |-> p, size |-> 2, incremental |-> i, public |-> FALSE, static |-> {"all"}]
SomeManifests ==
  {Manifest(p, FALSE) : p \in {"none", "page_number", "offset", "cursor"}}
    \cup {Manifest(p, TRUE) : p \in {"offset", "cursor"}}
SomeApis ==
  [tokens : {"versions", "places"}, strange : {"ignored"}] \cup [tokens : {"counts"}, strange : {"nothing", "refused"}]
SomeShapes ==
  <<[record |-> TRUE, id |-> TRUE, external |-> FALSE, allowed |-> {"ann"}, public |-> ""],
    [record |-> FALSE, id |-> FALSE, external |-> FALSE, allowed |-> {}, public |-> ""],
    [record |-> TRUE, id |-> TRUE, external |-> TRUE, allowed |-> {}, public |-> "text"],
    [record |-> TRUE, id |-> FALSE, external |-> TRUE, allowed |-> {}, public |-> "false"],
    [record |-> TRUE, id |-> FALSE, external |-> FALSE, allowed |-> {"bob"}, public |-> "true"]>>

\* Identity.
Claim(sub, iss, tenants, roles, groups, flags) ==
  [sub |-> sub, name |-> IF sub = "bot" THEN "ann" ELSE sub, iss |-> iss, tenants |-> tenants, roles |-> roles, groups |-> groups,
   client |-> "client" \in flags, username |-> "username" \in flags, email |-> "email" \in flags]
Group(name, slash) == [name |-> name, slash |-> slash]
SomeClaims ==
  {Claim("ann", "keycloak", "org" :> "t1", "realm" :> {"admin"} @@ "top" :> {"user"}, {Group("g1", TRUE), Group(None, TRUE)}, {"username"}),
   Claim("ann", "zitadel", "urn:org" :> "t2" @@ "tenant_id" :> "t1", "urn:roles" :> {"user"}, {}, {"email"}),
   Claim("bot", "other", "tenant" :> "t2" @@ "org_id" :> "t1", <<>>, {Group("g1", FALSE), Group("g2", TRUE)}, {"client"}),
   Claim("bot", "other", <<>>, "client" :> {"admin"}, {}, {"client"}),
   Claim(None, "other", <<>>, <<>>, {}, {})}
\* The tenant of bot has no row of its own.
User(id, tenant) == [id |-> id, type |-> "user", tenant |-> tenant, roles |-> {}, groups |-> {}]
SomePools ==
  {[users |-> "ann" :> User("ann", "t2") @@ "bot" :> User("bot", "t1"),
    groups |-> "ann" :> {"g2"}, scopes |-> "ann" :> {"t2"}]}
SomeGroups == {{}, {{}}, {{"g2"}}}
SomeScopes == {{}, {{}}, {{"t2"}}}

\* The start of the server, and MCP.
SomePlugins ==
  {[overrides |-> "wiki" :> FALSE, entries |-> "gmail" :> FALSE @@ "wiki" :> TRUE @@ "mail" :> TRUE,
    modules |-> {"gmail", "github"}]}

\* Pages: local tools.
SomeFeedFilters == {[kind |-> "all", status |-> "all"], [kind |-> "notes", status |-> "success"]}
==============================================================================
