----------------------------- MODULE ConnectorHub -----------------------------
(***************************************************************************)
(* The part of the HTTP server that holds the remote connectors: their     *)
(* credentials and settings, the OAuth sign-in, and the switch between the *)
(* sovereign and the connected mode (create_router in                      *)
(* packages/aegismind-core/src/aegismind_core/routes.py, connector_runtime *)
(* and the network guard and registry of the connector SDK).               *)
(*                                                                         *)
(* The vault is MemorySecretStore, whose operations do not suspend, so a   *)
(* handler is one step except where it waits for the network: the exchange *)
(* of an OAuth code.  A setting is the list of places a connector reads    *)
(* (repositories or labels), and the empty list stands for an absent one.  *)
(***************************************************************************)
EXTENDS Values

CONSTANTS
  Tokens,             \* access tokens
  StateIds,           \* one-time state tokens of the OAuth sign-in
  Callbacks,          \* callback requests in progress
  Settings,           \* the lists of places a user asks for
  Defaults,           \* per connector, the places read when nothing is asked for
  Junk,               \* a name that no place has
  MaxRequests         \* bound on the requests that change the hub, but for callbacks

Connectors == {"github", "gmail"}
Providers  == {"github", "google"}

\* CONNECTOR_OAUTH_MAP
ConnectorOf == [github |-> "github", google |-> "gmail"]

VARIABLES
  airGapped, sovereign,   \* the environment variables AIR_GAPPED and SOVEREIGN_MODE
  guard,                  \* per connector, whether its guard blocks the network
  registry,               \* per connector, its registration or None
  vault,                  \* per connector, the token and the settings stored
  live,                   \* per connector, the token and the settings in use
  oauthStates,            \* per state token, the provider it was issued for or None
  exchanging,             \* per callback in progress, the provider or None
  issued, exchanged,      \* history: of state tokens, for whom issued and used
  overwritten,            \* history: connectors whose stored token was replaced directly
  asked,                  \* history: per connector, the settings last asked for
  requests

modeVars  == <<airGapped, sovereign, guard>>
vaultVars == <<registry, vault, live, overwritten, asked>>
oauthVars == <<oauthStates, exchanging, issued, exchanged>>
hubVars   == <<modeVars, vaultVars, oauthVars, requests>>

ASSUME HubAssumption ==
  /\ MaxRequests \in Nat /\ Tokens # {} /\ None \notin Tokens \cup Providers
  /\ \A s \in Settings : s # <<>> /\ \A i \in DOMAIN s : s[i] # Junk

Registration == [status : {"registered", "connected"}, hasKey : BOOLEAN]

HubInit ==
  /\ airGapped \in BOOLEAN /\ sovereign \in BOOLEAN
  /\ guard = [c \in Connectors |-> airGapped \/ sovereign]
  /\ registry \in {[c \in Connectors |-> None],
                   [c \in Connectors |-> [status |-> "registered", hasKey |-> FALSE]]}
  /\ vault = [c \in Connectors |-> [token |-> None, places |-> <<>>]]
  /\ live = [c \in Connectors |-> [token |-> None, places |-> Defaults[c]]]
  /\ oauthStates = [s \in StateIds |-> None]
  /\ exchanging = [h \in Callbacks |-> None]
  /\ issued = [s \in StateIds |-> None]
  /\ exchanged = [s \in StateIds |-> <<>>]
  /\ overwritten = {}
  /\ asked = [c \in Connectors |-> <<>>]
  /\ requests = 0

Request == requests < MaxRequests /\ requests' = requests + 1

------------------------------------------------------------------------------
(* Modes. *)

set_system_mode(on) ==
  /\ Request
  /\ airGapped' = on /\ sovereign' = on
  /\ guard' = [c \in Connectors |-> on]
  /\ UNCHANGED <<vaultVars, oauthVars>>

------------------------------------------------------------------------------
(* Credentials and settings. *)

\* apply_runtime_config: places that are given replace those in use.
Applied(used, places) == IF places = <<>> THEN used ELSE [used EXCEPT !.places = places]

\* Mutant of Hydrated: a token in use is not replaced.
Hydrated_KeepsToken(c, store) ==
  Applied([live[c] EXCEPT !.token = IF @ = None THEN store.token ELSE @], store.places)

\* hydrate_connector: what is stored is put in use.
Hydrated(c, store) ==
  Applied([live[c] EXCEPT !.token = IF store.token # None THEN store.token ELSE @], store.places)

\* The registration after update_status(c, "connected", ...).
Registered(c, withKey) ==
  IF registry[c] = None THEN None
  ELSE [status |-> "connected", hasKey |-> withKey \/ registry[c].hasKey]

\* What a list of places becomes when str() stores it and it is read back.
AsStored(places, form) == IF form = "list" THEN <<Junk>> ELSE places

\* What the vault holds for c once the token and the settings given are stored.
StoredWith(c, token, places, form) ==
  [token  |-> IF token = None THEN vault[c].token ELSE token,
   places |-> IF places = <<>> THEN vault[c].places ELSE AsStored(places, form)]

\* Stores the token and the settings given, puts them in use and tells the registry.
connect_connector(c, token, places, form) ==
  LET store == StoredWith(c, token, places, form)
      used  == Hydrated(c, store) IN
  /\ Request
  /\ vault' = [vault EXCEPT ![c] = store]
  /\ live' = [live EXCEPT ![c] = Applied(used, places)]
  /\ overwritten' = overwritten \ {c}
  /\ asked' = IF places = <<>> THEN asked
              ELSE [asked EXCEPT ![c] = IF form = "text" THEN places ELSE <<>>]
  /\ registry' = [registry EXCEPT ![c] = Registered(c, token # None)]
  /\ UNCHANGED <<modeVars, oauthVars>>

\* POST /secrets under the name of a connector's token.
store_secret(c, token) ==
  /\ Request
  /\ vault' = [vault EXCEPT ![c].token = token]
  /\ overwritten' = overwritten \cup {c}
  /\ UNCHANGED <<modeVars, oauthVars, registry, live, asked>>

------------------------------------------------------------------------------
(* The OAuth sign-in. *)

oauth_start(p, s) ==
  /\ ~airGapped
  /\ issued[s] = None
  /\ Request
  /\ oauthStates' = [oauthStates EXCEPT ![s] = p]
  /\ issued' = [issued EXCEPT ![s] = p]
  /\ UNCHANGED <<modeVars, vaultVars, exchanging, exchanged>>

\* state.oauth_states.pop(state_token, None)
TakeState(s) == oauthStates' = [oauthStates EXCEPT ![s] = None]

\* A callback of provider p that brings a code and the state token s.
oauth_callback(h, p, s) ==
  /\ exchanging[h] = None
  /\ oauthStates[s] = p
  /\ TakeState(s)
  /\ exchanging' = [exchanging EXCEPT ![h] = p]
  /\ exchanged' = [exchanged EXCEPT ![s] = Append(@, p)]
  /\ UNCHANGED <<modeVars, vaultVars, issued, requests>>

\* A callback of another provider: refused, and the state token is gone.
oauth_callback_Refused(p, s) ==
  /\ oauthStates[s] \notin {None, p}
  /\ TakeState(s)
  /\ UNCHANGED <<modeVars, vaultVars, exchanging, issued, exchanged, requests>>

ExchangeFails(h) ==
  /\ exchanging[h] # None
  /\ exchanging' = [exchanging EXCEPT ![h] = None]
  /\ UNCHANGED <<modeVars, vaultVars, oauthStates, issued, exchanged, requests>>

\* The provider answers with a token, which is stored and put in use.
ExchangeDone(h, token) ==
  LET c == ConnectorOf[exchanging[h]] IN
  /\ exchanging[h] # None
  /\ vault' = [vault EXCEPT ![c].token = token]
  /\ live' = [live EXCEPT ![c] = Hydrated(c, [vault[c] EXCEPT !.token = token])]
  /\ overwritten' = overwritten \ {c}
  /\ registry' = [registry EXCEPT ![c] = Registered(c, TRUE)]
  /\ exchanging' = [exchanging EXCEPT ![h] = None]
  /\ UNCHANGED <<modeVars, oauthStates, issued, exchanged, asked, requests>>

\* The requests that concern the connectors cs and bring the tokens ts; sign-ins
\* use the state tokens ss.
HubNext(cs, ts, ss) ==
  \/ \E on \in BOOLEAN : set_system_mode(on)
  \/ \E c \in cs, t \in ts \cup {None}, places \in Settings \cup {<<>>} :
       \E form \in {"text", "list"} : connect_connector(c, t, places, form)
  \/ \E c \in cs, t \in ts : store_secret(c, t)
  \/ \E s \in ss, p \in Providers :
       \/ ConnectorOf[p] \in cs /\ oauth_start(p, s)
       \/ oauth_callback_Refused(p, s)
       \/ \E h \in Callbacks : oauth_callback(h, p, s)
  \/ \E h \in Callbacks : ExchangeFails(h) \/ \E t \in ts : ExchangeDone(h, t)

------------------------------------------------------------------------------
(* Properties of the hub. *)

HubTypeOK ==
  /\ airGapped \in BOOLEAN /\ sovereign \in BOOLEAN
  /\ guard \in [Connectors -> BOOLEAN]
  /\ \A c \in Connectors : registry[c] \in Registration \cup {None}
  /\ \A c \in Connectors : {vault[c].token, live[c].token} \subseteq Tokens \cup {None}
  /\ oauthStates \in [StateIds -> Providers \cup {None}]
  /\ exchanging \in [Callbacks -> Providers \cup {None}]
  /\ overwritten \subseteq Connectors /\ requests \in 0..MaxRequests

\* A state token buys at most one exchange of a code, and only with the
\* provider it was issued for: replayed and crossed callbacks get nothing.
StateUsedOnce ==
  \A s \in StateIds :
    /\ Len(exchanged[s]) <= 1
    /\ exchanged[s] # <<>> => exchanged[s][1] = issued[s]

\* The token a connector works with is the one in the vault, unless the vault
\* was changed behind its back and nothing has loaded it since.
LiveTokenStored ==
  \A c \in Connectors \ overwritten : live[c].token = vault[c].token

\* A connector of which the registry says that it has a credential has one.
CredentialKeyHasSecret ==
  \A c \in Connectors :
    registry[c] # None => (registry[c].hasKey => vault[c].token # None)
==============================================================================
