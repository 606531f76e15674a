----------------------------- MODULE ApiGate -----------------------------
(***************************************************************************)
(* How the banking API of api-keycloak-security decides on a request: the  *)
(* cache of Keycloak's keys (auth/jwks.go), the decryption of the token    *)
(* (auth/encryption.go), Middleware and RequireRole (auth/middleware.go)   *)
(* and the routes of cmd/server/main.go.  What a handler does once it is   *)
(* reached is the subject of Bank.                                         *)
(*                                                                         *)
(* No request calls Keycloak or changes anything here: the answer is a     *)
(* function of the state, Answer, and the actions are those of Keycloak,   *)
(* of the refresher and of whoever runs the API.  There is no clock, only  *)
(* times left and times gone by, in seconds.                               *)
(***************************************************************************)
EXTENDS Integers

CONSTANTS
    Clients,
    NoToken,
    Interval,       \* JWKS_REFRESH_INTERVAL, the shortest time keys are kept for
    Longest,        \* the longest that Keycloak's answer may ask for
    Window,         \* the library looks for keys that are due once in this time
    FetchTime,      \* longest time Keycloak takes to answer
    Lifespan,       \* seconds for which Keycloak issues a token
    MaxRotations, MaxDeploys, MaxFaults   \* bounds

ASSUME GateAssumption ==
    /\ Interval \in Nat /\ Longest \in Nat /\ Window \in Nat /\ Interval <= Longest
    /\ FetchTime \in Nat /\ Lifespan \in Nat
    /\ MaxRotations \in Nat /\ MaxDeploys \in Nat /\ MaxFaults \in Nat

VARIABLES
    key,       \* Keycloak's signing key: how often it has changed
    age,       \* time since the last change, as far as it matters
    misses,    \* failed refreshes since the last change
    mode,      \* the API's process
    pair,      \* its key pair for encrypted tokens, or NoPair
    deploys,   \* how often the API was deployed anew
    cache,     \* the key in its cache
    due,       \* time until the library next finds the keys due
    job,       \* the refresh under way: at, the key that came, the time it took
    login,     \* per client, the key pair Keycloak encrypts its next token for
    token,     \* per client, the access token it has
    faults     \* faults so far

keycloak == <<key, age, misses>>
clients  == <<login, token>>
api      == <<mode, pair, deploys, cache, due, job>>
vars     == <<keycloak, api, clients, faults>>

NoPair == 0
Pairs  == 1 .. MaxDeploys + 1

\* The pair of a token that is only signed is NoPair; roles are its
\* realm_access.roles.
Token == [key : Nat, pair : {NoPair} \cup Pairs, roles : SUBSET {"admin"},
          left : 0 .. Lifespan]

ASSUME NoTokenAssumption == NoToken \notin Token

NoJob == [at |-> "none", got |-> 0, took |-> 0]

\* NewKeyCache sets the shortest time between two refreshes only. The library
\* keeps keys for longer if the answer's headers say so and sees that they are
\* due when it next looks, every quarter of an hour unless told otherwise.
Period == Longest + Window

\* How long the cache may lag behind Keycloak, which is not the "5 min" of
\* README.md:84: a Period and two fetches, and another Period and fetch for
\* each refresh that fails.
Lag(n) == (n + 1) * (Period + FetchTime) + FetchTime

MaxAge == Lag(MaxFaults) + 1

TypeOK ==
    /\ key \in 0 .. MaxRotations /\ cache \in 0 .. MaxRotations
    /\ age \in 0 .. MaxAge
    /\ misses \in 0 .. MaxFaults /\ faults \in 0 .. MaxFaults
    /\ mode \in {"down", "starting", "up"}
    /\ pair \in {NoPair} \cup Pairs /\ deploys \in 0 .. MaxDeploys
    /\ due \in 0 .. Period
    /\ job \in [at : {"none", "asked", "answered"}, got : 0 .. MaxRotations,
                took : 0 .. FetchTime]
    /\ login \in [Clients -> {NoPair} \cup Pairs]
    /\ token \in [Clients -> Token \cup {NoToken}]

Init ==
    /\ key = 0 /\ age = MaxAge /\ misses = 0
    /\ mode = "down" /\ pair \in {NoPair, 1} /\ deploys = 0
    /\ cache = 0 /\ due = 0 /\ job = NoJob
    /\ login = [c \in Clients |-> NoPair]
    /\ token = [c \in Clients |-> NoToken]
    /\ faults = 0

Fault == faults < MaxFaults /\ faults' = faults + 1

-----------------------------------------------------------------------------
(* main *)

\* NewKeyCache begins with a fetch.
Start ==
    /\ mode = "down"
    /\ mode' = "starting"
    /\ job' = [NoJob EXCEPT !.at = "asked"]
    /\ UNCHANGED <<keycloak, pair, deploys, cache, due, clients, faults>>

\* The process ends; compose starts it again.
Stop ==
    /\ mode # "down"
    /\ Fault
    /\ mode' = "down"
    /\ job' = NoJob
    /\ UNCHANGED <<keycloak, pair, deploys, cache, due, clients>>

\* A new version of the API, with another API_PRIVATE_KEY_BASE64 or with none.
Deploy ==
    /\ deploys < MaxDeploys
    /\ deploys' = deploys + 1
    /\ pair' \in {NoPair, deploys + 2}
    /\ mode' = "down"
    /\ job' = NoJob
    /\ UNCHANGED <<keycloak, cache, due, clients, faults>>

-----------------------------------------------------------------------------
(* KeyCache *)

RefreshBegins ==
    /\ mode = "up"
    /\ job.at = "none"
    /\ due = 0
    /\ job' = [NoJob EXCEPT !.at = "asked"]
    /\ UNCHANGED <<keycloak, mode, pair, deploys, cache, due, clients, faults>>

KeycloakAnswers ==
    /\ job.at = "asked"
    /\ job' = [job EXCEPT !.at = "answered", !.got = key]
    /\ UNCHANGED <<keycloak, mode, pair, deploys, cache, due, clients, faults>>

NextRefresh == Interval .. Period

\* Faulty: KeySet returns what the first fetch brought.
FetchedAtStart == IF mode = "starting" THEN job.got ELSE cache

Fetched == job.got

\* The keys are stored, which ends the start-up too.
RefreshEnds ==
    /\ job.at = "answered"
    /\ cache' = Fetched
    /\ mode' = "up"
    /\ due' \in NextRefresh
    /\ job' = NoJob
    /\ UNCHANGED <<keycloak, pair, deploys, clients, faults>>

\* Faulty: main waits for keys that nobody asks for again.
AfterFailureWaits == mode

\* At start-up main gives up.
AfterFailure == IF mode = "starting" THEN "down" ELSE "up"

\* Faulty: the error replaces the keys.
RefreshFailsEmpty ==
    /\ job.at # "none"
    /\ Fault
    /\ misses' = misses + 1
    /\ mode' = AfterFailure
    /\ cache' = -1
    /\ due' \in NextRefresh
    /\ job' = NoJob
    /\ UNCHANGED <<key, age, pair, deploys, clients>>

\* The cache is left as it is.
RefreshFails ==
    /\ job.at # "none"
    /\ Fault
    /\ misses' = misses + 1
    /\ mode' = AfterFailure
    /\ due' \in NextRefresh
    /\ job' = NoJob
    /\ UNCHANGED <<key, age, pair, deploys, cache, clients>>

-----------------------------------------------------------------------------
(* Keycloak *)

Rotate ==
    /\ key < MaxRotations
    /\ key' = key + 1
    /\ age' = 0
    /\ misses' = 0
    /\ UNCHANGED <<api, clients, faults>>

Issue(c, p) ==
    \E roles \in SUBSET {"admin"} :
        token' = [token EXCEPT ![c] =
                      [key |-> key, pair |-> p, roles |-> roles, left |-> Lifespan]]

\* A login: Keycloak gets the API's public key, which ServeJWKS offers if there
\* is one, ...
FetchPublicKey(c) ==
    /\ mode = "up"
    /\ pair # NoPair
    /\ login' = [login EXCEPT ![c] = pair]
    /\ UNCHANGED <<keycloak, api, token, faults>>

\* ... then signs the token and encrypts it.
IssueToken(c) ==
    /\ login[c] # NoPair
    /\ login' = [login EXCEPT ![c] = NoPair]
    /\ Issue(c, login[c])
    /\ UNCHANGED <<keycloak, api, faults>>

\* Keycloak encrypts tokens of the client banking-api, not of the realm's others.
IssuePlain(c) ==
    /\ Issue(c, NoPair)
    /\ UNCHANGED <<keycloak, api, login, faults>>

-----------------------------------------------------------------------------
\* A second passes. Keys that the library found due are fetched at once, and a
\* fetch takes no longer than FetchTime.
Tick ==
    /\ \/ mode = "down"
       \/ job.at = "none" /\ due > 0
       \/ job.at # "none" /\ job.took < FetchTime
    /\ age' = IF age < MaxAge THEN age + 1 ELSE age
    /\ due' = IF mode = "up" /\ job.at = "none" THEN due - 1 ELSE due
    /\ job' = IF job.at = "none" THEN job ELSE [job EXCEPT !.took = @ + 1]
    /\ token' = [c \in Clients |->
           IF token[c] = NoToken \/ token[c].left = 0 THEN token[c]
           ELSE [token[c] EXCEPT !.left = @ - 1]]
    /\ UNCHANGED <<key, misses, mode, pair, deploys, cache, login, faults>>

Refresh == RefreshBegins \/ KeycloakAnswers \/ RefreshEnds

Next ==
    \/ Start \/ Stop \/ Deploy
    \/ Refresh \/ RefreshFails
    \/ Rotate \/ \E c \in Clients : FetchPublicKey(c) \/ IssueToken(c) \/ IssuePlain(c)
    \/ Tick

Spec == Init /\ [][Next]_vars

\* Compose restarts the API, its refresher runs on, time passes.
FairSpec == Spec /\ WF_vars(Start) /\ WF_vars(Refresh) /\ WF_vars(Tick)

-----------------------------------------------------------------------------
(* Middleware, RequireRole and the routes *)

Routes == {"accounts", "admin"}

\* Faulty: with a key pair of its own the API takes every token for encrypted.
DecryptsEvery(t) == t.pair = pair

\* A token with five parts is decrypted, which takes the pair it is meant for.
Decrypts(t) == t.pair \in {NoPair, pair}

\* jwt.Parse with the cached keys, whatever Keycloak's are now.
Parses(t) == t.key = cache /\ t.left > 0

\* extractRealmRoles
RealmRoles(t) == t.roles

Answer(c, route) ==
    IF token[c] = NoToken \/ ~ Decrypts(token[c]) \/ ~ Parses(token[c]) THEN "401"
    ELSE IF route = "admin" /\ "admin" \notin RealmRoles(token[c]) THEN "403"
    ELSE "handled"

-----------------------------------------------------------------------------
\* "zero Keycloak calls per request" (main.go:35) has a price: while the API
\* is up its keys may be out of date, but not for longer than Lag.
CacheLagsBriefly ==
    mode = "up" /\ cache # key => age <= Lag(misses)

\* Middleware refuses a token that has not expired for three reasons only:
\* Keycloak has withdrawn the key it is signed with, the cache lags, or the API
\* was deployed anew since Keycloak got its public key, be it before the login
\* was over ("Keycloak fetches the new public key on the first login",
\* README.md:235).
RefusedForAReason ==
    \A c \in Clients :
        /\ mode = "up" /\ token[c] # NoToken /\ token[c].left > 0
        /\ Answer(c, "accounts") = "401"
        => \/ token[c].key # key
           \/ age <= Lag(misses)
           \/ token[c].pair \in 1 .. deploys

\* From one step to the next a client that is let in stays in, until its token
\* runs out, Keycloak withdraws the key or the API changes its own: a refresh
\* that fails, or one whose answer is older than the keys at hand, locks
\* nobody out.
AcceptedStaysAccepted ==
    [][\A c \in Clients, route \in Routes :
           /\ mode = "up" /\ Answer(c, route) = "handled"
           /\ mode' = "up" /\ pair' = pair /\ token[c].key = key'
           /\ \E left \in 1 .. Lifespan : token'[c] = [token[c] EXCEPT !.left = left]
           => Answer(c, route)' = "handled"]_vars

\* "Startup fails fast if Keycloak is unreachable" (jwks.go:20), and compose
\* tries again; "refresh in the background" (main.go:35): once nothing fails
\* or changes any more the API is up with Keycloak's keys, for good.
StaysUpToDate == <>[](mode = "up" /\ cache = key)
=============================================================================
