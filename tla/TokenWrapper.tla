--------------------------- MODULE TokenWrapper ---------------------------
(***************************************************************************)
(* The wrapper in front of the banking API (authz/cmd/server/main.go): its *)
(* cache of Keycloak's keys, Validate with one forced refresh, the token   *)
(* proxy that browsers get their tokens from, the signed identity headers  *)
(* (wrapsig) and the API's check of their age.                             *)
(*                                                                         *)
(* A key is the number of times Keycloak has changed its keys.  A step is  *)
(* one call to Keycloak or to the API, or what happens between two calls.  *)
(* Claims are copied from the token to the headers and are left out; so    *)
(* are tokens that cannot be decrypted, which are refused at once.         *)
(***************************************************************************)
EXTENDS Integers

CONSTANTS
    Browsers,
    Requests,       \* requests that may be in flight together
    Background,     \* the refresher of jwk.Cache
    NoToken,
    Lifespan,       \* seconds for which Keycloak issues a token
    MaxSkew,        \* wrapsig.MaxSkew, in seconds
    Drifts,         \* what the API's clock may be ahead of the wrapper's
    MaxTime, MaxRotations, MaxFaults   \* bounds

ASSUME WrapperAssumption ==
    /\ Browsers # {}
    /\ Background \notin Requests
    /\ Lifespan \in Nat \ {0}
    /\ MaxSkew \in Nat
    /\ \A d \in Drifts : d \in Int
    /\ MaxTime \in Nat /\ MaxRotations \in Nat /\ MaxFaults \in Nat

Token == [key : Nat, exp : Nat]

ASSUME NoTokenAssumption == NoToken \notin Token

VARIABLES
    now,      \* the wrapper's clock
    drift,    \* the API's clock minus now
    key,      \* Keycloak's key
    cache,    \* the key in the wrapper's cache
    bearer,   \* per browser, the access token in its session storage
    proc,     \* the requests and the refresher
    faults    \* faults so far

vars == <<now, drift, key, cache, bearer, proc, faults>>

Procs == Requests \cup {Background}

\* tok is the token at hand, ks the key that a fetch brought, chk the time at
\* which jwt.Parse accepted the token, ts the signed X-Wrapper-Timestamp.
\* "idle" stands for a request that was served, "refused" for one that was
\* answered 401 or 502.
Over     == {"idle", "refused"}
HasToken == {"parse", "fetch", "store", "sign", "signed"}
Labels   == Over \cup {"grant"} \cup HasToken
Process  == [at : Labels, op : {"none", "verify", "proxy"}, from : Browsers,
             tok : Token \cup {NoToken}, ks : Nat, chk : Nat, ts : Nat]

At(label, b, op, t) ==
    [at |-> label, op |-> op, from |-> b, tok |-> t, ks |-> 0, chk |-> 0, ts |-> 0]

\* The state stays in range, and a request is validated and signed with a token
\* at hand (main.go's switch on the bearer comes before Validate).
TypeOK ==
    /\ now \in 0 .. MaxTime
    /\ drift \in Drifts
    /\ key \in 0 .. MaxRotations
    /\ cache \in 0 .. MaxRotations
    /\ bearer \in [Browsers -> Token \cup {NoToken}]
    /\ proc \in [Procs -> Process]
    /\ \A r \in Requests : proc[r].at \in HasToken => proc[r].tok \in Token
    /\ faults \in 0 .. MaxFaults

\* NewKeyCache has fetched the keys: the wrapper does not start without.
Init ==
    /\ now = 0
    /\ drift \in Drifts
    /\ key = 0 /\ cache = 0
    /\ bearer = [b \in Browsers |-> NoToken]
    /\ proc = [p \in Procs |-> At("idle", CHOOSE b \in Browsers : TRUE, "none", NoToken)]
    /\ faults = 0

Fault == faults < MaxFaults /\ faults' = faults + 1

Go(p, label)  == proc' = [proc EXCEPT ![p] = [@ EXCEPT !.at = label]]
End(p, label) == proc' = [proc EXCEPT ![p] = At(label, @.from, "none", NoToken)]

-----------------------------------------------------------------------------
(* tokenProxyHandler *)

\* A browser logs in or sends its refresh token.
AskForToken(r, b) ==
    /\ proc[r].at \in Over
    /\ proc' = [proc EXCEPT ![r] = At("grant", b, "proxy", NoToken)]
    /\ UNCHANGED <<now, drift, key, cache, bearer, faults>>

\* Keycloak signs a token; the handler goes on to validate it.
Granted(r) ==
    /\ proc[r].at = "grant"
    /\ proc' = [proc EXCEPT ![r] = At("parse", @.from, "proxy",
                                      [key |-> key, exp |-> now + Lifespan])]
    /\ UNCHANGED <<now, drift, key, cache, bearer, faults>>

\* Keycloak cannot be reached or refuses.
NotGranted(r) ==
    /\ proc[r].at = "grant"
    /\ Fault
    /\ End(r, "refused")
    /\ UNCHANGED <<now, drift, key, cache, bearer>>

-----------------------------------------------------------------------------
(* verifyHandler: the request carries the browser's token. *)

\* Faulty: a request without a bearer token goes on to Validate.
VerifyAny(r, b) ==
    /\ proc[r].at \in Over
    /\ proc' = [proc EXCEPT ![r] = At("parse", b, "verify", bearer[b])]
    /\ UNCHANGED <<now, drift, key, cache, bearer, faults>>

Verify(r, b) ==
    /\ proc[r].at \in Over
    /\ bearer[b] # NoToken
    /\ proc' = [proc EXCEPT ![r] = At("parse", b, "verify", bearer[b])]
    /\ UNCHANGED <<now, drift, key, cache, bearer, faults>>

-----------------------------------------------------------------------------
(* Validate, called by both handlers *)

\* jwt.Parse: the signature is made with a key of the set, exp lies ahead.
Parses(t, k) == t.key = k /\ now < t.exp

\* The proxy's end: the token goes, encrypted, to the browser.
HandOver(r) ==
    /\ bearer' = [bearer EXCEPT ![proc[r].from] = proc[r].tok]
    /\ End(r, "idle")

\* verifyHandler copies the claims to the headers.
CopyClaims(r) ==
    /\ proc' = [proc EXCEPT ![r] = [@ EXCEPT !.at = "sign", !.chk = now]]
    /\ UNCHANGED bearer

Accept(r) == IF proc[r].op = "proxy" THEN HandOver(r) ELSE CopyClaims(r)

Parse(r) ==
    /\ proc[r].at = "parse"
    /\ IF Parses(proc[r].tok, cache) THEN Accept(r)
                                     ELSE Go(r, "fetch") /\ UNCHANGED bearer
    /\ UNCHANGED <<now, drift, key, cache, faults>>

\* cache.Refresh: Keycloak answers with its key ...
Fetch(p) ==
    /\ proc[p].at = "fetch"
    /\ proc' = [proc EXCEPT ![p] = [@ EXCEPT !.at = "store", !.ks = key]]
    /\ UNCHANGED <<now, drift, key, cache, bearer, faults>>

\* Faulty: the second parse uses the key set of the first.
RetryKeysOld(r) == cache

\* ... which is stored, and used for the second parse.
RetryKeys(r) == proc[r].ks

Retry(r) ==
    /\ proc[r].at = "store"
    /\ cache' = proc[r].ks
    /\ IF Parses(proc[r].tok, RetryKeys(r)) THEN Accept(r)
                                            ELSE End(r, "refused") /\ UNCHANGED bearer
    /\ UNCHANGED <<now, drift, key, faults>>

\* The refresh fails: the error of the first parse stands.
FetchFails(r) ==
    /\ proc[r].at = "fetch"
    /\ Fault
    /\ End(r, "refused")
    /\ UNCHANGED <<now, drift, key, cache, bearer>>

\* verifyHandler's end: the headers are signed with the time, which is read
\* again and may be later than the one the token was checked at.
SignHeaders(r) ==
    /\ proc[r].at = "sign"
    /\ proc' = [proc EXCEPT ![r] = [@ EXCEPT !.at = "signed", !.ts = now]]
    /\ UNCHANGED <<now, drift, key, cache, bearer, faults>>

-----------------------------------------------------------------------------
(* jwk.Cache refreshes in the background; a failed fetch leaves the cache. *)

BackgroundTick ==
    /\ proc[Background].at = "idle"
    /\ Go(Background, "fetch")
    /\ UNCHANGED <<now, drift, key, cache, bearer, faults>>

\* Faulty: what the background fetch brought is dropped.
BackgroundDrops ==
    /\ proc[Background].at = "store"
    /\ End(Background, "idle")
    /\ UNCHANGED <<now, drift, key, cache, bearer, faults>>

BackgroundStore ==
    /\ proc[Background].at = "store"
    /\ cache' = proc[Background].ks
    /\ End(Background, "idle")
    /\ UNCHANGED <<now, drift, key, bearer, faults>>

BackgroundFails ==
    /\ proc[Background].at = "fetch"
    /\ Fault
    /\ End(Background, "idle")
    /\ UNCHANGED <<now, drift, key, cache, bearer>>

-----------------------------------------------------------------------------
(* The API: VerifyWrapperSignature is the first middleware. *)

\* Faulty: signatures of the past are accepted whatever their age.
WithinSkewFuture(ts) == now + drift - ts >= - MaxSkew

WithinSkew(ts) == - MaxSkew <= now + drift - ts /\ now + drift - ts <= MaxSkew

Arrive(r) ==
    /\ proc[r].at = "signed"
    /\ End(r, IF WithinSkew(proc[r].ts) THEN "idle" ELSE "refused")
    /\ UNCHANGED <<now, drift, key, cache, bearer, faults>>

-----------------------------------------------------------------------------
Tick ==
    /\ now < MaxTime
    /\ now' = now + 1
    /\ UNCHANGED <<drift, key, cache, bearer, proc, faults>>

\* Keycloak comes back with fresh keys.
Rotate ==
    /\ key < MaxRotations
    /\ key' = key + 1
    /\ UNCHANGED <<now, drift, cache, bearer, proc, faults>>

\* What a restart leaves of process p: requests on their way to the API go on.
CutOff(p) ==
    IF p = Background THEN At("idle", proc[p].from, "none", NoToken)
    ELSE IF proc[p].at \in Over \cup {"signed"} THEN proc[p]
    ELSE At("refused", proc[p].from, "none", NoToken)

\* The wrapper restarts: its requests are cut off, the cache is fetched again.
Restart ==
    /\ Fault
    /\ cache' = key
    /\ proc' = [p \in Procs |-> CutOff(p)]
    /\ UNCHANGED <<now, drift, key, bearer>>

Refresh == BackgroundTick \/ Fetch(Background) \/ BackgroundStore

Step(r) ==
    Granted(r) \/ Parse(r) \/ Fetch(r) \/ Retry(r) \/ SignHeaders(r) \/ Arrive(r)

Next ==
    \/ \E r \in Requests, b \in Browsers : AskForToken(r, b) \/ Verify(r, b)
    \/ \E r \in Requests : Step(r) \/ NotGranted(r) \/ FetchFails(r)
    \/ Refresh \/ BackgroundFails
    \/ Tick \/ Rotate \/ Restart

Spec == Init /\ [][Next]_vars

\* Handlers go on, the refresher never stops.
FairSpec == Spec /\ WF_vars(Refresh) /\ \A r \in Requests : WF_vars(Step(r))

-----------------------------------------------------------------------------
\* "The JWKS is force-refreshed and parsing retried once" (jws/validate.go)
\* makes a change of keys harmless: a token is refused only if it has expired,
\* Keycloak has changed its keys since it was signed, or the refresh failed.
RotationHeals ==
    [][\A r \in Requests :
          proc[r].at \in {"fetch", "store"} /\ proc'[r].at = "refused"
              => \/ now >= proc[r].tok.exp
                 \/ proc[r].tok.key < key
                 \/ faults' # faults]_vars

\* "A signature is only accepted within 30s of the API's clock" (wrapsig): a
\* request that the API serves carries a token that has expired, if at all,
\* less than MaxSkew before, by the API's clock, plus the time that the wrapper
\* let pass between the check of exp and the stamp (two readings of its clock).
ExpiredTokenFades ==
    [][\A r \in Requests :
          proc[r].at = "signed" /\ proc'[r].at = "idle"
              => now + drift < proc[r].tok.exp + (proc[r].ts - proc[r].chk) + MaxSkew]_vars

\* "Refreshed in the background" (jwks/cache.go): once Keycloak keeps its keys
\* the cache gets them for good, although fetches may be stored out of order.
CacheCatchesUp == <>[](cache = key)
=============================================================================
