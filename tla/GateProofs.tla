---------------------------- MODULE GateProofs ----------------------------
(***************************************************************************)
(* For every refresh interval and window, fetch time, lifespan and number  *)
(* of changes, deployments and faults: the types, the bound on the lag of  *)
(* the cached keys, and what it means for the answers to requests.         *)
(*                                                                         *)
(* The bound is not inductive.  Waits says how much of the lag is left for *)
(* the refresh that is to come or under way, Missed that a refresh whose   *)
(* answer is out of date leaves room for another.  Order says that keys    *)
(* come into the cache in the order in which Keycloak made them, Handed    *)
(* that no token is for a key pair the API does not have yet.              *)
(***************************************************************************)
EXTENDS ApiGate, TLAPS

Modes ==
    /\ mode = "down" => job.at = "none"
    /\ mode = "starting" => job.at # "none"
    /\ misses <= faults

Waits ==
    mode = "up" /\ cache # key =>
        /\ job.at = "none" => age + due + FetchTime <= Lag(misses)
        /\ job.at # "none" => age + (FetchTime - job.took) <= Lag(misses)

Missed ==
    job.at = "answered" /\ job.got # key =>
        age + (FetchTime - job.took) + Period + FetchTime <= Lag(misses)

Order ==
    /\ cache <= key
    /\ job.at = "answered" => cache <= job.got /\ job.got <= key

Newest == IF pair = NoPair THEN deploys ELSE deploys + 1

Handed ==
    /\ pair \in {NoPair, deploys + 1}
    /\ \A c \in Clients : login[c] <= Newest
    /\ \A c \in Clients : token[c] # NoToken => token[c].pair <= Newest

IInv == TypeOK /\ Modes /\ Waits /\ Missed

-----------------------------------------------------------------------------
LEMMA PeriodType == Period \in Nat /\ NextRefresh \in SUBSET (0 .. Period)
BY GateAssumption DEF Period, NextRefresh

LEMMA LagGrows ==
    ASSUME NEW n \in Nat
    PROVE  /\ Lag(n) \in Nat
           /\ Lag(n) >= Period + FetchTime + FetchTime
           /\ Lag(n + 1) = Lag(n) + Period + FetchTime
<1>1. Period + FetchTime \in Nat /\ FetchTime \in Nat
    BY PeriodType, GateAssumption
<1>2. ASSUME NEW d \in Nat, NEW f \in Nat
      PROVE  /\ (n + 1) * d + f \in Nat
             /\ (n + 1) * d + f >= d + f
             /\ (n + 1 + 1) * d + f = (n + 1) * d + f + d
    <2>1. (n + 1) * d = n * d + d /\ (n + 1 + 1) * d = n * d + d + d /\ n * d \in Nat
        OBVIOUS
    <2>2. QED
        BY <2>1
<1>3. QED
    BY <1>1, <1>2, PeriodType, GateAssumption DEF Lag

\* What Keycloak's answer leaves of the request.
LEMMA Answered ==
    ASSUME TypeOK, KeycloakAnswers
    PROVE  job.at = "asked" /\ job'.at = "answered" /\ job'.got = key /\ job'.took = job.took
BY DEF TypeOK, KeycloakAnswers

\* The types, taken apart for arithmetic.
LEMMA Numbers ==
    ASSUME TypeOK
    PROVE  /\ key \in Nat /\ cache \in Nat /\ age \in Nat /\ misses \in Nat
           /\ due \in Nat /\ due <= Period
           /\ job.took \in Nat /\ job.took <= FetchTime
           /\ job.got \in 0 .. MaxRotations
           /\ job.at \in {"none", "asked", "answered"}
           /\ Period \in Nat /\ FetchTime \in Nat
           /\ Lag(misses) \in Nat
           /\ Lag(misses) >= Period + FetchTime + FetchTime
           /\ Lag(misses + 1) = Lag(misses) + Period + FetchTime
           /\ Lag(0) >= Period + FetchTime + FetchTime /\ Lag(0) \in Nat
           /\ MaxAge \in Nat
<1>1. misses \in Nat /\ MaxFaults \in Nat
    BY GateAssumption DEF TypeOK
<1>2. MaxAge \in Nat
    BY <1>1, LagGrows DEF MaxAge
<1>3. job.took \in 0 .. FetchTime /\ job.got \in 0 .. MaxRotations
      /\ job.at \in {"none", "asked", "answered"}
    BY DEF TypeOK
<1>4. QED
    BY <1>1, <1>2, <1>3, LagGrows, PeriodType, GateAssumption DEF TypeOK

LEMMA InitIInv == Init => IInv
<1> SUFFICES ASSUME Init PROVE IInv
    OBVIOUS
<1>1. MaxAge \in Nat
    BY LagGrows, GateAssumption DEF MaxAge
<1>2. TypeOK
    BY <1>1, PeriodType, GateAssumption DEF Init, TypeOK, NoJob, NoPair, Pairs
<1>3. QED
    BY <1>2 DEF Init, IInv, Modes, Waits, Missed, NoJob

-----------------------------------------------------------------------------
LEMMA NextTypes == IInv /\ [Next]_vars => TypeOK'
<1> SUFFICES ASSUME IInv, [Next]_vars PROVE TypeOK'
    OBVIOUS
<1> USE GateAssumption DEF IInv
<1>n. MaxAge \in Nat /\ Period \in Nat /\ FetchTime \in Nat
    BY Numbers
<1>j. [NoJob EXCEPT !.at = "asked"] \in [at : {"none", "asked", "answered"},
              got : 0 .. MaxRotations, took : 0 .. FetchTime]
      /\ NoJob \in [at : {"none", "asked", "answered"},
              got : 0 .. MaxRotations, took : 0 .. FetchTime]
    BY DEF NoJob
<1>1. CASE Start
    BY <1>1, <1>j DEF Start, TypeOK, keycloak, clients
<1>2. CASE Stop
    BY <1>2, <1>j DEF Stop, Fault, TypeOK, keycloak, clients
<1>3. CASE Deploy
    <2>1. deploys' \in 0 .. MaxDeploys /\ pair' \in {NoPair} \cup Pairs
        BY <1>3 DEF Deploy, TypeOK, Pairs
    <2>2. QED
        BY <1>3, <1>j, <2>1 DEF Deploy, TypeOK, keycloak, clients
<1>4. CASE RefreshBegins
    BY <1>4, <1>j DEF RefreshBegins, TypeOK, keycloak, clients
<1>5. CASE KeycloakAnswers
    <2>1. job' \in [at : {"none", "asked", "answered"}, got : 0 .. MaxRotations,
                    took : 0 .. FetchTime]
        BY <1>5 DEF KeycloakAnswers, TypeOK
    <2>2. QED
        BY <1>5, <2>1 DEF KeycloakAnswers, TypeOK, keycloak, clients
<1>6. CASE RefreshEnds
    BY <1>6, <1>j, PeriodType DEF RefreshEnds, Fetched, TypeOK, keycloak, clients
<1>7. CASE RefreshFails
    <2>1. misses' \in 0 .. MaxFaults /\ faults' \in 0 .. MaxFaults
        BY <1>7 DEF RefreshFails, Fault, TypeOK, Modes
    <2>2. QED
        BY <1>7, <1>j, <2>1, PeriodType DEF RefreshFails, AfterFailure, TypeOK, clients
<1>8. CASE Rotate
    BY <1>8, <1>n DEF Rotate, TypeOK, api, clients
<1>9. ASSUME NEW c \in Clients, FetchPublicKey(c) PROVE TypeOK'
    BY <1>9 DEF FetchPublicKey, TypeOK, keycloak, api
<1>10. ASSUME NEW c \in Clients, NEW p \in {NoPair} \cup Pairs, Issue(c, p)
       PROVE  token' \in [Clients -> Token \cup {NoToken}]
    <2>1. PICK roles \in SUBSET {"admin"} :
              token' = [token EXCEPT ![c] =
                  [key |-> key, pair |-> p, roles |-> roles, left |-> Lifespan]]
        BY <1>10 DEF Issue
    <2>2. [key |-> key, pair |-> p, roles |-> roles, left |-> Lifespan] \in Token
        BY DEF Token, TypeOK
    <2>3. QED
        BY <2>1, <2>2 DEF TypeOK
<1>11. ASSUME NEW c \in Clients, IssueToken(c) PROVE TypeOK'
    <2>1. login[c] \in {NoPair} \cup Pairs
        BY DEF TypeOK
    <2>2. token' \in [Clients -> Token \cup {NoToken}]
        BY <1>10, <1>11, <2>1 DEF IssueToken
    <2>3. QED
        BY <1>11, <2>2 DEF IssueToken, TypeOK, keycloak, api
<1>12. ASSUME NEW c \in Clients, IssuePlain(c) PROVE TypeOK'
    <2>1. token' \in [Clients -> Token \cup {NoToken}]
        BY <1>10, <1>12 DEF IssuePlain
    <2>2. QED
        BY <1>12, <2>1 DEF IssuePlain, TypeOK, keycloak, api
<1>13. CASE Tick
    <2>1. age' \in 0 .. MaxAge
        BY <1>13, <1>n DEF Tick, TypeOK
    <2>2. due' \in 0 .. Period
        BY <1>13, <1>n DEF Tick, TypeOK
    <2>3. job' \in [at : {"none", "asked", "answered"}, got : 0 .. MaxRotations,
                    took : 0 .. FetchTime]
        <3>1. CASE job.at = "none"
            BY <1>13, <3>1 DEF Tick, TypeOK
        <3>2. CASE job.at # "none"
            <4>1. job.took < FetchTime /\ job' = [job EXCEPT !.took = @ + 1]
                BY <1>13, <3>2 DEF Tick, Modes
            <4>2. job.took + 1 \in 0 .. FetchTime
                BY <4>1, Numbers
            <4>3. QED
                BY <4>1, <4>2 DEF TypeOK
        <3>3. QED
            BY <3>1, <3>2
    <2>4. token' \in [Clients -> Token \cup {NoToken}]
        <3>1. ASSUME NEW t \in Token, t.left # 0
              PROVE  [t EXCEPT !.left = @ - 1] \in Token
            BY <3>1 DEF Token
        <3>2. QED
            BY <1>13, <3>1 DEF Tick, TypeOK
    <2>5. QED
        BY <1>13, <2>1, <2>2, <2>3, <2>4 DEF Tick, TypeOK
<1>14. CASE UNCHANGED vars
    BY <1>14 DEF vars, keycloak, api, clients, TypeOK
<1>15. QED
    BY <1>1, <1>2, <1>3, <1>4, <1>5, <1>6, <1>7, <1>8, <1>9, <1>11, <1>12, <1>13, <1>14
       DEF Next, Refresh

LEMMA NextModes == IInv /\ [Next]_vars => Modes'
<1> SUFFICES ASSUME IInv, [Next]_vars PROVE Modes'
    OBVIOUS
<1> USE DEF IInv, NoJob
<1>n. misses \in Nat /\ faults \in Nat
    BY GateAssumption DEF TypeOK
<1>1. CASE Start \/ Stop \/ Deploy
    BY <1>1, <1>n DEF Start, Stop, Deploy, Fault, Modes, keycloak
<1>2. CASE Refresh
    <2>1. CASE RefreshBegins
        BY <2>1 DEF RefreshBegins, Modes, keycloak
    <2>2. CASE KeycloakAnswers
        BY <2>2, Answered DEF KeycloakAnswers, Modes, keycloak
    <2>3. CASE RefreshEnds
        BY <2>3 DEF RefreshEnds, Modes, keycloak
    <2>4. QED
        BY <1>2, <2>1, <2>2, <2>3 DEF Refresh
<1>3. CASE RefreshFails
    BY <1>3, <1>n DEF RefreshFails, AfterFailure, Fault, Modes, TypeOK
<1>4. CASE Rotate
    BY <1>4, <1>n DEF Rotate, Modes, api
<1>5. CASE \E c \in Clients : FetchPublicKey(c) \/ IssueToken(c) \/ IssuePlain(c)
    BY <1>5 DEF FetchPublicKey, IssueToken, IssuePlain, Modes, keycloak, api
<1>6. CASE Tick
    BY <1>6 DEF Tick, Modes
<1>7. CASE UNCHANGED vars
    BY <1>7 DEF vars, keycloak, api, Modes
<1>8. QED
    BY <1>1, <1>2, <1>3, <1>4, <1>5, <1>6, <1>7 DEF Next

LEMMA NextWaits == IInv /\ [Next]_vars => Waits' /\ Missed'
<1> SUFFICES ASSUME IInv, [Next]_vars PROVE Waits' /\ Missed'
    OBVIOUS
<1> USE DEF IInv, NoJob
<1>n. TypeOK
    OBVIOUS
<1>1. CASE Start \/ Stop \/ Deploy
    BY <1>1 DEF Start, Stop, Deploy, Waits, Missed, keycloak
<1>2. CASE RefreshBegins
    BY <1>2, Numbers DEF RefreshBegins, Waits, Missed, keycloak, Lag
<1>3. CASE KeycloakAnswers
    BY <1>3, Answered DEF KeycloakAnswers, Waits, Missed, keycloak, Lag
<1>4. CASE RefreshEnds
    <2>1. /\ job.at = "answered" /\ cache' = job.got /\ due' \in 0 .. Period /\ job'.at = "none"
          /\ UNCHANGED <<key, age, misses>>
        BY <1>4, PeriodType DEF RefreshEnds, Fetched, keycloak
    <2>2. Lag(misses)' = Lag(misses)
        BY <2>1 DEF Lag
    <2>3. QED
        BY <2>1, <2>2, Numbers DEF Waits, Missed
<1>5. CASE RefreshFails
    <2>1. /\ job.at # "none" /\ due' \in 0 .. Period /\ job'.at = "none"
          /\ mode' = "up" => mode # "starting"
          /\ UNCHANGED <<key, age, cache>>
        BY <1>5, PeriodType DEF RefreshFails, AfterFailure
    <2>2. Lag(misses)' = Lag(misses + 1)
        BY <1>5 DEF RefreshFails, Lag
    <2>3. mode' = "up" => mode = "up"
        BY <2>1 DEF Modes, TypeOK
    <2>4. QED
        BY <2>1, <2>2, <2>3, Numbers DEF Waits, Missed
<1>6. CASE Rotate
    BY <1>6, Numbers DEF Rotate, Waits, Missed, api
<1>7. CASE \E c \in Clients : FetchPublicKey(c) \/ IssueToken(c) \/ IssuePlain(c)
    BY <1>7 DEF FetchPublicKey, IssueToken, IssuePlain, Waits, Missed, keycloak, api
<1>8. CASE Tick
    BY <1>8, Numbers DEF Tick, Waits, Missed
<1>9. CASE UNCHANGED vars
    BY <1>9 DEF vars, keycloak, api, Waits, Missed
<1>10. QED
    BY <1>1, <1>2, <1>3, <1>4, <1>5, <1>6, <1>7, <1>8, <1>9 DEF Next, Refresh

LEMMA SpecIInv == Spec => []IInv
<1>1. IInv /\ [Next]_vars => IInv'
    BY NextTypes, NextModes, NextWaits DEF IInv
<1>2. QED
    BY <1>1, InitIInv, PTL DEF Spec

LEMMA LagIsBounded == IInv => CacheLagsBriefly
BY Numbers DEF IInv, Waits, CacheLagsBriefly

-----------------------------------------------------------------------------
\* The types of the gate: a fetch never takes longer than it may, no refresh is
\* missed, and no key is cached that Keycloak never had.
THEOREM TypeCorrect == Spec => []TypeOK
<1>1. IInv => TypeOK
    BY DEF IInv
<1>2. QED
    BY <1>1, SpecIInv, PTL

\* However refreshes, changes of Keycloak's keys, restarts and failing fetches
\* interleave, KeyCache lags behind Keycloak for no longer than Lag.
THEOREM LagTheorem == Spec => []CacheLagsBriefly
BY LagIsBounded, SpecIInv, PTL

-----------------------------------------------------------------------------
(* What requests are answered *)

\* Keys come into the cache in Keycloak's order.
LEMMA NextOrder == IInv /\ Order /\ [Next]_vars => Order'
<1> SUFFICES ASSUME IInv, Order, [Next]_vars PROVE Order'
    OBVIOUS
<1> USE DEF NoJob
<1>n. TypeOK /\ key \in Nat /\ cache \in Nat
    BY Numbers DEF IInv
<1>1. CASE Start \/ Stop \/ Deploy \/ RefreshBegins
    BY <1>1 DEF Start, Stop, Deploy, RefreshBegins, Order, keycloak
<1>2. CASE KeycloakAnswers
    BY <1>2, <1>n, Answered DEF KeycloakAnswers, Order, keycloak
<1>3. CASE RefreshEnds
    BY <1>3 DEF RefreshEnds, Fetched, Order, keycloak
<1>4. CASE RefreshFails
    BY <1>4 DEF RefreshFails, Order
<1>5. CASE Rotate
    <2>1. /\ key' = key + 1 /\ UNCHANGED <<cache, job>>
          /\ job.got \in 0 .. MaxRotations
        BY <1>5, <1>n, Numbers DEF Rotate, api
    <2>2. QED
        BY <2>1, <1>n, GateAssumption DEF Order
<1>6. CASE \E c \in Clients : FetchPublicKey(c) \/ IssueToken(c) \/ IssuePlain(c)
    BY <1>6 DEF FetchPublicKey, IssueToken, IssuePlain, Order, keycloak, api
<1>7. CASE Tick
    <2>1. UNCHANGED <<key, cache>> /\ job'.at = job.at /\ job'.got = job.got
        BY <1>7, <1>n DEF Tick, TypeOK
    <2>2. QED
        BY <2>1 DEF Order
<1>8. CASE UNCHANGED vars
    BY <1>8 DEF vars, keycloak, api, Order
<1>9. QED
    BY <1>1, <1>2, <1>3, <1>4, <1>5, <1>6, <1>7, <1>8 DEF Next, Refresh

\* No token is for a key pair the API has yet to get.
LEMMA NextHanded == IInv /\ Handed /\ [Next]_vars => Handed'
<1> SUFFICES ASSUME IInv, Handed, [Next]_vars PROVE Handed'
    OBVIOUS
<1>n. /\ deploys \in Nat /\ Newest \in Nat /\ NoPair <= Newest
      /\ \A c \in Clients : login[c] \in Nat
      /\ \A c \in Clients : token[c] # NoToken => token[c] \in Token /\ token[c].pair \in Nat
    BY GateAssumption DEF IInv, TypeOK, NoPair, Pairs, Newest, Token
<1>i. ASSUME NEW c \in Clients, NEW p, p <= Newest, Issue(c, p), UNCHANGED <<pair, deploys>>,
             \A d \in Clients : login'[d] <= Newest
      PROVE  Handed'
    <2>1. PICK roles \in SUBSET {"admin"} :
              token' = [token EXCEPT ![c] =
                  [key |-> key, pair |-> p, roles |-> roles, left |-> Lifespan]]
        BY <1>i DEF Issue
    <2>2. ASSUME NEW d \in Clients, token'[d] # NoToken PROVE token'[d].pair <= Newest
        <3>1. token \in [Clients -> Token \cup {NoToken}]
            BY DEF IInv, TypeOK
        <3>2. QED
            BY <1>i, <2>1, <2>2, <3>1 DEF Handed
    <2>3. Newest' = Newest
        BY <1>i DEF Newest
    <2>4. QED
        BY <1>i, <2>2, <2>3 DEF Handed
<1>1. CASE UNCHANGED <<pair, deploys, login, token>>
    BY <1>1 DEF Handed, Newest
<1>2. CASE Deploy
    <2>1. /\ deploys' = deploys + 1 /\ pair' \in {NoPair, deploys + 2}
          /\ UNCHANGED <<login, token>>
        BY <1>2 DEF Deploy, clients
    <2>2. Newest <= Newest' /\ Newest' \in Nat /\ deploys' + 1 = deploys + 2
        BY <2>1, <1>n DEF Newest
    <2>3. pair' \in {NoPair, deploys' + 1}
        BY <2>1, <2>2
    <2>4. ASSUME NEW c \in Clients PROVE login'[c] <= Newest'
        BY <2>1, <2>2, <1>n DEF Handed
    <2>5. ASSUME NEW c \in Clients, token'[c] # NoToken PROVE token'[c].pair <= Newest'
        BY <2>1, <2>2, <2>5, <1>n DEF Handed
    <2>6. QED
        BY <2>3, <2>4, <2>5 DEF Handed
<1>3. ASSUME NEW c \in Clients, FetchPublicKey(c) PROVE Handed'
    <2>1. pair = Newest /\ UNCHANGED <<pair, deploys, token>>
        BY <1>3 DEF FetchPublicKey, Handed, Newest, api
    <2>2. login' = [login EXCEPT ![c] = Newest] /\ login \in [Clients -> {NoPair} \cup Pairs]
        BY <1>3, <2>1 DEF FetchPublicKey, IInv, TypeOK
    <2>3. Newest' = Newest
        BY <2>1 DEF Newest
    <2>4. \A d \in Clients : login'[d] <= Newest
        BY <2>2, <1>n DEF Handed
    <2>5. QED
        BY <2>1, <2>3, <2>4 DEF Handed
<1>4. ASSUME NEW c \in Clients, IssueToken(c) PROVE Handed'
    <2>1. login' = [login EXCEPT ![c] = NoPair] /\ login \in [Clients -> {NoPair} \cup Pairs]
        BY <1>4 DEF IssueToken, IInv, TypeOK
    <2>2. \A d \in Clients : login'[d] <= Newest
        BY <2>1, <1>n DEF Handed
    <2>3. login[c] <= Newest
        BY DEF Handed
    <2>4. QED
        BY <1>4, <1>i, <2>2, <2>3 DEF IssueToken, api
<1>5. ASSUME NEW c \in Clients, IssuePlain(c) PROVE Handed'
    <2>1. \A d \in Clients : login'[d] <= Newest
        BY <1>5 DEF IssuePlain, Handed
    <2>2. QED
        BY <1>5, <1>i, <1>n, <2>1 DEF IssuePlain, api
<1>6. CASE Tick
    <2>1. UNCHANGED <<pair, deploys, login>>
        BY <1>6 DEF Tick
    <2>2. ASSUME NEW c \in Clients, token'[c] # NoToken
          PROVE  token[c] # NoToken /\ token'[c].pair = token[c].pair
        BY <1>6, <2>2, <1>n DEF Tick, Token
    <2>3. Newest' = Newest
        BY <2>1 DEF Newest
    <2>4. QED
        BY <2>1, <2>2, <2>3 DEF Handed
<1>7. CASE Start \/ Stop \/ Refresh \/ RefreshFails \/ Rotate \/ UNCHANGED vars
    BY <1>1, <1>7 DEF Start, Stop, Refresh, RefreshBegins, KeycloakAnswers, RefreshEnds,
          RefreshFails, Rotate, vars, api, clients
<1>8. QED
    BY <1>2, <1>3, <1>4, <1>5, <1>6, <1>7 DEF Next

LEMMA SpecAnswers == Spec => [](IInv /\ Order /\ Handed)
<1>1. Init => Order /\ Handed
    BY GateAssumption DEF Init, Order, Handed, Newest, NoPair, NoJob
<1>2. QED
    BY <1>1, SpecIInv, NextOrder, NextHanded, PTL DEF Spec

\* Middleware refuses a live token only for one of the three reasons, however
\* logins, deployments, key changes and refreshes interleave: what a stale
\* cache adds to them ends with the lag.
THEOREM RefusalTheorem == Spec => []RefusedForAReason
<1>1. ASSUME IInv, Handed PROVE RefusedForAReason
    <2>1. SUFFICES ASSUME NEW c \in Clients, mode = "up", token[c] # NoToken,
                          token[c].left > 0, Answer(c, "accounts") = "401",
                          token[c].key = key, ~ (age <= Lag(misses))
                   PROVE  token[c].pair \in 1 .. deploys
        BY DEF RefusedForAReason
    <2>2. cache = key
        BY <1>1, <2>1, LagIsBounded DEF CacheLagsBriefly
    <2>3. token[c].pair \notin {NoPair, pair}
        BY <2>1, <2>2 DEF Answer, Decrypts, Parses
    <2>4. token[c] \in Token /\ deploys \in Nat
        BY <1>1, <2>1, GateAssumption DEF IInv, TypeOK
    <2>5. token[c].pair \in Nat /\ token[c].pair >= 1
        BY <2>3, <2>4, GateAssumption DEF Token, Pairs
    <2>6. token[c].pair <= deploys
        BY <1>1, <2>1, <2>3, <2>4, <2>5 DEF Handed, Newest
    <2>7. QED
        BY <2>4, <2>5, <2>6
<1>2. QED
    BY <1>1, SpecAnswers, PTL

\* A refresh of KeyCache, whether it fails or brings an answer that Keycloak
\* gave a while ago, never makes Middleware refuse a token it has accepted and
\* that Keycloak still stands by.
THEOREM AcceptedTheorem == Spec => AcceptedStaysAccepted
<1>1. ASSUME IInv, Order, [Next]_vars,
             NEW c \in Clients, NEW route \in Routes,
             mode = "up", Answer(c, route) = "handled", pair' = pair, token[c].key = key',
             NEW left \in 1 .. Lifespan, token'[c] = [token[c] EXCEPT !.left = left]
      PROVE  Answer(c, route)' = "handled"
    <2>1. /\ token[c] # NoToken /\ token[c].pair \in {NoPair, pair} /\ token[c].key = cache
          /\ route = "admin" => "admin" \in token[c].roles
        BY <1>1 DEF Answer, Decrypts, Parses, RealmRoles
    <2>2. token[c] \in Token
        BY <1>1, <2>1 DEF IInv, TypeOK
    <2>3. /\ token'[c].pair = token[c].pair /\ token'[c].key = token[c].key
          /\ token'[c].roles = token[c].roles /\ token'[c].left = left
        BY <1>1, <2>2 DEF Token
    <2>4. cache' = cache \/ (job.at = "answered" /\ cache' = job.got /\ key' = key)
        <3>1. CASE \E d \in Clients : FetchPublicKey(d) \/ IssueToken(d) \/ IssuePlain(d)
            BY <3>1 DEF FetchPublicKey, IssueToken, IssuePlain, api
        <3>2. CASE RefreshEnds
            BY <3>2 DEF RefreshEnds, Fetched, keycloak
        <3>3. CASE \/ Start \/ Stop \/ Deploy \/ RefreshBegins \/ KeycloakAnswers
                   \/ RefreshFails \/ Rotate \/ Tick \/ UNCHANGED vars
            BY <3>3 DEF Start, Stop, Deploy, RefreshBegins, KeycloakAnswers, RefreshFails,
                  Rotate, Tick, vars, api
        <3>4. QED
            BY <1>1, <3>1, <3>2, <3>3 DEF Next, Refresh
    <2>5. cache' = cache
        <3>1. CASE job.at = "answered" /\ cache' = job.got /\ key' = key
            <4>1. cache = key /\ cache <= job.got /\ job.got <= key
                BY <1>1, <2>1, <3>1 DEF Order
            <4>2. job.got \in Int /\ key \in Int
                BY <1>1, Numbers DEF IInv
            <4>3. QED
                BY <3>1, <4>1, <4>2
        <3>2. QED
            BY <2>4, <3>1
    <2>6. token'[c] # NoToken
        <3>1. token'[c] \in Token
            BY <1>1, <2>2 DEF Token
        <3>2. QED
            BY <3>1, NoTokenAssumption
    <2>7. left > 0
        BY GateAssumption
    <2>8. QED
        BY <1>1, <2>1, <2>3, <2>5, <2>6, <2>7 DEF Answer, Decrypts, Parses, RealmRoles
<1>2. IInv /\ Order /\ [Next]_vars =>
          [\A c \in Clients, route \in Routes :
               /\ mode = "up" /\ Answer(c, route) = "handled"
               /\ mode' = "up" /\ pair' = pair /\ token[c].key = key'
               /\ \E left \in 1 .. Lifespan : token'[c] = [token[c] EXCEPT !.left = left]
               => Answer(c, route)' = "handled"]_vars
    BY <1>1
<1>3. QED
    BY <1>2, SpecAnswers, PTL DEF Spec, AcceptedStaysAccepted
=============================================================================
