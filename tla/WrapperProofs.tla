--------------------------- MODULE WrapperProofs ---------------------------
(***************************************************************************)
(* Theorems about TokenWrapper.  The invariant says what a request relies  *)
(* on between two calls: its token was signed with a key Keycloak has or   *)
(* had, a fetched key is no older than the token's, and the token was good *)
(* when it was checked, before the headers were signed.                    *)
(***************************************************************************)
EXTENDS TokenWrapper, TLAPS

\* What holds of a process with record g when Keycloak's key is k.
Sound(g, k) ==
    /\ g.ks <= k
    /\ g.at = "grant" => g.op = "proxy"

SoundRequest(g, k) ==
    /\ g.at \in HasToken => g.tok \in Token /\ g.tok.key <= k
    /\ g.at = "store" => g.tok.key <= g.ks
    /\ g.at \in {"sign", "signed"} => g.chk < g.tok.exp

IInv ==
    /\ TypeOK
    /\ \A p \in Procs : Sound(proc[p], key)
    /\ \A r \in Requests : SoundRequest(proc[r], key)
    /\ \A b \in Browsers : bearer[b] \in Token => bearer[b].key <= key

LEMMA InitIInv == ASSUME Init PROVE IInv
<1> DEFINE b0 == CHOOSE b \in Browsers : TRUE
<1>1. b0 \in Browsers
  BY WrapperAssumption
<1>2. At("idle", b0, "none", NoToken) \in Process
  BY <1>1 DEF At, Process, Labels, Over
<1>3. proc = [p \in Procs |-> At("idle", b0, "none", NoToken)]
  BY DEF Init
<1> HIDE DEF b0
<1>4. proc \in [Procs -> Process]
  BY <1>2, <1>3
<1>5. \A p \in Procs : /\ proc[p].ks = 0
                       /\ proc[p].at = "idle"
  BY <1>3 DEF At
<1>6. key = 0 /\ now = 0 /\ cache = 0 /\ faults = 0 /\ drift \in Drifts
  BY DEF Init
<1>7. TypeOK
  <2>1. bearer \in [Browsers -> Token \cup {NoToken}]
    BY DEF Init
  <2>2. \A r \in Requests : proc[r].at \notin HasToken
    BY <1>5 DEF HasToken, Procs
  <2> QED
    BY <1>4, <1>6, <2>1, <2>2, WrapperAssumption DEF TypeOK
<1>8. \A p \in Procs : Sound(proc[p], key)
  BY <1>5, <1>6 DEF Sound
<1>9. \A r \in Requests : SoundRequest(proc[r], key)
  BY <1>5 DEF SoundRequest, HasToken, Procs
<1>10. \A b \in Browsers : bearer[b] = NoToken
  BY DEF Init
<1> QED
  BY <1>7, <1>8, <1>9, <1>10, NoTokenAssumption DEF IInv

\* A step of one process keeps the invariant if its new record does and the
\* variables it shares stay in range.
LEMMA ProcessStep ==
    ASSUME IInv, NEW p \in Procs, NEW g \in Process,
           proc' = [proc EXCEPT ![p] = g],
           Sound(g, key), p \in Requests => SoundRequest(g, key),
           UNCHANGED <<now, drift, key>>,
           cache' \in 0 .. MaxRotations,
           faults' \in 0 .. MaxFaults,
           bearer' \in [Browsers -> Token \cup {NoToken}],
           \A b \in Browsers : bearer'[b] \in Token => bearer'[b].key <= key
    PROVE  IInv'
<1>1. \A q \in Procs : proc'[q] = IF q = p THEN g ELSE proc[q]
  BY DEF IInv, TypeOK
<1>2. proc' \in [Procs -> Process]
  BY DEF IInv, TypeOK
<1>3. \A q \in Procs : Sound(proc[q], key)'
  BY <1>1 DEF IInv, Sound
<1>4. \A r \in Requests : SoundRequest(proc[r], key)'
  BY <1>1 DEF IInv, SoundRequest, Procs
<1>5. TypeOK'
  <2>1. \A r \in Requests : proc'[r].at \in HasToken => proc'[r].tok \in Token
    BY <1>4 DEF SoundRequest
  <2> QED
    BY <1>2, <2>1 DEF IInv, TypeOK
<1> QED
  BY <1>3, <1>4, <1>5 DEF IInv

\* A request that is over, or has nothing at hand yet, is sound.
LEMMA AtRest ==
    ASSUME IInv, NEW b \in Browsers, NEW label \in {"idle", "refused", "grant"},
           NEW op \in {"none", "proxy"}, label = "grant" => op = "proxy"
    PROVE  /\ At(label, b, op, NoToken) \in Process
           /\ Sound(At(label, b, op, NoToken), key)
           /\ SoundRequest(At(label, b, op, NoToken), key)
<1>1. key \in Nat
  BY WrapperAssumption DEF IInv, TypeOK
<1> QED
  BY <1>1 DEF At, Process, Labels, Over, HasToken, Sound, SoundRequest

\* A request that has just got its token is sound.
LEMMA WithToken ==
    ASSUME IInv, NEW b \in Browsers, NEW op \in {"verify", "proxy"},
           NEW t \in Token, t.key <= key
    PROVE  /\ At("parse", b, op, t) \in Process
           /\ Sound(At("parse", b, op, t), key)
           /\ SoundRequest(At("parse", b, op, t), key)
<1>1. key \in Nat
  BY WrapperAssumption DEF IInv, TypeOK
<1> QED
  BY <1>1 DEF At, Process, Labels, Over, HasToken, Sound, SoundRequest

LEMMA EndKeepsIInv ==
    ASSUME IInv, NEW p \in Procs, NEW label \in Over, End(p, label),
           UNCHANGED <<now, drift, key>>,
           cache' \in 0 .. MaxRotations, faults' \in 0 .. MaxFaults,
           bearer' \in [Browsers -> Token \cup {NoToken}],
           \A b \in Browsers : bearer'[b] \in Token => bearer'[b].key <= key
    PROVE  IInv'
<1>1. proc[p].from \in Browsers
  BY DEF IInv, TypeOK, Process
<1> DEFINE g == At(label, proc[p].from, "none", NoToken)
<1>2. g \in Process /\ Sound(g, key) /\ SoundRequest(g, key)
  BY <1>1, AtRest DEF Over
<1>3. proc' = [proc EXCEPT ![p] = g]
  BY DEF End
<1> HIDE DEF g
<1> QED
  BY <1>2, <1>3, ProcessStep

\* A process that moves on to label and leaves the shared variables alone.
LEMMA GoKeepsIInv ==
    ASSUME IInv, NEW p \in Procs, NEW label \in {"fetch"}, Go(p, label),
           p \in Requests => proc[p].at \in HasToken,
           UNCHANGED <<now, drift, key, cache, bearer, faults>>
    PROVE  IInv'
<1> DEFINE g == [proc[p] EXCEPT !.at = label]
<1>1. proc[p] \in Process
  BY DEF IInv, TypeOK
<1>2. /\ g \in Process /\ g.at = "fetch"
      /\ g.ks = proc[p].ks /\ g.tok = proc[p].tok
  BY <1>1 DEF Process, Labels, Over, HasToken
<1>3. proc' = [proc EXCEPT ![p] = g]
  BY DEF Go
<1> HIDE DEF g
<1>4. Sound(g, key)
  BY <1>2 DEF IInv, Sound
<1>5. p \in Requests => SoundRequest(g, key)
  BY <1>2 DEF IInv, SoundRequest, HasToken
<1>6. /\ cache' \in 0 .. MaxRotations /\ faults' \in 0 .. MaxFaults
      /\ bearer' \in [Browsers -> Token \cup {NoToken}]
      /\ \A b \in Browsers : bearer'[b] \in Token => bearer'[b].key <= key
  BY DEF IInv, TypeOK
<1> QED
  BY <1>2, <1>3, <1>4, <1>5, <1>6, ProcessStep

\* Validate's second half, for a token that was valid with key k.
LEMMA AcceptKeepsIInv ==
    ASSUME IInv, NEW r \in Requests, proc[r].at \in {"parse", "store"},
           NEW k, Parses(proc[r].tok, k), Accept(r),
           UNCHANGED <<now, drift, key, faults>>, cache' \in 0 .. MaxRotations
    PROVE  IInv'
<1>1. /\ proc[r] \in Process /\ r \in Procs
      /\ proc[r].tok \in Token /\ proc[r].tok.key <= key
      /\ now < proc[r].tok.exp /\ now \in Nat
  BY DEF IInv, TypeOK, SoundRequest, HasToken, Parses, Procs
<1>2. faults' \in 0 .. MaxFaults
  BY DEF IInv, TypeOK
<1>3. CASE proc[r].op = "proxy"
  <2>1. bearer' = [bearer EXCEPT ![proc[r].from] = proc[r].tok] /\ End(r, "idle")
    BY <1>3 DEF Accept, HandOver, CopyClaims
  <2>2. bearer' \in [Browsers -> Token \cup {NoToken}]
    BY <1>1, <2>1 DEF IInv, TypeOK, Process
  <2>3. \A b \in Browsers : bearer'[b] \in Token => bearer'[b].key <= key
    BY <1>1, <2>1 DEF IInv, TypeOK
  <2> QED
    BY <1>1, <1>2, <2>1, <2>2, <2>3, EndKeepsIInv DEF Over
<1>4. CASE proc[r].op # "proxy"
  <2> DEFINE g == [proc[r] EXCEPT !.at = "sign", !.chk = now]
  <2>1. proc' = [proc EXCEPT ![r] = g] /\ bearer' = bearer
    BY <1>4 DEF Accept, HandOver, CopyClaims
  <2>2. /\ g \in Process /\ g.at = "sign" /\ g.chk = now
        /\ g.tok = proc[r].tok /\ g.ks = proc[r].ks
    BY <1>1 DEF Process, Labels, Over, HasToken
  <2> HIDE DEF g
  <2>3. Sound(g, key)
    BY <1>1, <2>2 DEF IInv, Sound
  <2>4. SoundRequest(g, key)
    BY <1>1, <2>2 DEF SoundRequest, HasToken
  <2>5. /\ bearer' \in [Browsers -> Token \cup {NoToken}]
        /\ \A b \in Browsers : bearer'[b] \in Token => bearer'[b].key <= key
    BY <2>1 DEF IInv, TypeOK
  <2> QED
    BY <1>1, <1>2, <2>1, <2>2, <2>3, <2>4, <2>5, ProcessStep
<1> QED
  BY <1>3, <1>4

\* Signing leaves the token and the time of its check.
LEMMA SignHeadersKeepsIInv ==
    ASSUME IInv, NEW r \in Requests, SignHeaders(r)
    PROVE  IInv'
<1> DEFINE g == [proc[r] EXCEPT !.at = "signed", !.ts = now]
<1>1. /\ proc[r] \in Process /\ r \in Procs /\ proc[r].at = "sign"
      /\ now \in Nat
  BY WrapperAssumption DEF IInv, TypeOK, Procs, SignHeaders
<1>2. /\ g \in Process /\ g.at = "signed" /\ g.chk = proc[r].chk
      /\ g.tok = proc[r].tok /\ g.ks = proc[r].ks
  BY <1>1 DEF Process, Labels, Over, HasToken
<1>3. /\ proc' = [proc EXCEPT ![r] = g]
      /\ UNCHANGED <<now, drift, key, cache, bearer, faults>>
  BY DEF SignHeaders
<1> HIDE DEF g
<1>4. Sound(g, key)
  BY <1>1, <1>2 DEF IInv, Sound
<1>5. SoundRequest(g, key)
  BY <1>1, <1>2 DEF IInv, SoundRequest, HasToken
<1>6. /\ cache' \in 0 .. MaxRotations /\ faults' \in 0 .. MaxFaults
      /\ bearer' \in [Browsers -> Token \cup {NoToken}]
      /\ \A b \in Browsers : bearer'[b] \in Token => bearer'[b].key <= key
  BY <1>3 DEF IInv, TypeOK
<1> QED
  BY <1>1, <1>2, <1>3, <1>4, <1>5, <1>6, ProcessStep

-----------------------------------------------------------------------------
(* One lemma per action, or per group of actions of one kind. *)

\* A request starts: for the token proxy, or with the token of its browser.
LEMMA StartKeepsIInv ==
    ASSUME IInv, NEW r \in Requests, NEW b \in Browsers,
           AskForToken(r, b) \/ Verify(r, b)
    PROVE  IInv'
<1>1. r \in Procs
  BY DEF Procs
<1>2. UNCHANGED <<now, drift, key, cache, bearer, faults>>
  BY DEF AskForToken, Verify
<1>3. /\ cache' \in 0 .. MaxRotations /\ faults' \in 0 .. MaxFaults
      /\ bearer' \in [Browsers -> Token \cup {NoToken}]
      /\ \A c \in Browsers : bearer'[c] \in Token => bearer'[c].key <= key
  BY <1>2 DEF IInv, TypeOK
<1>4. CASE AskForToken(r, b)
  <2> DEFINE g == At("grant", b, "proxy", NoToken)
  <2>1. proc' = [proc EXCEPT ![r] = g]
    BY <1>4 DEF AskForToken
  <2>2. g \in Process /\ Sound(g, key) /\ SoundRequest(g, key)
    BY AtRest
  <2> HIDE DEF g
  <2> QED
    BY <1>1, <1>2, <1>3, <2>1, <2>2, ProcessStep
<1>5. CASE Verify(r, b)
  <2> DEFINE g == At("parse", b, "verify", bearer[b])
  <2>1. proc' = [proc EXCEPT ![r] = g] /\ bearer[b] # NoToken
    BY <1>5 DEF Verify
  <2>2. bearer[b] \in Token /\ bearer[b].key <= key
    BY <2>1 DEF IInv, TypeOK
  <2>3. g \in Process /\ Sound(g, key) /\ SoundRequest(g, key)
    BY <2>2, WithToken
  <2> HIDE DEF g
  <2> QED
    BY <1>1, <1>2, <1>3, <2>1, <2>3, ProcessStep
<1> QED
  BY <1>4, <1>5

LEMMA GrantedKeepsIInv ==
    ASSUME IInv, NEW r \in Requests, Granted(r)
    PROVE  IInv'
<1>1. r \in Procs /\ proc[r].from \in Browsers
  BY DEF Procs, IInv, TypeOK, Process
<1>2. UNCHANGED <<now, drift, key, cache, bearer, faults>>
  BY DEF Granted
<1>3. /\ cache' \in 0 .. MaxRotations /\ faults' \in 0 .. MaxFaults
      /\ bearer' \in [Browsers -> Token \cup {NoToken}]
      /\ \A c \in Browsers : bearer'[c] \in Token => bearer'[c].key <= key
  BY <1>2 DEF IInv, TypeOK
<1> DEFINE t == [key |-> key, exp |-> now + Lifespan]
           g == At("parse", proc[r].from, "proxy", t)
<1>4. t \in Token /\ t.key <= key
  BY WrapperAssumption DEF IInv, TypeOK, Token
<1>5. proc' = [proc EXCEPT ![r] = g]
  BY DEF Granted
<1> HIDE DEF t
<1>6. g \in Process /\ Sound(g, key) /\ SoundRequest(g, key)
  BY <1>1, <1>4, WithToken
<1> HIDE DEF g
<1> QED
  BY <1>1, <1>2, <1>3, <1>5, <1>6, ProcessStep

\* What ends a request without touching the browser.
LEMMA EndingsKeepIInv ==
    ASSUME IInv, NEW r \in Requests, NotGranted(r) \/ FetchFails(r) \/ Arrive(r)
    PROVE  IInv'
<1>1. UNCHANGED <<now, drift, key, cache, bearer>> /\ faults' \in 0 .. MaxFaults
  BY WrapperAssumption DEF IInv, TypeOK, Fault, NotGranted, FetchFails, Arrive
<1>2. /\ cache' \in 0 .. MaxRotations
      /\ bearer' \in [Browsers -> Token \cup {NoToken}]
      /\ \A c \in Browsers : bearer'[c] \in Token => bearer'[c].key <= key
  BY <1>1 DEF IInv, TypeOK
<1>3. \E label \in Over : End(r, label)
  BY DEF Over, NotGranted, FetchFails, Arrive
<1> QED
  BY <1>1, <1>2, <1>3, EndKeepsIInv DEF Procs

LEMMA BackgroundEndKeepsIInv ==
    ASSUME IInv, BackgroundFails \/ BackgroundStore
    PROVE  IInv'
<1>1. Background \in Procs /\ "idle" \in Over
  BY DEF Procs, Over
<1>2. UNCHANGED <<now, drift, key, bearer>> /\ faults' \in 0 .. MaxFaults
  BY WrapperAssumption DEF IInv, TypeOK, Fault, BackgroundFails, BackgroundStore
<1>3. cache' \in 0 .. MaxRotations
  <2>1. proc[Background].ks \in 0 .. MaxRotations
    BY <1>1, WrapperAssumption DEF IInv, TypeOK, Sound, Process
  <2> QED
    BY <2>1 DEF IInv, TypeOK, BackgroundFails, BackgroundStore
<1>4. /\ bearer' \in [Browsers -> Token \cup {NoToken}]
      /\ \A c \in Browsers : bearer'[c] \in Token => bearer'[c].key <= key
  BY <1>2 DEF IInv, TypeOK
<1>5. End(Background, "idle")
  BY DEF BackgroundFails, BackgroundStore
<1> QED
  BY <1>1, <1>2, <1>3, <1>4, <1>5, EndKeepsIInv

LEMMA ParseKeepsIInv ==
    ASSUME IInv, NEW r \in Requests, Parse(r)
    PROVE  IInv'
<1>1. /\ proc[r].at = "parse" /\ r \in Procs
      /\ UNCHANGED <<now, drift, key, cache, faults>>
  BY DEF Parse, Procs
<1>2. cache' \in 0 .. MaxRotations
  BY <1>1 DEF IInv, TypeOK
<1>3. CASE Parses(proc[r].tok, cache)
  BY <1>1, <1>2, <1>3, AcceptKeepsIInv DEF Parse
<1>4. CASE ~ Parses(proc[r].tok, cache)
  BY <1>1, <1>4, GoKeepsIInv DEF Parse, HasToken
<1> QED
  BY <1>3, <1>4

\* The key Keycloak answers with is at least as new as any token's.
LEMMA FetchKeepsIInv ==
    ASSUME IInv, NEW p \in Procs, Fetch(p)
    PROVE  IInv'
<1> DEFINE g == [proc[p] EXCEPT !.at = "store", !.ks = key]
<1>1. proc[p] \in Process /\ proc[p].at = "fetch" /\ key \in Nat
  BY WrapperAssumption DEF IInv, TypeOK, Fetch
<1>2. /\ g \in Process /\ g.at = "store"
      /\ g.ks = key /\ g.tok = proc[p].tok
  BY <1>1 DEF Process, Labels, Over, HasToken
<1>3. /\ proc' = [proc EXCEPT ![p] = g]
      /\ UNCHANGED <<now, drift, key, cache, bearer, faults>>
  BY DEF Fetch
<1> HIDE DEF g
<1>4. Sound(g, key)
  BY <1>1, <1>2 DEF Sound
<1>5. p \in Requests => SoundRequest(g, key)
  BY <1>1, <1>2 DEF IInv, SoundRequest, HasToken
<1>6. /\ cache' \in 0 .. MaxRotations /\ faults' \in 0 .. MaxFaults
      /\ bearer' \in [Browsers -> Token \cup {NoToken}]
      /\ \A b \in Browsers : bearer'[b] \in Token => bearer'[b].key <= key
  BY <1>3 DEF IInv, TypeOK
<1> QED
  BY <1>2, <1>3, <1>4, <1>5, <1>6, ProcessStep

LEMMA RetryKeepsIInv ==
    ASSUME IInv, NEW r \in Requests, Retry(r)
    PROVE  IInv'
<1>1. /\ proc[r].at = "store" /\ r \in Procs /\ cache' = proc[r].ks
      /\ UNCHANGED <<now, drift, key, faults>>
  BY DEF Retry, Procs
<1>2. cache' \in 0 .. MaxRotations
  BY <1>1, WrapperAssumption DEF IInv, TypeOK, Sound, Process
<1>3. CASE Parses(proc[r].tok, RetryKeys(r))
  BY <1>1, <1>2, <1>3, AcceptKeepsIInv DEF Retry
<1>4. CASE ~ Parses(proc[r].tok, RetryKeys(r))
  <2>1. End(r, "refused") /\ bearer' = bearer
    BY <1>4 DEF Retry
  <2>2. /\ faults' \in 0 .. MaxFaults
        /\ bearer' \in [Browsers -> Token \cup {NoToken}]
        /\ \A c \in Browsers : bearer'[c] \in Token => bearer'[c].key <= key
    BY <1>1, <2>1 DEF IInv, TypeOK
  <2> QED
    BY <1>1, <1>2, <2>1, <2>2, EndKeepsIInv DEF Over
<1> QED
  BY <1>3, <1>4

LEMMA BackgroundTickKeepsIInv ==
    ASSUME IInv, BackgroundTick
    PROVE  IInv'
<1>1. Background \in Procs /\ Background \notin Requests
  BY WrapperAssumption DEF Procs
<1> QED
  BY <1>1, GoKeepsIInv DEF BackgroundTick

\* A new key is newer than all the keys in the system.
LEMMA EnvironmentKeepsIInv ==
    ASSUME IInv, Tick \/ Rotate
    PROVE  IInv'
<1>1. UNCHANGED <<drift, cache, bearer, proc, faults>>
  BY DEF Tick, Rotate
<1>2. /\ key \in Nat /\ key' \in 0 .. MaxRotations /\ key <= key'
      /\ now' \in 0 .. MaxTime
  BY WrapperAssumption DEF IInv, TypeOK, Tick, Rotate
<1>3. TypeOK'
  BY <1>1, <1>2 DEF IInv, TypeOK
<1>4. \A p \in Procs : Sound(proc[p], key)'
  <2> SUFFICES ASSUME NEW p \in Procs PROVE Sound(proc[p], key)'
    OBVIOUS
  <2>1. proc[p].ks \in Nat /\ Sound(proc[p], key) /\ key' \in Nat
    BY <1>2, WrapperAssumption DEF IInv, TypeOK, Process
  <2> QED
    BY <1>1, <1>2, <2>1 DEF Sound
<1>5. \A r \in Requests : SoundRequest(proc[r], key)'
  <2> SUFFICES ASSUME NEW r \in Requests PROVE SoundRequest(proc[r], key)'
    OBVIOUS
  <2>1. SoundRequest(proc[r], key) /\ key' \in Nat
    BY <1>2, WrapperAssumption DEF IInv
  <2> QED
    BY <1>1, <1>2, <2>1 DEF SoundRequest, Token
<1>6. \A b \in Browsers : bearer'[b] \in Token => bearer'[b].key <= key'
  <2> SUFFICES ASSUME NEW b \in Browsers, bearer[b] \in Token
               PROVE  bearer[b].key <= key'
    BY <1>1
  <2>1. bearer[b].key <= key /\ bearer[b].key \in Nat /\ key' \in Nat
    BY <1>2, WrapperAssumption DEF IInv, Token
  <2> QED
    BY <1>2, <2>1
<1> QED
  BY <1>3, <1>4, <1>5, <1>6 DEF IInv

LEMMA RestartKeepsIInv ==
    ASSUME IInv, Restart
    PROVE  IInv'
<1>1. /\ UNCHANGED <<now, drift, key, bearer>>
      /\ cache' = key /\ faults' \in 0 .. MaxFaults
  BY WrapperAssumption DEF IInv, TypeOK, Restart, Fault
<1>2. \A p \in Procs : /\ proc'[p] = CutOff(p)
                       /\ CutOff(p) \in Process
                       /\ Sound(CutOff(p), key)
                       /\ p \in Requests => SoundRequest(CutOff(p), key)
  <2> SUFFICES ASSUME NEW p \in Procs
               PROVE  /\ CutOff(p) \in Process
                      /\ Sound(CutOff(p), key)
                      /\ p \in Requests => SoundRequest(CutOff(p), key)
    BY DEF Restart
  <2>1. proc[p] \in Process /\ proc[p].from \in Browsers
    BY DEF IInv, TypeOK, Process
  <2>2. CASE CutOff(p) = proc[p]
    BY <2>1, <2>2 DEF IInv
  <2>3. CASE CutOff(p) # proc[p]
    <3>1. PICK label \in {"idle", "refused"} :
             CutOff(p) = At(label, proc[p].from, "none", NoToken)
      BY <2>3 DEF CutOff
    <3> QED
      BY <2>1, <3>1, AtRest
  <2> QED
    BY <2>2, <2>3
<1>3. proc' \in [Procs -> Process]
  <2>1. proc' = [p \in Procs |-> CutOff(p)]
    BY DEF Restart
  <2> QED
    BY <1>2, <2>1
<1>4. TypeOK'
  <2>1. \A r \in Requests : proc'[r].at \in HasToken => proc'[r].tok \in Token
    BY <1>2 DEF Procs, SoundRequest
  <2> QED
    BY <1>1, <1>3, <2>1 DEF IInv, TypeOK
<1>5. /\ \A p \in Procs : Sound(proc[p], key)'
      /\ \A r \in Requests : SoundRequest(proc[r], key)'
  BY <1>1, <1>2 DEF Procs, Sound, SoundRequest
<1>6. (\A b \in Browsers : bearer[b] \in Token => bearer[b].key <= key)'
  BY <1>1 DEF IInv
<1> QED
  BY <1>4, <1>5, <1>6 DEF IInv

LEMMA NextKeepsIInv == ASSUME IInv, [Next]_vars PROVE IInv'
<1>1. CASE UNCHANGED vars
  BY <1>1 DEF vars, IInv, TypeOK, Sound, SoundRequest
<1>2. ASSUME NEW r \in Requests, NEW b \in Browsers, AskForToken(r, b) \/ Verify(r, b)
      PROVE  IInv'
  BY <1>2, StartKeepsIInv
<1>3. ASSUME NEW r \in Requests, Step(r) \/ NotGranted(r) \/ FetchFails(r)
      PROVE  IInv'
  <2>1. CASE Granted(r)
    BY <2>1, GrantedKeepsIInv
  <2>2. CASE Parse(r)
    BY <2>2, ParseKeepsIInv
  <2>3. CASE Fetch(r)
    BY <2>3, FetchKeepsIInv DEF Procs
  <2>4. CASE Retry(r)
    BY <2>4, RetryKeepsIInv
  <2>5. CASE SignHeaders(r)
    BY <2>5, SignHeadersKeepsIInv
  <2>6. CASE Arrive(r) \/ NotGranted(r) \/ FetchFails(r)
    BY <2>6, EndingsKeepIInv
  <2> QED
    BY <1>3, <2>1, <2>2, <2>3, <2>4, <2>5, <2>6 DEF Step
<1>4. CASE BackgroundTick \/ Fetch(Background)
  BY <1>4, BackgroundTickKeepsIInv, FetchKeepsIInv DEF Procs
<1>5. CASE BackgroundStore \/ BackgroundFails
  BY <1>5, BackgroundEndKeepsIInv
<1>6. CASE Tick \/ Rotate
  BY <1>6, EnvironmentKeepsIInv
<1>7. CASE Restart
  BY <1>7, RestartKeepsIInv
<1> QED
  BY <1>1, <1>2, <1>3, <1>4, <1>5, <1>6, <1>7 DEF Next, Refresh

LEMMA Invariance == Spec => []IInv
<1>1. Init => IInv
  BY InitIInv
<1>2. IInv /\ [Next]_vars => IInv'
  BY NextKeepsIInv
<1> QED
  BY <1>1, <1>2, PTL DEF Spec

-----------------------------------------------------------------------------
\* The state of the wrapper, its requests and the browsers stays in range.
THEOREM TypeCorrect == Spec => []TypeOK
<1>1. IInv => TypeOK
  BY DEF IInv
<1> QED
  BY <1>1, Invariance, PTL

\* A step at which a request leaves "fetch" or "store" refused is a failed
\* refresh, a restart or the second parse, with a key no older than the token's.
LEMMA RotationStep ==
    ASSUME IInv, [Next]_vars, NEW r \in Requests,
           proc[r].at \in {"fetch", "store"}, proc'[r].at = "refused"
    PROVE  \/ now >= proc[r].tok.exp
           \/ proc[r].tok.key < key
           \/ faults' # faults
<1> SUFFICES ASSUME faults' = faults
             PROVE  now >= proc[r].tok.exp \/ proc[r].tok.key < key
  OBVIOUS
<1>1. proc \in [Procs -> Process] /\ r \in Procs /\ faults \in Nat
  BY DEF IInv, TypeOK, Procs
<1>2. ~ Restart
  BY <1>1 DEF Restart, Fault
<1>3. /\ proc[r].tok \in Token /\ proc[r].tok.key <= key
      /\ proc[r].at = "store" => proc[r].tok.key <= proc[r].ks
      /\ proc[r].ks <= key /\ proc[r].ks \in Nat /\ key \in Nat /\ now \in Nat
  BY <1>1, WrapperAssumption
     DEF IInv, TypeOK, Sound, SoundRequest, HasToken, Process
<1>4. proc' # proc
  BY <1>1
<1>5. ASSUME NEW q \in Procs, NEW g, q # r, proc' = [proc EXCEPT ![q] = g]
      PROVE  FALSE
  BY <1>1, <1>5
<1>6. Retry(r)
  <2>1. ASSUME NEW q \in Requests, NEW b \in Browsers, AskForToken(q, b) \/ Verify(q, b)
        PROVE  FALSE
    <3>1. q \in Procs /\ q = r
      BY <1>5, <2>1 DEF AskForToken, Verify, Procs
    <3> QED
      BY <2>1, <3>1 DEF AskForToken, Verify, Over
  <2>2. ASSUME NEW q \in Requests, NotGranted(q) \/ FetchFails(q)
        PROVE  FALSE
    BY <1>1, <2>2 DEF NotGranted, FetchFails, Fault
  <2>3. ASSUME NEW q \in Requests, Step(q)
        PROVE  Retry(r)
    <3>1. \E g : proc' = [proc EXCEPT ![q] = g]
      BY <2>3 DEF Step, Granted, Parse, Fetch, Retry, Arrive, Accept, HandOver, CopyClaims, SignHeaders, Go, End
    <3>2. q = r
      BY <1>5, <3>1 DEF Procs
    <3>3. ~ Granted(r) /\ ~ Parse(r) /\ ~ SignHeaders(r) /\ ~ Arrive(r)
      BY DEF Granted, Parse, SignHeaders, Arrive
    <3>4. ~ Fetch(r)
      BY <1>1 DEF Fetch, Process
    <3> QED
      BY <2>3, <3>2, <3>3, <3>4 DEF Step
  <2>4. ASSUME Refresh \/ BackgroundFails
        PROVE  FALSE
    <3>1. \E g : proc' = [proc EXCEPT ![Background] = g]
      BY <2>4 DEF Refresh, BackgroundTick, Fetch, BackgroundStore, BackgroundFails, Go, End
    <3>2. Background \in Procs /\ Background # r
      BY WrapperAssumption DEF Procs
    <3> QED
      BY <1>5, <3>1, <3>2
  <2> QED
    BY <1>2, <1>4, <2>1, <2>2, <2>3, <2>4 DEF Next, vars, Tick, Rotate
<1>7. ~ Parses(proc[r].tok, proc[r].ks)
  <2> SUFFICES ASSUME Accept(r) PROVE FALSE
    BY <1>6 DEF Retry, RetryKeys
  <2>1. CASE proc[r].op = "proxy"
    <3>1. proc'[r] = At("idle", proc[r].from, "none", NoToken)
      BY <1>1, <2>1 DEF Accept, HandOver, End
    <3> QED
      BY <3>1 DEF At
  <2>2. CASE proc[r].op # "proxy"
    <3>1. proc'[r] = [proc[r] EXCEPT !.at = "sign", !.chk = now]
      BY <1>1, <2>2 DEF Accept, HandOver, CopyClaims
    <3>2. proc[r] \in Process
      BY <1>1
    <3> QED
      BY <3>1, <3>2 DEF Process
  <2> QED
    BY <2>1, <2>2
<1>8. proc[r].tok.key # proc[r].ks \/ now >= proc[r].tok.exp
  BY <1>3, <1>7 DEF Parses, Token
<1> QED
  BY <1>3, <1>6, <1>8 DEF Retry, Token

\* After a change of keys the forced refresh of Validate heals every request
\* whose token is still good.
THEOREM RotationTheorem == Spec => RotationHeals
<1>1. IInv /\ [Next]_vars =>
        [\A r \in Requests :
            proc[r].at \in {"fetch", "store"} /\ proc'[r].at = "refused"
                => \/ now >= proc[r].tok.exp
                   \/ proc[r].tok.key < key
                   \/ faults' # faults]_vars
  BY RotationStep
<1> QED
  BY <1>1, Invariance, PTL DEF Spec, RotationHeals

\* Only Arrive lets a signed request through, within MaxSkew of its signature.
LEMMA FadesStep ==
    ASSUME IInv, [Next]_vars, NEW r \in Requests,
           proc[r].at = "signed", proc'[r].at = "idle"
    PROVE  now + drift < proc[r].tok.exp + (proc[r].ts - proc[r].chk) + MaxSkew
<1>1. proc \in [Procs -> Process] /\ r \in Procs /\ r # Background
  BY WrapperAssumption DEF IInv, TypeOK, Procs
<1>2. /\ proc[r].chk < proc[r].tok.exp
      /\ proc[r].chk \in Nat /\ proc[r].ts \in Nat
      /\ proc[r].tok \in Token
      /\ now \in Nat /\ drift \in Int
  BY <1>1, WrapperAssumption DEF IInv, TypeOK, SoundRequest, HasToken, Process
<1>3. proc' # proc
  BY <1>1
<1>4. ~ Restart
  <2> SUFFICES ASSUME Restart PROVE FALSE
    OBVIOUS
  <2>1. proc'[r] = proc[r]
    BY <1>1 DEF Restart, CutOff
  <2> QED
    BY <2>1
<1>5. ASSUME NEW q \in Procs, NEW g, q # r, proc' = [proc EXCEPT ![q] = g]
      PROVE  FALSE
  BY <1>1, <1>5
<1>6. Arrive(r)
  <2>1. ASSUME NEW q \in Requests,
               Step(q) \/ NotGranted(q) \/ FetchFails(q)
                 \/ \E b \in Browsers : AskForToken(q, b) \/ Verify(q, b)
        PROVE  Arrive(r)
    <3>1. \E g : proc' = [proc EXCEPT ![q] = g]
      BY <2>1 DEF Step, Granted, Parse, Fetch, Retry, Arrive, Accept, HandOver, CopyClaims, SignHeaders, Go, End,
                  NotGranted, FetchFails, AskForToken, Verify
    <3>2. q = r
      BY <1>5, <3>1 DEF Procs
    <3> QED
      BY <2>1, <3>2 DEF Step, Granted, Parse, Fetch, Retry, SignHeaders, NotGranted, FetchFails,
                        AskForToken, Verify, Over
  <2>2. ASSUME Refresh \/ BackgroundFails
        PROVE  FALSE
    <3>1. \E g : proc' = [proc EXCEPT ![Background] = g]
      BY <2>2 DEF Refresh, BackgroundTick, Fetch, BackgroundStore, BackgroundFails, Go, End
    <3> QED
      BY <1>1, <1>5, <3>1 DEF Procs
  <2> QED
    BY <1>3, <1>4, <2>1, <2>2 DEF Next, vars, Tick, Rotate
<1>7. WithinSkew(proc[r].ts)
  BY <1>1, <1>6 DEF Arrive, End, At
<1> QED
  BY <1>2, <1>7, WrapperAssumption DEF WithinSkew, Token

\* A token that has expired is served for less than MaxSkew after its expiry,
\* plus what passed between verifyHandler's check of exp and its stamp.
THEOREM FadesTheorem == Spec => ExpiredTokenFades
<1>1. IInv /\ [Next]_vars =>
        [\A r \in Requests :
            proc[r].at = "signed" /\ proc'[r].at = "idle"
                => now + drift < proc[r].tok.exp + (proc[r].ts - proc[r].chk) + MaxSkew]_vars
  BY FadesStep
<1> QED
  BY <1>1, Invariance, PTL DEF Spec, ExpiredTokenFades
=============================================================================
