--------------------------- MODULE StepUpProofs ---------------------------
(***************************************************************************)
(* For any number of users, tabs, codes, enrollments and faults: what the  *)
(* enrollment store counts, what Keycloak makes tokens of, that only an    *)
(* administrator takes the MFA claim from a tab, that none has it or       *)
(* passes the gate without a code, and what it takes for a replay to be    *)
(* refused.                                                                *)
(*                                                                         *)
(* EInv speaks of the servers only and is kept by every step of            *)
(* MfaEnrollment.  A step of the page is one of these, or leaves the       *)
(* servers alone (ServerStep), so that EInv holds of the composition too.  *)
(***************************************************************************)
EXTENDS StepUpPage, Integers, TLAPS

\* What a request relies on between two calls.
Carried ==
    \A r \in Requests :
        /\ proc[r].at # "idle" => proc[r].user \in Users
        /\ proc[r].at = "put" => proc[r].rep \in Record

\* A pending code may still see so many wrong entries.
TriesLeft(u) == IF HasPending(u) THEN MaxAttempts - pending[u].tries ELSE 0

Tries == \A u \in Users : wrong[u] + TriesLeft(u) <= MaxAttempts * starts[u]

\* The cache holds no enrollment that the records do not, unless an
\* administrator took it from them.
CacheIsPast == \A u \in Users \ wiped : cache[u].mfa => kc[u].mfa

\* Nor does an administrator's form.
FormIsPast == \A u \in Users : form[u].mfa => kc[u].mfa

EInv == TypeOK /\ Carried /\ OneWindowPerCode /\ Tries /\ NoStaleToken /\ CacheIsPast
        /\ FormIsPast

\* A call that is not to the API fails.
Elsewhere == Fault /\ UNCHANGED <<pending, stepUp, keycloak, proc, counts>>

ServerStep == [Next]_vars \/ Elsewhere

\* A tab with the claim has it from a record that says so, and that Keycloak's
\* cache does not contradict.
Backed(u) == kc[u].mfa /\ (cache[u] = NoRecord \/ cache[u].mfa)

ClaimsAreBacked ==
    \A t \in Tabs : tab[t].claim => Backed(tab[t].user) \/ tab[t].user \in wiped

ClaimsKept ==
    \A t \in Tabs : tab[t].claim /\ tab[t].user \notin wiped => tab'[t].claim

IInv == PageTypeOK /\ EInv /\ ClaimsAreBacked

-----------------------------------------------------------------------------
(* Types *)

LEMMA InitEInv == Init => EInv
<1> SUFFICES ASSUME Init PROVE EInv
    OBVIOUS
<1> USE EnrollmentAssumption
<1>1. TypeOK
    <2>1. /\ pending \in [Users -> Pending \cup {NoPending}]
          /\ stepUp \in [Users -> {"none", "open", "lapsed"}]
          /\ cache \in [Users -> Record \cup {NoRecord}]
          /\ proc \in [Requests -> Process]
        BY DEF Init, Process, Idle
    <2>2. /\ kc \in [Users -> Record] /\ policy \in BOOLEAN
          /\ form \in [Users -> Record \cup {NoRecord}] /\ wiped \subseteq Users
          /\ starts \in [Users -> 0 .. MaxStarts]
          /\ grants \in [Users -> Nat] /\ wrong \in [Users -> Nat] /\ faults \in 0 .. MaxFaults
        BY DEF Init, Record
    <2>3. QED
        BY <2>1, <2>2 DEF TypeOK
<1>2. Carried
    BY DEF Init, Carried, Idle
<1>3. \A u \in Users : ~ HasPending(u) /\ starts[u] = 0 /\ grants[u] = 0 /\ wrong[u] = 0
    BY DEF Init, HasPending
<1>4. OneWindowPerCode
    BY <1>3 DEF OneWindowPerCode
<1>5. Tries
    BY <1>3 DEF Tries, TriesLeft
<1>6. NoStaleToken
    BY DEF Init, NoStaleToken
<1>7. CacheIsPast
    BY DEF Init, CacheIsPast, NoRecord
<1>8. FormIsPast
    BY DEF Init, FormIsPast, NoRecord
<1>9. QED
    BY <1>1, <1>2, <1>4, <1>5, <1>6, <1>7, <1>8 DEF EInv

\* The record that an enrollment writes.
LEMMA EnrolledRecord ==
    ASSUME NEW rep \in Record, NEW e \in Emails \cup {NoEmail}
    PROVE  Enrolled(rep, e) \in Record /\ Enrolled(rep, e).mfa
BY DEF Enrolled, Record

\* What an administrator puts is a record.
LEMMA AdminRecord ==
    ASSUME TypeOK, NEW u \in Users, EditUser(u) \/ ResetUser(u)
    PROVE  \E rec \in Record : AdminPuts(u, rec)
<1>1. CASE EditUser(u)
    <2>1. form[u] \in Record
        BY <1>1 DEF EditUser, AdminPuts, TypeOK
    <2>2. QED
        BY <1>1, <2>1 DEF EditUser
<1>2. CASE ResetUser(u)
    <2>1. [email |-> ClaimEmail[u], mfa |-> FALSE] \in Record
        BY EnrollmentAssumption DEF Record
    <2>2. QED
        BY <1>2, <2>1 DEF ResetUser
<1>3. QED
    BY <1>1, <1>2

\* How a request may end or move on.
LEMMA ProcTypes ==
    ASSUME TypeOK, Carried, NEW r \in Requests, NEW g \in Process,
           proc' = [proc EXCEPT ![r] = g],
           g.at # "idle" => g.user \in Users,
           g.at = "put" => g.rep \in Record
    PROVE  proc' \in [Requests -> Process] /\ Carried'
BY DEF TypeOK, Carried

LEMMA EndTypes ==
    ASSUME TypeOK, Carried, NEW r \in Requests, End(r)
    PROVE  proc' \in [Requests -> Process] /\ Carried'
<1>1. Idle \in Process /\ Idle.at = "idle"
    BY DEF Idle, Process
<1>2. QED
    BY <1>1, ProcTypes DEF End

LEMMA FaultTypes == TypeOK /\ Fault => faults' \in 0 .. MaxFaults /\ faults' > faults
BY EnrollmentAssumption DEF TypeOK, Fault

\* What a step leaves when it touches nothing but the requests.
LEMMA OnlyProc ==
    ASSUME TypeOK, UNCHANGED <<pending, stepUp, keycloak, counts, faults>>,
           proc' \in [Requests -> Process]
    PROVE  TypeOK'
BY DEF TypeOK, keycloak, admin, counts

LEMMA NextTypes == TypeOK /\ Carried /\ ServerStep => TypeOK' /\ Carried'
<1> SUFFICES ASSUME TypeOK, Carried, ServerStep PROVE TypeOK' /\ Carried'
    OBVIOUS
<1> USE EnrollmentAssumption
<1>a. \A r \in Requests : proc[r] \in Process
    BY DEF TypeOK
<1>b. Idle \in Process /\ Idle.at = "idle" /\ Idle.rep = NoRecord
    BY DEF Idle, Process
<1>c. ASSUME UNCHANGED proc PROVE Carried'
    BY <1>c DEF Carried
<1>1. ASSUME NEW r \in Requests, NEW u \in Users, NEW e \in Emails, NEW c \in Codes,
             Start(r, u, e, c)
      PROVE  TypeOK' /\ Carried'
    <2> DEFINE g == [Idle EXCEPT !.at = "mail", !.user = u, !.email = e]
    <2>1. g \in Process /\ g.at = "mail" /\ g.user = u
        BY DEF Idle, Process
    <2>2. proc' = [proc EXCEPT ![r] = g]
        BY <1>1 DEF Start
    <2> HIDE DEF g
    <2>3. proc' \in [Requests -> Process] /\ Carried'
        BY <2>1, <2>2, ProcTypes
    <2>4. pending' \in [Users -> Pending \cup {NoPending}]
        BY <1>1 DEF Start, TypeOK, Pending
    <2>5. starts' \in [Users -> 0 .. MaxStarts]
        BY <1>1 DEF Start, TypeOK
    <2>6. QED
        BY <1>1, <2>3, <2>4, <2>5 DEF Start, TypeOK, keycloak, admin
<1>2. ASSUME NEW r \in Requests, SendMail(r) PROVE TypeOK' /\ Carried'
    <2>1. proc' \in [Requests -> Process] /\ Carried'
        BY <1>2, EndTypes DEF SendMail
    <2>2. faults' \in 0 .. MaxFaults
        BY <1>2, FaultTypes DEF SendMail, TypeOK
    <2>3. QED
        BY <1>2, <2>1, <2>2 DEF SendMail, TypeOK, keycloak, admin, counts
<1>3. ASSUME NEW u \in Users, DropPending(u) PROVE TypeOK' /\ Carried'
    BY <1>3, <1>c DEF DropPending, TypeOK, keycloak, admin, counts
<1>4. ASSUME NEW u \in Users, NEW c \in Codes, CodeMismatch(u, c) PROVE TypeOK' /\ Carried'
    <2>1. pending[u] \in Pending /\ pending[u].tries < MaxAttempts
        BY <1>4 DEF CodeMismatch, OpenToTries, HasPending, TypeOK
    <2>2. [pending[u] EXCEPT !.tries = @ + 1] \in Pending
        BY <2>1 DEF Pending
    <2>3. pending' = [pending EXCEPT ![u] = [pending[u] EXCEPT !.tries = @ + 1]]
        BY <1>4 DEF CodeMismatch, TypeOK
    <2>4. pending' \in [Users -> Pending \cup {NoPending}]
        BY <2>2, <2>3 DEF TypeOK
    <2>5. wrong' \in [Users -> Nat]
        BY <1>4 DEF CodeMismatch, TypeOK
    <2>6. QED
        BY <1>4, <1>c, <2>4, <2>5 DEF CodeMismatch, TypeOK, keycloak, admin
<1>5. ASSUME NEW r \in Requests, NEW u \in Users, CodeMatch(r, u) PROVE TypeOK' /\ Carried'
    <2> DEFINE g == [Idle EXCEPT !.at = "pick", !.user = u, !.proved = pending[u].email]
    <2>1. pending[u].email \in Emails
        BY <1>5 DEF CodeMatch, OpenToTries, HasPending, TypeOK, Pending
    <2>2. g \in Process /\ g.at = "pick" /\ g.user = u
        BY <2>1 DEF Idle, Process
    <2>3. proc' = [proc EXCEPT ![r] = g]
        BY <1>5 DEF CodeMatch
    <2> HIDE DEF g
    <2>4. proc' \in [Requests -> Process] /\ Carried'
        BY <2>2, <2>3, ProcTypes
    <2>5. /\ pending' \in [Users -> Pending \cup {NoPending}]
          /\ stepUp' \in [Users -> {"none", "open", "lapsed"}] /\ grants' \in [Users -> Nat]
        BY <1>5 DEF CodeMatch, Grant, TypeOK
    <2>6. QED
        BY <1>5, <2>4, <2>5 DEF CodeMatch, TypeOK, keycloak, admin
<1>6. ASSUME NEW r \in Requests, Pick(r) PROVE TypeOK' /\ Carried'
    <2> DEFINE e == PickEmail(proc[r].user)
               g == [proc[r] EXCEPT !.at = "get", !.email = e]
    <2>1. proc[r].user \in Users
        BY <1>6 DEF Pick, Carried
    <2>2. e \in Emails \cup {NoEmail}
        BY <2>1 DEF PickEmail, HasPending, TypeOK, Pending
    <2>3. g \in Process /\ g.at = "get" /\ g.user = proc[r].user
        BY <1>a, <2>2 DEF Process
    <2>4. End(r) \/ proc' = [proc EXCEPT ![r] = g]
        BY <1>6 DEF Pick, TypeOK
    <2> HIDE DEF e, g
    <2>5. proc' \in [Requests -> Process] /\ Carried'
        BY <2>1, <2>3, <2>4, ProcTypes, EndTypes
    <2>6. QED
        BY <1>6, <2>5, OnlyProc DEF Pick
<1>7. ASSUME NEW r \in Requests, GetUser(r) PROVE TypeOK' /\ Carried'
    <2> DEFINE g == [proc[r] EXCEPT !.at = "put", !.rep = kc[proc[r].user]]
    <2>1. proc[r].user \in Users
        BY <1>7 DEF GetUser, Carried
    <2>2. kc[proc[r].user] \in Record
        BY <2>1 DEF TypeOK
    <2>3. g \in Process /\ g.at = "put" /\ g.user = proc[r].user /\ g.rep \in Record
        BY <1>a, <2>2 DEF Process
    <2>4. proc' = [proc EXCEPT ![r] = g]
        BY <1>7 DEF GetUser, TypeOK
    <2> HIDE DEF g
    <2>5. proc' \in [Requests -> Process] /\ Carried'
        BY <2>1, <2>3, <2>4, ProcTypes
    <2>6. QED
        BY <1>7, <2>5, OnlyProc DEF GetUser
<1>8. ASSUME NEW r \in Requests, NEW rec \in Record,
             kc' = [kc EXCEPT ![proc[r].user] = rec]
      PROVE  kc' \in [Users -> Record]
    BY <1>8 DEF TypeOK
<1>9. ASSUME NEW r \in Requests, proc[r].at = "put"
      PROVE  Enrolled(proc[r].rep, proc[r].email) \in Record
    <2>1. proc[r].rep \in Record /\ proc[r].email \in Emails \cup {NoEmail}
        BY <1>9, <1>a DEF Carried, Process
    <2>2. QED
        BY <2>1, EnrolledRecord
<1>10. ASSUME NEW r \in Requests, PutUser(r) PROVE TypeOK' /\ Carried'
    <2> DEFINE g == [proc[r] EXCEPT !.at = "clear"]
    <2>1. g \in Process /\ g.at = "clear" /\ g.user = proc[r].user
        BY <1>a DEF Process
    <2>2. proc' = [proc EXCEPT ![r] = g] /\ proc[r].at = "put"
        BY <1>10 DEF PutUser, TypeOK
    <2>3. proc[r].user \in Users
        BY <2>2 DEF Carried
    <2> HIDE DEF g
    <2>4. proc' \in [Requests -> Process] /\ Carried'
        BY <2>1, <2>2, <2>3, ProcTypes
    <2>5. kc' \in [Users -> Record]
        BY <1>8, <1>9, <1>10, <2>2 DEF PutUser
    <2>6. QED
        BY <1>10, <2>4, <2>5 DEF PutUser, TypeOK, admin, counts
<1>11. ASSUME NEW r \in Requests, PutRejected(r) PROVE TypeOK' /\ Carried'
    <2>1. proc' \in [Requests -> Process] /\ Carried'
        BY <1>11, EndTypes DEF PutRejected
    <2>2. QED
        BY <1>11, <2>1, OnlyProc DEF PutRejected
<1>12. ASSUME NEW r \in Requests, ClearCache(r) PROVE TypeOK' /\ Carried'
    <2>1. proc' \in [Requests -> Process] /\ Carried'
        BY <1>12, EndTypes DEF ClearCache
    <2>2. cache' \in [Users -> Record \cup {NoRecord}]
        BY <1>12 DEF ClearCache
    <2>3. QED
        BY <1>12, <2>1, <2>2 DEF ClearCache, TypeOK, admin, counts
<1>13. ASSUME NEW r \in Requests, GiveUp(r) PROVE TypeOK' /\ Carried'
    <2>1. proc' \in [Requests -> Process] /\ Carried'
        BY <1>13, EndTypes DEF GiveUp
    <2>2. faults' \in 0 .. MaxFaults
        BY <1>13, FaultTypes DEF GiveUp
    <2>3. /\ kc' \in [Users -> Record] /\ cache' \in [Users -> Record \cup {NoRecord}]
          /\ UNCHANGED <<policy, admin>>
        <3>1. CASE UNCHANGED keycloak
            BY <3>1 DEF keycloak, TypeOK
        <3>2. CASE kc' # kc
            <4>1. /\ proc[r].at = "put" /\ UNCHANGED <<cache, policy, admin>>
                  /\ kc' = [kc EXCEPT ![proc[r].user] = Enrolled(proc[r].rep, proc[r].email)]
                BY <1>13, <3>2 DEF GiveUp, keycloak
            <4>2. QED
                BY <1>8, <1>9, <4>1 DEF TypeOK
        <3>3. CASE kc' = kc /\ ~ UNCHANGED keycloak
            <4>1. /\ cache' = cache \/ cache' = [u \in Users |-> NoRecord]
                  /\ UNCHANGED <<policy, admin>>
                BY <1>13, <3>3 DEF GiveUp
            <4>2. QED
                BY <3>3, <4>1 DEF TypeOK
        <3>4. QED
            BY <3>1, <3>2, <3>3
    <2>4. QED
        BY <1>13, <2>1, <2>2, <2>3 DEF GiveUp, TypeOK, admin, counts
<1>14. ASSUME NEW u \in Users, RequireMFA(u) \/ LapseStepUp(u) PROVE TypeOK' /\ Carried'
    BY <1>14, <1>c DEF RequireMFA, LapseStepUp, TypeOK, keycloak, admin, counts
<1>15. ASSUME NEW u \in Users, ExpireCode(u) PROVE TypeOK' /\ Carried'
    <2>1. pending[u] \in Pending
        BY <1>15 DEF ExpireCode, HasPending, TypeOK
    <2>2. [pending[u] EXCEPT !.fresh = FALSE] \in Pending
        BY <2>1 DEF Pending
    <2>3. pending' = [pending EXCEPT ![u] = [pending[u] EXCEPT !.fresh = FALSE]]
        BY <1>15 DEF ExpireCode, TypeOK
    <2>4. pending' \in [Users -> Pending \cup {NoPending}]
        BY <2>2, <2>3 DEF TypeOK
    <2>5. QED
        BY <1>15, <1>c, <2>4 DEF ExpireCode, TypeOK, keycloak, admin, counts
<1>16. ASSUME Restart PROVE TypeOK' /\ Carried'
    <2>1. proc' \in [Requests -> Process] /\ Carried'
        BY <1>16, <1>b DEF Restart, Carried
    <2>2. faults' \in 0 .. MaxFaults
        BY <1>16, FaultTypes DEF Restart
    <2>3. QED
        BY <1>16, <2>1, <2>2 DEF Restart, TypeOK, admin, counts
<1>17. ASSUME NEW u \in Users, IssueToken(u) PROVE TypeOK' /\ Carried'
    BY <1>17, <1>c DEF IssueToken, TypeOK, admin, counts
<1>18. ASSUME NEW u \in Users, OpenForm(u) \/ EditUser(u) \/ ResetUser(u)
       PROVE  TypeOK' /\ Carried'
    <2>1. CASE OpenForm(u)
        <3>1. form' \in [Users -> Record \cup {NoRecord}]
            BY <2>1 DEF OpenForm, TypeOK
        <3>2. QED
            BY <1>c, <2>1, <3>1 DEF OpenForm, TypeOK, counts
    <2>2. CASE EditUser(u) \/ ResetUser(u)
        <3>1. PICK rec \in Record : AdminPuts(u, rec)
            BY <2>2, AdminRecord
        <3>2. /\ kc' \in [Users -> Record] /\ wiped' \subseteq Users
              /\ form' \in [Users -> Record \cup {NoRecord}]
            BY <3>1 DEF AdminPuts, TypeOK
        <3>3. QED
            BY <1>c, <3>1, <3>2 DEF AdminPuts, TypeOK, counts
    <2>3. QED
        BY <1>18, <2>1, <2>2
<1>19. CASE Elsewhere
    BY <1>19, <1>c, FaultTypes DEF Elsewhere, TypeOK, keycloak, admin, counts
<1>20. CASE UNCHANGED vars
    BY <1>20, <1>c DEF vars, TypeOK, keycloak, admin, counts
<1>21. QED
    BY <1>1, <1>2, <1>3, <1>4, <1>5, <1>6, <1>7, <1>10, <1>11, <1>12, <1>13, <1>14, <1>15,
       <1>16, <1>17, <1>18, <1>19, <1>20 DEF ServerStep, Next, EnrollStep

-----------------------------------------------------------------------------
(* Codes, windows and wrong entries *)

Counted == OneWindowPerCode /\ Tries

LEMMA Numbers ==
    ASSUME TypeOK, NEW u \in Users
    PROVE  /\ starts[u] \in Nat /\ grants[u] \in Nat /\ wrong[u] \in Nat
           /\ MaxAttempts \in Nat /\ MaxAttempts * starts[u] \in Nat
           /\ HasPending(u) => pending[u].tries \in 0 .. MaxAttempts
           /\ TriesLeft(u) \in 0 .. MaxAttempts
<1>1. /\ starts[u] \in Nat /\ grants[u] \in Nat /\ wrong[u] \in Nat /\ MaxAttempts \in Nat
    BY EnrollmentAssumption DEF TypeOK
<1>2. HasPending(u) => pending[u].tries \in 0 .. MaxAttempts
    BY DEF HasPending, TypeOK, Pending
<1>3. ASSUME NEW m \in Nat, NEW n \in Nat PROVE m * n \in Nat
    OBVIOUS
<1>4. MaxAttempts * starts[u] \in Nat
    BY <1>1, <1>3
<1>5. QED
    BY <1>1, <1>2, <1>4 DEF TriesLeft

\* Steps that count nothing and give nobody a new code.
LEMMA NothingCounted ==
    ASSUME TypeOK, Counted, UNCHANGED counts,
           \A u \in Users : \/ pending'[u] = NoPending
                            \/ HasPending(u) /\ pending'[u].tries = pending[u].tries
    PROVE  Counted'
<1> SUFFICES ASSUME NEW u \in Users
             PROVE  /\ (grants[u] + (IF HasPending(u) THEN 1 ELSE 0) <= starts[u])'
                    /\ (wrong[u] + TriesLeft(u) <= MaxAttempts * starts[u])'
    BY DEF Counted, OneWindowPerCode, Tries
<1>1. starts'[u] = starts[u] /\ grants'[u] = grants[u] /\ wrong'[u] = wrong[u]
    BY DEF counts
<1>2. /\ grants[u] + (IF HasPending(u) THEN 1 ELSE 0) <= starts[u]
      /\ wrong[u] + TriesLeft(u) <= MaxAttempts * starts[u]
    BY DEF Counted, OneWindowPerCode, Tries
<1>3. HasPending(u)' => HasPending(u)
    BY DEF HasPending
<1>4. TriesLeft(u)' = 0 \/ TriesLeft(u)' = TriesLeft(u)
    BY <1>3 DEF TriesLeft, HasPending
<1>5. QED
    BY <1>1, <1>2, <1>3, <1>4, Numbers

LEMMA NextCounted == TypeOK /\ Counted /\ ServerStep => Counted'
<1> SUFFICES ASSUME TypeOK, Counted, ServerStep PROVE Counted'
    OBVIOUS
<1>a. \A u \in Users : pending[u] = NoPending \/ HasPending(u)
    BY DEF HasPending
<1>b. ASSUME UNCHANGED <<pending, counts>> PROVE Counted'
    BY <1>a, <1>b, NothingCounted
<1>1. ASSUME NEW r \in Requests, NEW w \in Users, NEW e \in Emails, NEW c \in Codes,
             Start(r, w, e, c)
      PROVE  Counted'
    <2> SUFFICES ASSUME NEW u \in Users
                 PROVE  /\ (grants[u] + (IF HasPending(u) THEN 1 ELSE 0) <= starts[u])'
                        /\ (wrong[u] + TriesLeft(u) <= MaxAttempts * starts[u])'
        BY DEF Counted, OneWindowPerCode, Tries
    <2>1. /\ grants[u] + (IF HasPending(u) THEN 1 ELSE 0) <= starts[u]
          /\ wrong[u] + TriesLeft(u) <= MaxAttempts * starts[u]
        BY DEF Counted, OneWindowPerCode, Tries
    <2>2. grants'[u] = grants[u] /\ wrong'[u] = wrong[u]
        BY <1>1 DEF Start
    <2>3. CASE u = w
        <3>1. starts'[u] = starts[u] + 1
            BY <1>1, <2>3 DEF Start, TypeOK
        <3>2. pending'[u].tries = 0
            BY <1>1, <2>3 DEF Start, TypeOK
        <3>3. TriesLeft(u)' <= MaxAttempts
            BY <3>2, Numbers DEF TriesLeft
        <3>4. ASSUME NEW m \in Nat, NEW n \in Nat PROVE m * (n + 1) = m * n + m
            OBVIOUS
        <3>5. MaxAttempts * starts'[u] = MaxAttempts * starts[u] + MaxAttempts
            BY <3>1, <3>4, Numbers
        <3>6. TriesLeft(u)' \in Int
            BY <3>2, Numbers DEF TriesLeft
        <3>7. wrong[u] <= MaxAttempts * starts[u]
            BY <2>1, Numbers
        <3>8. (wrong[u] + TriesLeft(u) <= MaxAttempts * starts[u])'
            BY <2>2, <3>3, <3>5, <3>6, <3>7, Numbers
        <3>9. QED
            BY <2>1, <2>2, <3>1, <3>8, Numbers
    <2>4. CASE u # w
        <3>1. starts'[u] = starts[u] /\ pending'[u] = pending[u]
            BY <1>1, <2>4 DEF Start, TypeOK
        <3>2. (HasPending(u)' <=> HasPending(u)) /\ TriesLeft(u)' = TriesLeft(u)
            BY <3>1 DEF TriesLeft, HasPending
        <3>3. QED
            BY <2>1, <2>2, <3>1, <3>2
    <2>5. QED
        BY <2>3, <2>4
<1>2. ASSUME NEW w \in Users, NEW c \in Codes, CodeMismatch(w, c) PROVE Counted'
    <2> SUFFICES ASSUME NEW u \in Users
                 PROVE  /\ (grants[u] + (IF HasPending(u) THEN 1 ELSE 0) <= starts[u])'
                        /\ (wrong[u] + TriesLeft(u) <= MaxAttempts * starts[u])'
        BY DEF Counted, OneWindowPerCode, Tries
    <2>1. /\ grants[u] + (IF HasPending(u) THEN 1 ELSE 0) <= starts[u]
          /\ wrong[u] + TriesLeft(u) <= MaxAttempts * starts[u]
        BY DEF Counted, OneWindowPerCode, Tries
    <2>2. grants'[u] = grants[u] /\ starts'[u] = starts[u]
        BY <1>2 DEF CodeMismatch
    <2>3. CASE u = w
        <3>1. HasPending(u) /\ wrong'[u] = wrong[u] + 1
            BY <1>2, <2>3 DEF CodeMismatch, OpenToTries, TypeOK
        <3>2. pending[u].tries \in 0 .. MaxAttempts
            BY <3>1, Numbers
        <3>3. pending[u] \in Pending
            BY <3>1 DEF HasPending, TypeOK
        <3>4. pending'[u] = [pending[u] EXCEPT !.tries = @ + 1]
            BY <1>2, <2>3 DEF CodeMismatch, TypeOK
        <3>5. pending'[u].tries = pending[u].tries + 1
            BY <3>3, <3>4 DEF Pending
        <3>6. HasPending(u)'
            BY <3>2, <3>5 DEF HasPending, NoPending
        <3>7. TriesLeft(u)' = TriesLeft(u) - 1
            BY <3>1, <3>2, <3>5, <3>6, Numbers DEF TriesLeft
        <3>8. QED
            BY <2>1, <2>2, <3>1, <3>6, <3>7, Numbers
    <2>4. CASE u # w
        <3>1. wrong'[u] = wrong[u] /\ pending'[u] = pending[u]
            BY <1>2, <2>4 DEF CodeMismatch, TypeOK
        <3>2. (HasPending(u)' <=> HasPending(u)) /\ TriesLeft(u)' = TriesLeft(u)
            BY <3>1 DEF TriesLeft, HasPending
        <3>3. QED
            BY <2>1, <2>2, <3>1, <3>2
    <2>5. QED
        BY <2>3, <2>4
<1>3. ASSUME NEW r \in Requests, NEW w \in Users, CodeMatch(r, w) PROVE Counted'
    <2> SUFFICES ASSUME NEW u \in Users
                 PROVE  /\ (grants[u] + (IF HasPending(u) THEN 1 ELSE 0) <= starts[u])'
                        /\ (wrong[u] + TriesLeft(u) <= MaxAttempts * starts[u])'
        BY DEF Counted, OneWindowPerCode, Tries
    <2>1. /\ grants[u] + (IF HasPending(u) THEN 1 ELSE 0) <= starts[u]
          /\ wrong[u] + TriesLeft(u) <= MaxAttempts * starts[u]
        BY DEF Counted, OneWindowPerCode, Tries
    <2>2. wrong'[u] = wrong[u] /\ starts'[u] = starts[u]
        BY <1>3 DEF CodeMatch
    <2>3. CASE u = w
        <3>1. HasPending(u) /\ grants'[u] = grants[u] + 1 /\ pending'[u] = NoPending
            BY <1>3, <2>3 DEF CodeMatch, Grant, OpenToTries, TypeOK
        <3>2. ~ HasPending(u)' /\ TriesLeft(u)' = 0
            BY <3>1 DEF TriesLeft, HasPending
        <3>3. QED
            BY <2>1, <2>2, <3>1, <3>2, Numbers
    <2>4. CASE u # w
        <3>1. grants'[u] = grants[u] /\ pending'[u] = pending[u]
            BY <1>3, <2>4 DEF CodeMatch, Grant, TypeOK
        <3>2. (HasPending(u)' <=> HasPending(u)) /\ TriesLeft(u)' = TriesLeft(u)
            BY <3>1 DEF TriesLeft, HasPending
        <3>3. QED
            BY <2>1, <2>2, <3>1, <3>2
    <2>5. QED
        BY <2>3, <2>4
<1>4. ASSUME NEW w \in Users, DropPending(w) PROVE Counted'
    <2>1. \A u \in Users : pending'[u] = NoPending \/ pending'[u] = pending[u]
        BY <1>4 DEF DropPending, TypeOK
    <2>2. UNCHANGED counts
        BY <1>4 DEF DropPending
    <2>3. QED
        BY <1>a, <2>1, <2>2, NothingCounted
<1>5. ASSUME NEW w \in Users, ExpireCode(w) PROVE Counted'
    <2>1. pending[w] \in Pending /\ HasPending(w)
        BY <1>5 DEF ExpireCode, HasPending, TypeOK
    <2>2. pending' = [pending EXCEPT ![w] = [pending[w] EXCEPT !.fresh = FALSE]]
        BY <1>5 DEF ExpireCode, TypeOK
    <2>3. pending'[w].tries = pending[w].tries
        BY <2>1, <2>2 DEF TypeOK, Pending
    <2>4. \A u \in Users \ {w} : pending'[u] = pending[u]
        BY <2>2 DEF TypeOK
    <2>5. UNCHANGED counts
        BY <1>5 DEF ExpireCode
    <2>6. QED
        BY <1>a, <2>1, <2>3, <2>4, <2>5, NothingCounted
<1>6. ASSUME Restart PROVE Counted'
    BY <1>6, NothingCounted DEF Restart
<1>7. ASSUME NEW r \in Requests, SendMail(r) \/ EnrollStep(r) \/ GiveUp(r) PROVE Counted'
    BY <1>7, <1>b DEF SendMail, EnrollStep, Pick, GetUser, PutUser, PutRejected, ClearCache, GiveUp
<1>8. ASSUME NEW u \in Users,
             \/ RequireMFA(u) \/ LapseStepUp(u) \/ IssueToken(u)
             \/ OpenForm(u) \/ EditUser(u) \/ ResetUser(u)
      PROVE  Counted'
    BY <1>8, <1>b DEF RequireMFA, LapseStepUp, IssueToken, OpenForm, EditUser, ResetUser, AdminPuts
<1>9. CASE Elsewhere
    BY <1>9, <1>b DEF Elsewhere
<1>10. CASE UNCHANGED vars
    BY <1>10, <1>b DEF vars
<1>11. QED
    BY <1>1, <1>2, <1>3, <1>4, <1>5, <1>6, <1>7, <1>8, <1>9, <1>10 DEF ServerStep, Next

-----------------------------------------------------------------------------
(* Keycloak's records *)

\* Faults are only ever added.
LEMMA FaultsGrow == TypeOK /\ ServerStep => faults \in Nat /\ faults' \in Nat /\ faults' >= faults
<1> SUFFICES ASSUME TypeOK, ServerStep PROVE faults \in Nat /\ faults' \in Nat /\ faults' >= faults
    OBVIOUS
<1>1. faults \in Nat
    BY EnrollmentAssumption DEF TypeOK
<1>2. faults' = faults \/ Fault
    BY DEF ServerStep, Next, Start, SendMail, DropPending, CodeMismatch, CodeMatch, EnrollStep,
           Pick, GetUser, PutUser, PutRejected, ClearCache, GiveUp, RequireMFA, ExpireCode,
           LapseStepUp, Restart, IssueToken, OpenForm, EditUser, ResetUser, AdminPuts, Elsewhere, vars
<1>3. QED
    BY <1>1, <1>2 DEF Fault

\* No step takes mfa_enabled away but an administrator's, which wiped records,
\* and a cached record changes only when it is cleared or loaded.
LEMMA Records ==
    ASSUME TypeOK, Carried, ServerStep, NEW u \in Users
    PROVE  /\ u \in wiped => u \in wiped'
           /\ kc[u].mfa => kc'[u].mfa \/ (u \in wiped' /\ form'[u] = NoRecord)
           /\ cache'[u] \in {cache[u], NoRecord, kc'[u]}
           /\ form'[u] \in {form[u], NoRecord, kc'[u]}
<1>1. ASSUME NEW r \in Requests, PutUser(r) \/ (GiveUp(r) /\ ~ UNCHANGED kc)
      PROVE  (kc[u].mfa => kc'[u].mfa) /\ UNCHANGED <<cache, admin>>
    <2> DEFINE rec == Enrolled(proc[r].rep, proc[r].email)
    <2>1. /\ proc[r].at = "put" /\ UNCHANGED <<cache, admin>>
          /\ kc' = [kc EXCEPT ![proc[r].user] = rec]
        BY <1>1 DEF PutUser, GiveUp, keycloak, admin
    <2>2. proc[r].rep \in Record /\ proc[r].email \in Emails \cup {NoEmail}
        BY <2>1 DEF Carried, TypeOK, Process
    <2>3. rec.mfa
        BY <2>2, EnrolledRecord
    <2> HIDE DEF rec
    <2>4. QED
        BY <2>1, <2>3 DEF TypeOK
<1>2. ASSUME NEW r \in Requests, GiveUp(r), UNCHANGED kc
      PROVE  UNCHANGED <<kc, admin>> /\ cache'[u] \in {cache[u], NoRecord}
    BY <1>2 DEF GiveUp, keycloak, admin
<1>3. ASSUME NEW r \in Requests,
             SendMail(r) \/ Pick(r) \/ GetUser(r) \/ PutRejected(r)
      PROVE  UNCHANGED <<kc, cache, admin>>
    BY <1>3 DEF SendMail, Pick, GetUser, PutRejected, keycloak, admin
<1>4. ASSUME NEW r \in Requests, ClearCache(r)
      PROVE  UNCHANGED <<kc, admin>> /\ cache'[u] = NoRecord
    BY <1>4 DEF ClearCache, admin
<1>5. ASSUME NEW r \in Requests, NEW w \in Users,
             CodeMatch(r, w) \/ \E e \in Emails, c \in Codes : Start(r, w, e, c)
      PROVE  UNCHANGED <<kc, cache, admin>>
    BY <1>5 DEF CodeMatch, Start, keycloak, admin
<1>6. ASSUME NEW w \in Users,
             \/ DropPending(w) \/ \E c \in Codes : CodeMismatch(w, c)
             \/ RequireMFA(w) \/ ExpireCode(w) \/ LapseStepUp(w)
      PROVE  UNCHANGED <<kc, cache, admin>>
    BY <1>6 DEF DropPending, CodeMismatch, RequireMFA, ExpireCode, LapseStepUp, keycloak, admin
<1>7. ASSUME NEW w \in Users, IssueToken(w) \/ OpenForm(w)
      PROVE  /\ UNCHANGED <<kc, wiped>> /\ cache'[u] \in {cache[u], kc[u]}
             /\ form'[u] \in {form[u], kc[u]}
    BY <1>7 DEF IssueToken, OpenForm, TypeOK, admin
<1>8. ASSUME NEW w \in Users, EditUser(w) \/ ResetUser(w)
      PROVE  /\ u \in wiped => u \in wiped'
             /\ kc[u].mfa => kc'[u].mfa \/ (u \in wiped' /\ form'[u] = NoRecord)
             /\ UNCHANGED cache /\ form'[u] \in {form[u], NoRecord}
    <2>1. PICK rec \in Record : AdminPuts(w, rec)
        BY <1>8, AdminRecord
    <2>2. QED
        BY <2>1 DEF AdminPuts, TypeOK
<1>9. CASE Restart \/ Elsewhere \/ UNCHANGED vars
    BY <1>9 DEF Restart, Elsewhere, vars, keycloak, admin
<1>10. QED
    BY <1>1, <1>2, <1>3, <1>4, <1>5, <1>6, <1>7, <1>8, <1>9 DEF ServerStep, Next, EnrollStep, admin

\* Steps that set no record's mfa_enabled and leave the cache and whoever is
\* about to clear it.
LEMMA NothingStale ==
    ASSUME TypeOK, NoStaleToken, ServerStep, UNCHANGED cache,
           \A u \in Users : kc'[u].mfa => kc[u].mfa,
           \A r \in Requests : proc[r].at = "clear" => proc'[r] = proc[r]
    PROVE  NoStaleToken'
<1> SUFFICES ASSUME NEW u \in Users, ~ (faults' > 0), cache'[u] # NoRecord,
                    kc'[u].mfa, ~ cache'[u].mfa
             PROVE  \E r \in Requests : proc'[r].at = "clear" /\ proc'[r].user = u
    BY DEF NoStaleToken
<1>1. ~ (faults > 0)
    BY FaultsGrow
<1>2. QED
    BY <1>1 DEF NoStaleToken

LEMMA NextFresh ==
    TypeOK /\ Carried /\ NoStaleToken /\ FormIsPast /\ ServerStep => NoStaleToken'
<1> SUFFICES ASSUME TypeOK, Carried, NoStaleToken, FormIsPast, ServerStep PROVE NoStaleToken'
    OBVIOUS
<1>a. ASSUME Fault PROVE NoStaleToken'
    <2>1. faults' > 0
        BY <1>a, EnrollmentAssumption DEF TypeOK, Fault
    <2>2. QED
        BY <2>1 DEF NoStaleToken
<1>b. proc \in [Requests -> Process] /\ Idle.at = "idle"
    BY DEF TypeOK, Idle
<1>1. ASSUME NEW r \in Requests, PutUser(r) PROVE NoStaleToken'
    <2>1. /\ proc[r].at = "put" /\ UNCHANGED <<cache, faults>>
          /\ kc' = [kc EXCEPT ![proc[r].user] = Enrolled(proc[r].rep, proc[r].email)]
          /\ proc' = [proc EXCEPT ![r] = [proc[r] EXCEPT !.at = "clear"]]
        BY <1>1, <1>b DEF PutUser
    <2>2. proc'[r].at = "clear" /\ proc'[r].user = proc[r].user
        BY <2>1, <1>b DEF Process
    <2>3. \A u \in Users : u # proc[r].user => kc'[u] = kc[u]
        BY <2>1 DEF TypeOK
    <2>4. \A q \in Requests : q # r => proc'[q] = proc[q]
        BY <2>1, <1>b
    <2>5. QED
        BY <2>1, <2>2, <2>3, <2>4 DEF NoStaleToken
<1>2. ASSUME NEW r \in Requests, ClearCache(r) PROVE NoStaleToken'
    BY <1>2 DEF ClearCache, NoStaleToken
<1>3. ASSUME NEW r \in Requests, Pick(r) PROVE NoStaleToken'
    <2>1. /\ proc[r].at = "pick" /\ UNCHANGED <<kc, cache>>
          /\ \A q \in Requests : q # r => proc'[q] = proc[q]
        BY <1>3, <1>b DEF Pick, End, keycloak
    <2>2. QED
        BY <2>1, NothingStale
<1>4. ASSUME NEW r \in Requests, GetUser(r) \/ PutRejected(r) PROVE NoStaleToken'
    <2>1. /\ proc[r].at \in {"get", "put"} /\ UNCHANGED <<kc, cache>>
          /\ \A q \in Requests : q # r => proc'[q] = proc[q]
        BY <1>4, <1>b DEF GetUser, PutRejected, End, keycloak
    <2>2. QED
        BY <2>1, NothingStale
<1>5. ASSUME NEW r \in Requests, SendMail(r) PROVE NoStaleToken'
    <2>1. /\ proc[r].at = "mail" /\ UNCHANGED <<kc, cache>>
          /\ \A q \in Requests : q # r => proc'[q] = proc[q]
        BY <1>5, <1>b DEF SendMail, End, keycloak
    <2>2. QED
        BY <2>1, NothingStale
<1>6. ASSUME NEW r \in Requests, GiveUp(r) PROVE NoStaleToken'
    BY <1>6, <1>a DEF GiveUp
<1>7. ASSUME NEW r \in Requests, NEW w \in Users,
             CodeMatch(r, w) \/ \E e \in Emails, c \in Codes : Start(r, w, e, c)
      PROVE  NoStaleToken'
    <2>1. /\ proc[r] = Idle /\ UNCHANGED <<kc, cache>>
          /\ \A q \in Requests : q # r => proc'[q] = proc[q]
        BY <1>7, <1>b DEF CodeMatch, Start, keycloak
    <2>2. QED
        BY <2>1, <1>b, NothingStale
<1>8. ASSUME NEW w \in Users,
             \/ DropPending(w) \/ \E c \in Codes : CodeMismatch(w, c)
             \/ RequireMFA(w) \/ ExpireCode(w) \/ LapseStepUp(w)
      PROVE  NoStaleToken'
    <2>1. UNCHANGED <<kc, cache, proc>>
        BY <1>8 DEF DropPending, CodeMismatch, RequireMFA, ExpireCode, LapseStepUp, keycloak
    <2>2. QED
        BY <2>1, NothingStale
<1>9. ASSUME NEW w \in Users, IssueToken(w) PROVE NoStaleToken'
    <2>1. UNCHANGED <<kc, proc, faults>> /\ cache' = [cache EXCEPT ![w] = kc[w]]
        BY <1>9 DEF IssueToken
    <2>2. \A u \in Users : cache'[u] = cache[u] \/ cache'[u] = kc'[u]
        BY <2>1 DEF TypeOK
    <2>3. QED
        BY <2>1, <2>2 DEF NoStaleToken
<1>10. ASSUME NEW w \in Users, OpenForm(w) \/ EditUser(w) \/ ResetUser(w)
       PROVE  NoStaleToken'
    <2>1. CASE OpenForm(w)
        BY <2>1, NothingStale DEF OpenForm
    <2>2. CASE ResetUser(w)
        <3>1. /\ kc' = [kc EXCEPT ![w] = [email |-> ClaimEmail[w], mfa |-> FALSE]]
              /\ UNCHANGED <<cache, proc>>
            BY <2>2 DEF ResetUser, AdminPuts
        <3>2. \A u \in Users : kc'[u].mfa => kc[u].mfa
            BY <3>1 DEF TypeOK
        <3>3. QED
            BY <3>1, <3>2, NothingStale
    <2>3. CASE EditUser(w)
        <3>1. kc' = [kc EXCEPT ![w] = form[w]] /\ UNCHANGED <<cache, proc>>
            BY <2>3 DEF EditUser, AdminPuts
        <3>2. \A u \in Users : kc'[u].mfa => kc[u].mfa
            BY <3>1 DEF TypeOK, FormIsPast
        <3>3. QED
            BY <3>1, <3>2, NothingStale
    <2>4. QED
        BY <1>10, <2>1, <2>2, <2>3
<1>11. CASE Restart \/ Elsewhere
    BY <1>11, <1>a DEF Restart, Elsewhere
<1>12. CASE UNCHANGED vars
    BY <1>12, NothingStale DEF vars, keycloak
<1>13. QED
    BY <1>1, <1>2, <1>3, <1>4, <1>5, <1>6, <1>7, <1>8, <1>9, <1>10, <1>11, <1>12
    DEF ServerStep, Next, EnrollStep

LEMMA NextEInv == EInv /\ ServerStep => EInv'
<1>1. EInv /\ ServerStep => CacheIsPast'
    BY Records DEF EInv, CacheIsPast, NoRecord
<1>2. EInv /\ ServerStep => FormIsPast'
    BY Records DEF EInv, FormIsPast, NoRecord
<1>3. QED
    BY <1>1, <1>2, NextTypes, NextCounted, NextFresh DEF EInv, Counted

-----------------------------------------------------------------------------
(* The page *)

LEMMA PageInitIInv == PageInit => IInv
<1> SUFFICES ASSUME PageInit PROVE IInv
    OBVIOUS
<1>1. EInv
    BY InitEInv DEF PageInit
<1>2. tab \in [Tabs -> Page] /\ \A t \in Tabs : ~ tab[t].claim
    BY DEF PageInit, Page
<1>3. lapsed \in BOOLEAN
    BY DEF PageInit
<1>4. QED
    BY <1>1, <1>2, <1>3 DEF IInv, PageTypeOK, EInv, ClaimsAreBacked

\* What Keycloak makes a token of.
LEMMA TokenRecordType == TypeOK => \A u \in Users : TokenRecord(u) \in Record
BY DEF TypeOK, TokenRecord

\* A step of a tab that brings it no tokens.
TabKept ==
    /\ tab' \in [Tabs -> Page]
    /\ \A s \in Tabs : tab'[s].user = tab[s].user /\ tab'[s].claim = tab[s].claim

\* A step of tab t that brings it tokens with the claim b.
TabGets(t, b) ==
    /\ tab' \in [Tabs -> Page]
    /\ \A s \in Tabs : /\ tab'[s].user = tab[s].user
                       /\ tab'[s].claim = IF s = t THEN b ELSE tab[s].claim

Labels == {"page", "call", "replay", "email", "sending", "code", "verify", "refresh"}

LEMMA MoveTab ==
    ASSUME PageTypeOK, NEW t \in Tabs, NEW l \in Labels, Move(t, l)
    PROVE  TabKept
<1>1. tab[t] \in Page
    BY DEF PageTypeOK
<1>2. tab' = [tab EXCEPT ![t] = [tab[t] EXCEPT !.at = l]]
    BY DEF Move, PageTypeOK
<1>3. /\ [tab[t] EXCEPT !.at = l] \in Page
      /\ [tab[t] EXCEPT !.at = l].user = tab[t].user
      /\ [tab[t] EXCEPT !.at = l].claim = tab[t].claim
    BY <1>1 DEF Page, Labels
<1>4. QED
    BY <1>2, <1>3 DEF TabKept, PageTypeOK

LEMMA OpenDialogTab ==
    ASSUME PageTypeOK, NEW t \in Tabs, NEW b \in BOOLEAN, OpenDialog(t, b)
    PROVE  TabKept
<1> DEFINE p == [tab[t] EXCEPT !.at = "email", !.replay = b]
<1>1. tab[t] \in Page
    BY DEF PageTypeOK
<1>2. tab' = [tab EXCEPT ![t] = p]
    BY DEF OpenDialog, PageTypeOK
<1>3. p \in Page /\ p.user = tab[t].user /\ p.claim = tab[t].claim
    BY <1>1 DEF Page
<1> HIDE DEF p
<1>4. QED
    BY <1>2, <1>3 DEF TabKept, PageTypeOK

LEMMA AfterRefreshTab ==
    ASSUME PageTypeOK, NEW t \in Tabs, NEW b \in BOOLEAN, AfterRefresh(t, b)
    PROVE  TabGets(t, b)
<1> DEFINE p == [tab[t] EXCEPT !.at = IF tab[t].replay THEN "replay" ELSE "page",
                               !.claim = b, !.replay = FALSE]
<1>1. tab[t] \in Page
    BY DEF PageTypeOK
<1>2. tab' = [tab EXCEPT ![t] = p]
    BY DEF AfterRefresh, PageTypeOK
<1>3. p \in Page /\ p.user = tab[t].user /\ p.claim = b
    BY <1>1 DEF Page
<1> HIDE DEF p
<1>4. QED
    BY <1>2, <1>3 DEF TabGets, PageTypeOK

\* Keycloak makes a token for the user of tab t: to the servers this is
\* IssueToken, or nothing.
LEMMA TokenMade ==
    ASSUME PageTypeOK, NEW u \in Users, cache' = [cache EXCEPT ![u] = TokenRecord(u)],
           UNCHANGED <<pending, stepUp, kc, policy, admin, proc, counts, faults>>
    PROVE  ServerStep
<1>1. CASE cache[u] = NoRecord
    <2>1. IssueToken(u)
        BY <1>1 DEF IssueToken, TokenRecord
    <2>2. QED
        BY <2>1 DEF ServerStep, Next
<1>2. CASE cache[u] # NoRecord
    <2>1. UNCHANGED cache
        BY <1>2 DEF TokenRecord, PageTypeOK, TypeOK
    <2>2. QED
        BY <2>1 DEF ServerStep, vars, keycloak
<1>3. QED
    BY <1>1, <1>2

\* Every step of the composition is one of the servers, and moves a tab, brings
\* one tokens of its user, or leaves it the tokens it has.
LEMMA PageStep ==
    ASSUME PageTypeOK, [PageNext]_pageVars
    PROVE  /\ ServerStep
           /\ lapsed' \in BOOLEAN
           /\ \/ TabKept
              \/ \E t \in Tabs : LET u == tab[t].user
                                 IN  /\ TabGets(t, TokenRecord(u).mfa)
                                     /\ cache' = [cache EXCEPT ![u] = TokenRecord(u)]
                                     /\ UNCHANGED <<kc, wiped>>
<1>a. /\ \A t \in Tabs : tab[t] \in Page /\ tab[t].user \in Users
      /\ tab \in [Tabs -> Page] /\ lapsed \in BOOLEAN /\ TypeOK /\ Tabs = Requests
    BY DEF PageTypeOK, Page, Tabs
<1>b. ASSUME UNCHANGED vars PROVE ServerStep
    BY <1>b DEF ServerStep
<1>c. ASSUME UNCHANGED tab PROVE TabKept
    BY <1>a, <1>c DEF TabKept
<1>1. ASSUME NEW t \in Tabs, ClickWrite(t) PROVE ServerStep /\ lapsed' \in BOOLEAN /\ TabKept
    <2>1. Move(t, "call") \/ OpenDialog(t, TRUE)
        BY <1>1 DEF ClickWrite
    <2>2. QED
        BY <1>1, <1>a, <1>b, <2>1, MoveTab, OpenDialogTab DEF ClickWrite, Labels
<1>2. ASSUME NEW t \in Tabs, EnableMfa(t) PROVE ServerStep /\ lapsed' \in BOOLEAN /\ TabKept
    BY <1>2, <1>a, <1>b, OpenDialogTab DEF EnableMfa
<1>3. ASSUME NEW t \in Tabs, CloseDialog(t) \/ Back(t) \/ Served(t)
      PROVE  ServerStep /\ lapsed' \in BOOLEAN /\ TabKept
    BY <1>3, <1>a, <1>b, MoveTab DEF CloseDialog, Back, Served, Labels
<1>4. ASSUME NEW t \in Tabs, Reload(t) PROVE ServerStep /\ lapsed' \in BOOLEAN /\ TabKept
    <2> DEFINE p == [tab[t] EXCEPT !.at = "page", !.hasMFA = tab[t].claim, !.replay = FALSE]
    <2>1. p \in Page /\ p.user = tab[t].user /\ p.claim = tab[t].claim
        BY <1>a DEF Page
    <2>2. tab' = [tab EXCEPT ![t] = p]
        BY <1>4, <1>a DEF Reload
    <2> HIDE DEF p
    <2>3. TabKept
        BY <1>a, <2>1, <2>2 DEF TabKept
    <2>4. QED
        BY <1>4, <1>a, <1>b, <2>3 DEF Reload
<1>5. ASSUME NEW t \in Tabs, SendCode(t) PROVE ServerStep /\ lapsed' \in BOOLEAN /\ TabKept
    <2>1. ServerStep
        BY <1>5, <1>a DEF SendCode, ServerStep, Next
    <2>2. QED
        BY <1>5, <1>a, <2>1, MoveTab DEF SendCode, Labels
<1>6. ASSUME NEW t \in Tabs, CodeSent(t) PROVE ServerStep /\ lapsed' \in BOOLEAN /\ TabKept
    <2>1. ServerStep
        BY <1>6, <1>a DEF CodeSent, ServerStep, Next
    <2>2. \E l \in Labels : Move(t, l)
        BY <1>6 DEF CodeSent, Labels
    <2>3. QED
        BY <1>6, <1>a, <2>1, <2>2, MoveTab DEF CodeSent
<1>7. ASSUME NEW t \in Tabs, WrongCode(t) PROVE ServerStep /\ lapsed' \in BOOLEAN /\ TabKept
    <2>1. ServerStep
        BY <1>7, <1>a DEF WrongCode, ServerStep, Next
    <2>2. QED
        BY <1>7, <1>a, <1>c, <2>1 DEF WrongCode
<1>8. ASSUME NEW t \in Tabs, RightCode(t) PROVE ServerStep /\ lapsed' \in BOOLEAN /\ TabKept
    <2>1. ServerStep
        BY <1>8, <1>a DEF RightCode, ServerStep, Next
    <2>2. QED
        BY <1>8, <1>a, <2>1, MoveTab DEF RightCode, Labels
<1>9. ASSUME NEW t \in Tabs, Verifying(t) PROVE ServerStep /\ lapsed' \in BOOLEAN /\ TabKept
    <2>1. ServerStep
        BY <1>9, <1>a DEF Verifying, ServerStep, Next
    <2>2. \E l \in Labels : Move(t, l)
        BY <1>9 DEF Verifying, Labels
    <2>3. QED
        BY <1>9, <1>a, <2>1, <2>2, MoveTab DEF Verifying
<1>10. ASSUME NEW t \in Tabs, Rejected(t) PROVE ServerStep /\ lapsed' \in BOOLEAN /\ TabKept
    <2>1. RequireMFA(tab[t].user) \/ UNCHANGED vars
        BY <1>10 DEF Rejected
    <2>2. ServerStep
        BY <1>a, <2>1 DEF ServerStep, Next
    <2>3. QED
        BY <1>10, <1>a, <2>2, OpenDialogTab DEF Rejected
<1>11. ASSUME NEW t \in Tabs, Refresh(t)
       PROVE  /\ ServerStep /\ lapsed' \in BOOLEAN
              /\ TabGets(t, TokenRecord(tab[t].user).mfa)
              /\ cache' = [cache EXCEPT ![tab[t].user] = TokenRecord(tab[t].user)]
              /\ UNCHANGED <<kc, wiped>>
    <2>1. TokenRecord(tab[t].user).mfa \in BOOLEAN
        BY <1>a, TokenRecordType DEF Record
    <2>2. TabGets(t, TokenRecord(tab[t].user).mfa)
        BY <1>11, <2>1, AfterRefreshTab DEF Refresh, StoreTokens
    <2>3. ServerStep
        BY <1>11, <1>a, TokenMade DEF Refresh
    <2>4. QED
        BY <1>11, <1>a, <2>2, <2>3 DEF Refresh, admin
<1>12. ASSUME NEW t \in Tabs, RefreshFails(t) PROVE ServerStep /\ lapsed' \in BOOLEAN /\ TabKept
    <2>1. tab[t].claim \in BOOLEAN
        BY <1>a DEF Page
    <2>2. TabGets(t, tab[t].claim) \/ Move(t, "code")
        BY <1>12, <2>1, AfterRefreshTab DEF RefreshFails
    <2>3. TabKept
        BY <2>2, MoveTab DEF TabGets, TabKept, Labels
    <2>4. Elsewhere
        BY <1>12 DEF RefreshFails, Elsewhere
    <2>5. QED
        BY <1>12, <1>a, <2>3, <2>4 DEF RefreshFails, ServerStep
<1>13. ASSUME NEW t \in Tabs, Login(t)
       PROVE  /\ ServerStep /\ lapsed' \in BOOLEAN
              /\ TabGets(t, TokenRecord(tab[t].user).mfa)
              /\ cache' = [cache EXCEPT ![tab[t].user] = TokenRecord(tab[t].user)]
              /\ UNCHANGED <<kc, wiped>>
    <2> DEFINE b == TokenRecord(tab[t].user).mfa
               p == [tab[t] EXCEPT !.claim = b, !.hasMFA = b]
    <2>1. b \in BOOLEAN
        BY <1>a, TokenRecordType DEF Record
    <2>2. tab' = [tab EXCEPT ![t] = p]
        BY <1>13, <1>a DEF Login, StoreTokens
    <2> HIDE DEF b
    <2>3. p \in Page /\ p.user = tab[t].user /\ p.claim = b
        BY <1>a, <2>1 DEF Page
    <2> HIDE DEF p
    <2>4. TabGets(t, b)
        BY <1>a, <2>2, <2>3 DEF TabGets
    <2>5. ServerStep
        BY <1>13, <1>a, TokenMade DEF Login
    <2>6. QED
        BY <1>13, <1>a, <2>4, <2>5 DEF Login, b, admin
<1>14. CASE ApiRestart
    <2>1. ServerStep /\ lapsed' \in BOOLEAN
        BY <1>14, <1>a DEF ApiRestart, ServerStep, Next
    <2>2. \A t \in Tabs : \E l \in Labels : tab'[t] = [tab[t] EXCEPT !.at = l]
        BY <1>14, <1>a DEF ApiRestart, Page, Labels
    <2>3. \A t \in Tabs, l \in Labels : /\ [tab[t] EXCEPT !.at = l] \in Page
                                         /\ [tab[t] EXCEPT !.at = l].user = tab[t].user
                                         /\ [tab[t] EXCEPT !.at = l].claim = tab[t].claim
        BY <1>a DEF Page, Labels
    <2>4. \A t \in Tabs : /\ tab'[t] \in Page /\ tab'[t].user = tab[t].user
                         /\ tab'[t].claim = tab[t].claim
        <3> TAKE t \in Tabs
        <3>1. PICK l \in Labels : tab'[t] = [tab[t] EXCEPT !.at = l]
            BY <2>2
        <3> DEFINE p == [tab[t] EXCEPT !.at = l]
        <3>2. p \in Page /\ p.user = tab[t].user /\ p.claim = tab[t].claim
            BY <2>3
        <3> HIDE DEF p
        <3>3. tab'[t] = p
            BY <3>1 DEF p
        <3>4. QED
            BY <3>2, <3>3
    <2>5. TabKept
        <3>1. tab' = [t \in Tabs |-> tab'[t]]
            BY <1>14 DEF ApiRestart
        <3>2. [t \in Tabs |-> tab'[t]] \in [Tabs -> Page]
            BY <2>4
        <3>3. QED
            BY <2>4, <3>1, <3>2 DEF TabKept
    <2>6. QED
        BY <2>1, <2>5
<1>15. ASSUME NEW u \in Users, TimePasses(u) \/ AtKeycloak(u)
       PROVE  ServerStep /\ lapsed' \in BOOLEAN /\ TabKept
    <2>1. ServerStep
        BY <1>15 DEF TimePasses, AtKeycloak, ServerStep, Next
    <2>2. QED
        BY <1>15, <1>a, <1>c, <2>1 DEF TimePasses, AtKeycloak
<1>16. CASE UNCHANGED pageVars
    BY <1>16, <1>a, <1>b, <1>c DEF pageVars
<1>17. QED
    BY <1>1, <1>2, <1>3, <1>4, <1>5, <1>6, <1>7, <1>8, <1>9, <1>10, <1>11, <1>12, <1>13,
       <1>14, <1>15, <1>16 DEF PageNext

LEMMA NextIInv == IInv /\ [PageNext]_pageVars => IInv' /\ ClaimsKept
<1> SUFFICES ASSUME IInv, [PageNext]_pageVars PROVE IInv' /\ ClaimsKept
    OBVIOUS
<1>a. PageTypeOK /\ EInv /\ ClaimsAreBacked /\ TypeOK /\ Carried /\ CacheIsPast
    BY DEF IInv, EInv
<1>b. \A t \in Tabs : tab[t].user \in Users
    BY <1>a DEF PageTypeOK, Page
<1>1. ServerStep /\ lapsed' \in BOOLEAN
    BY <1>a, PageStep
<1>2. EInv' /\ TypeOK'
    BY <1>1, <1>a, NextEInv DEF EInv
<1>3. \A u \in Users : Backed(u) \/ u \in wiped => Backed(u)' \/ u \in wiped'
    BY <1>1, <1>a, Records DEF Backed
<1>4. CASE TabKept
    <2>1. ClaimsAreBacked'
        BY <1>3, <1>4, <1>a, <1>b DEF TabKept, ClaimsAreBacked
    <2>2. QED
        BY <1>1, <1>2, <1>4, <2>1 DEF TabKept, IInv, PageTypeOK, ClaimsKept
<1>5. ASSUME NEW t \in Tabs, TabGets(t, TokenRecord(tab[t].user).mfa),
             cache' = [cache EXCEPT ![tab[t].user] = TokenRecord(tab[t].user)],
             UNCHANGED <<kc, wiped>>
      PROVE  IInv' /\ ClaimsKept
    <2>u. PICK u \in Users : u = tab[t].user
        BY <1>b
    <2>1. cache'[u] = TokenRecord(u) /\ kc'[u] = kc[u]
        BY <1>5, <1>a, <2>u DEF TypeOK
    <2>2. TokenRecord(u).mfa => kc[u].mfa \/ u \in wiped
        BY <1>a, <2>1 DEF TokenRecord, CacheIsPast
    <2>3. TokenRecord(u).mfa => Backed(u)' \/ u \in wiped'
        BY <1>5, <2>1, <2>2 DEF Backed
    <2>4. Backed(u) => TokenRecord(u).mfa
        BY DEF Backed, TokenRecord
    <2>5. ClaimsAreBacked'
        BY <1>3, <1>5, <1>a, <1>b, <2>u, <2>3 DEF TabGets, ClaimsAreBacked
    <2>6. ClaimsKept
        BY <1>5, <1>a, <2>u, <2>4 DEF TabGets, ClaimsAreBacked, ClaimsKept
    <2>7. QED
        BY <1>1, <1>2, <1>5, <2>5, <2>6 DEF TabGets, IInv, PageTypeOK
<1>6. QED
    BY <1>4, <1>5, <1>a, PageStep

LEMMA SpecIInv == PageSpec => []IInv
<1>1. IInv /\ [PageNext]_pageVars => IInv'
    BY NextIInv
<1>2. QED
    BY <1>1, PageInitIInv, PTL DEF PageSpec

-----------------------------------------------------------------------------
(* The replay *)

Window(u) == stepUp[u] = "open" \/ lapsed

\* The policy is missing only after a fault, an enrollment that clears the
\* cache has written its record, which only an administrator undoes, and lapsed
\* remembers.
Known ==
    /\ policy \/ faults > 0
    /\ \A r \in Requests :
           proc[r].at = "clear" => kc[proc[r].user].mfa \/ proc[r].user \in wiped
    /\ \A u \in Users : stepUp[u] = "lapsed" => lapsed

\* On its way to the replay a tab has two guarantors, the window and the
\* record or the token made of it. It takes a fault to lose the window, a fault
\* or an administrator to lose the record, and time may do for one of them.
OnItsWay(t, u) ==
    /\ tab[t].at = "verify" => /\ proc[t].at \in {"pick", "get", "put", "clear"}
                               /\ proc[t].user = u
                               /\ Window(u)
    /\ tab[t].at \in {"refresh", "replay"} => Window(u) \/ faults > 0
    /\ tab[t].at = "refresh" /\ u \notin wiped =>
           /\ Backed(u) \/ faults > 0
           /\ Backed(u) \/ Window(u) \/ faults > 1
    /\ tab[t].at = "replay" /\ u \notin wiped =>
           /\ tab[t].claim \/ faults > 0
           /\ tab[t].claim \/ Window(u) \/ faults > 1

Guaranteed ==
    \A t \in Tabs, u \in Users :
        tab[t].user = u /\ ClaimEmail[u] # NoEmail => OnItsWay(t, u)

\* A step of tab t leaves the other tabs and their requests.
LEMMA OtherTabs ==
    ASSUME PageTypeOK, NEW s \in Tabs, NEW t \in Tabs, s # t,
           \/ ClickWrite(s) \/ EnableMfa(s) \/ CloseDialog(s) \/ Back(s) \/ Reload(s)
           \/ SendCode(s) \/ CodeSent(s) \/ WrongCode(s) \/ RightCode(s) \/ Verifying(s)
           \/ Refresh(s) \/ RefreshFails(s) \/ Served(s) \/ Rejected(s) \/ Login(s)
    PROVE  tab'[t] = tab[t] /\ proc'[t] = proc[t]
<1>a. tab \in [Tabs -> Page] /\ proc \in [Requests -> Process] /\ Tabs = Requests
    BY DEF PageTypeOK, TypeOK, Tabs
<1>1. CASE ClickWrite(s) \/ EnableMfa(s) \/ CloseDialog(s) \/ Back(s) \/ Reload(s) \/ Served(s)
    BY <1>1, <1>a DEF ClickWrite, EnableMfa, CloseDialog, Back, Reload, Served, Move, OpenDialog,
                      vars
<1>2. CASE SendCode(s)
    BY <1>2, <1>a DEF SendCode, Start, Move
<1>3. CASE CodeSent(s)
    BY <1>3, <1>a DEF CodeSent, SendMail, End, Move
<1>4. CASE WrongCode(s)
    BY <1>4, <1>a DEF WrongCode, DropPending, CodeMismatch
<1>5. CASE RightCode(s)
    BY <1>5, <1>a DEF RightCode, CodeMatch, Move
<1>6. CASE Verifying(s)
    <2>1. tab'[t] = tab[t]
        BY <1>6, <1>a DEF Verifying, Move
    <2>2. CASE Pick(s)
        BY <2>1, <2>2, <1>a DEF Pick, End
    <2>3. CASE GetUser(s) \/ PutUser(s)
        BY <2>1, <2>3, <1>a DEF GetUser, PutUser
    <2>4. CASE PutRejected(s) \/ ClearCache(s) \/ GiveUp(s)
        BY <2>1, <2>4, <1>a DEF PutRejected, ClearCache, GiveUp, End
    <2>5. QED
        BY <1>6, <2>1, <2>2, <2>3, <2>4 DEF Verifying, EnrollStep
<1>7. CASE Refresh(s) \/ RefreshFails(s)
    BY <1>7, <1>a DEF Refresh, RefreshFails, AfterRefresh, Move
<1>8. CASE Rejected(s)
    BY <1>8, <1>a DEF Rejected, RequireMFA, OpenDialog, vars
<1>9. CASE Login(s)
    BY <1>9, <1>a DEF Login
<1>10. QED
    BY <1>1, <1>2, <1>3, <1>4, <1>5, <1>6, <1>7, <1>8, <1>9

\* How a tab comes to the steps before a replay, and how it is sent back.
WayOf(t) ==
    /\ tab'[t].at = "verify" => \/ RightCode(t) \/ Verifying(t)
                                \/ tab[t].at = "verify" /\ proc'[t] = proc[t]
    /\ tab'[t].at = "refresh" => tab[t].at = "refresh" \/ Verifying(t)
    /\ tab'[t].at = "replay" => \/ tab[t].at = "replay" /\ tab'[t].claim = tab[t].claim
                                \/ Refresh(t) \/ RefreshFails(t)
    /\ tab[t].at = "replay" /\ tab'[t].at = "email" => Rejected(t)

LEMMA TabStep ==
    ASSUME PageTypeOK, [PageNext]_pageVars, NEW t \in Tabs
    PROVE  WayOf(t)
<1>a. tab \in [Tabs -> Page] /\ tab[t] \in Page
    BY DEF PageTypeOK
<1>b. ASSUME tab'[t] = tab[t], proc'[t] = proc[t] PROVE WayOf(t)
    BY <1>b DEF WayOf
<1>c. ASSUME tab'[t].at \in {"page", "call", "email", "sending", "code"},
             tab[t].at = "replay" => tab'[t].at # "email"
      PROVE  WayOf(t)
    BY <1>c DEF WayOf
<1>1. CASE ClickWrite(t) \/ EnableMfa(t) \/ CloseDialog(t) \/ Back(t)
    <2>1. /\ tab[t].at # "replay"
          /\ tab'[t].at \in {"page", "call", "email", "code"}
        BY <1>1, <1>a DEF ClickWrite, EnableMfa, CloseDialog, Back, Move, OpenDialog, Page
    <2>2. QED
        BY <1>c, <2>1
<1>2. CASE Reload(t)
    <2>1. tab[t].at # "replay" /\ tab'[t].at = "page"
        BY <1>2, <1>a DEF Reload, Page
    <2>2. QED
        BY <1>c, <2>1
<1>3. CASE SendCode(t) \/ CodeSent(t)
    <2>1. tab[t].at # "replay" /\ tab'[t].at \in {"sending", "code", "email"}
        BY <1>3, <1>a DEF SendCode, CodeSent, Move, Page
    <2>2. QED
        BY <1>c, <2>1
<1>4. CASE WrongCode(t)
    <2>1. tab[t].at = "code" /\ tab'[t] = tab[t]
        BY <1>4 DEF WrongCode
    <2>2. QED
        BY <1>c, <2>1
<1>5. CASE RightCode(t)
    <2>1. tab'[t].at = "verify" /\ tab[t].at = "code"
        BY <1>5, <1>a DEF RightCode, Move, Page
    <2>2. QED
        BY <1>5, <2>1 DEF WayOf
<1>6. CASE Verifying(t)
    <2>1. tab'[t].at \in {"verify", "refresh"} /\ tab[t].at = "verify"
        BY <1>6, <1>a DEF Verifying, Move, Page
    <2>2. QED
        BY <1>6, <2>1 DEF WayOf
<1>7. CASE Refresh(t) \/ RefreshFails(t)
    <2>1. tab[t].at = "refresh" /\ (Move(t, "code") \/ \E b : AfterRefresh(t, b))
        BY <1>7 DEF Refresh, RefreshFails
    <2>2. tab'[t].at \in {"replay", "page", "code"}
        <3>1. CASE Move(t, "code")
            BY <1>a, <3>1 DEF Move, Page
        <3>2. CASE \E b : AfterRefresh(t, b)
            BY <1>a, <3>2 DEF AfterRefresh, Page
        <3>3. QED
            BY <2>1, <3>1, <3>2
    <2>3. QED
        BY <1>7, <2>1, <2>2 DEF WayOf
<1>8. CASE Served(t)
    <2>1. tab'[t].at = "page"
        BY <1>8, <1>a DEF Served, Move, Page
    <2>2. QED
        BY <1>c, <2>1
<1>9. CASE Rejected(t)
    <2>1. tab'[t].at = "email"
        BY <1>9, <1>a DEF Rejected, OpenDialog, Page
    <2>2. QED
        BY <1>9, <2>1 DEF WayOf
<1>10. CASE Login(t)
    <2>1. tab'[t].at = "page"
        BY <1>10, <1>a DEF Login, Page
    <2>2. QED
        BY <1>c, <2>1
<1>11. CASE ApiRestart
    <2>1. /\ tab'[t].at = IF tab[t].at = "sending" THEN "email"
                          ELSE IF tab[t].at = "verify" THEN "code" ELSE tab[t].at
          /\ tab'[t].claim = tab[t].claim
        BY <1>11, <1>a DEF ApiRestart, Page
    <2>2. QED
        BY <2>1 DEF WayOf
<1>12. ASSUME NEW u \in Users, TimePasses(u) \/ AtKeycloak(u) PROVE WayOf(t)
    <2>1. UNCHANGED <<tab, proc>>
        BY <1>12 DEF TimePasses, AtKeycloak, ExpireCode, LapseStepUp, OpenForm, EditUser, ResetUser,
                     AdminPuts, IssueToken
    <2>2. QED
        BY <1>b, <2>1
<1>13. CASE UNCHANGED pageVars
    BY <1>13, <1>b DEF pageVars, vars
<1>14. ASSUME NEW s \in Tabs, s # t,
           \/ ClickWrite(s) \/ EnableMfa(s) \/ CloseDialog(s) \/ Back(s) \/ Reload(s)
           \/ SendCode(s) \/ CodeSent(s) \/ WrongCode(s) \/ RightCode(s) \/ Verifying(s)
           \/ Refresh(s) \/ RefreshFails(s) \/ Served(s) \/ Rejected(s) \/ Login(s)
       PROVE  WayOf(t)
    BY <1>14, <1>b, OtherTabs
<1>15. QED
    BY <1>1, <1>2, <1>3, <1>4, <1>5, <1>6, <1>7, <1>8, <1>9, <1>10, <1>11, <1>12, <1>13, <1>14
    DEF PageNext

\* Only time, the gate and a restart close windows.
LEMMA WindowStep ==
    ASSUME PageTypeOK, Known, [PageNext]_pageVars, NEW u \in Users
    PROVE  /\ stepUp'[u] = "lapsed" => lapsed'
           /\ Window(u) => Window(u)' \/ ApiRestart
<1>a. stepUp \in [Users -> {"none", "open", "lapsed"}]
    BY DEF PageTypeOK, TypeOK
<1>b. stepUp[u] = "lapsed" => lapsed
    BY DEF Known
<1>1. CASE ApiRestart
    BY <1>1 DEF ApiRestart, Restart
<1>2. ASSUME UNCHANGED <<stepUp, lapsed>>
      PROVE  (stepUp'[u] = "lapsed" => lapsed') /\ (Window(u) => Window(u)')
    BY <1>2, <1>b DEF Window
<1>3. ASSUME NEW t \in Tabs,
             \/ ClickWrite(t) \/ EnableMfa(t) \/ CloseDialog(t) \/ Back(t) \/ Reload(t)
             \/ Served(t)
      PROVE  UNCHANGED <<stepUp, lapsed>>
    BY <1>3 DEF ClickWrite, EnableMfa, CloseDialog, Back, Reload, Served, vars
<1>4. ASSUME NEW t \in Tabs, SendCode(t) \/ CodeSent(t) \/ WrongCode(t)
      PROVE  UNCHANGED <<stepUp, lapsed>>
    BY <1>4 DEF SendCode, CodeSent, WrongCode, Start, SendMail, DropPending, CodeMismatch
<1>5. ASSUME NEW t \in Tabs, Verifying(t) PROVE UNCHANGED <<stepUp, lapsed>>
    BY <1>5 DEF Verifying, EnrollStep, Pick, GetUser, PutUser, PutRejected, ClearCache, GiveUp
<1>6. ASSUME NEW t \in Tabs, Refresh(t) \/ RefreshFails(t) \/ Login(t)
      PROVE  UNCHANGED <<stepUp, lapsed>>
    BY <1>6 DEF Refresh, RefreshFails, Login
<1>7. ASSUME NEW t \in Tabs, RightCode(t)
      PROVE  stepUp'[u] \in {stepUp[u], "open"} /\ UNCHANGED lapsed
    BY <1>7, <1>a DEF RightCode, CodeMatch, Grant
<1>8. ASSUME NEW t \in Tabs, Rejected(t)
      PROVE  /\ UNCHANGED lapsed
             /\ stepUp'[u] = stepUp[u] \/ (stepUp[u] = "lapsed" /\ stepUp'[u] = "none")
    BY <1>8, <1>a DEF Rejected, RequireMFA, vars
<1>9. ASSUME NEW w \in Users, TimePasses(w) \/ AtKeycloak(w)
      PROVE  UNCHANGED <<stepUp, lapsed>> \/ lapsed'
    BY <1>9 DEF TimePasses, AtKeycloak, ExpireCode, LapseStepUp, OpenForm, EditUser, ResetUser,
                AdminPuts, IssueToken
<1>10. CASE UNCHANGED pageVars
    BY <1>10, <1>2 DEF pageVars, vars
<1>11. QED
    BY <1>1, <1>2, <1>3, <1>4, <1>5, <1>6, <1>7, <1>8, <1>9, <1>10, <1>b DEF PageNext, Window

LEMMA NextKnown == IInv /\ Known /\ [PageNext]_pageVars => Known'
<1> SUFFICES ASSUME IInv, Known, [PageNext]_pageVars PROVE Known'
    OBVIOUS
<1>a. /\ PageTypeOK /\ TypeOK /\ Carried /\ ServerStep
      /\ proc \in [Requests -> Process] /\ kc \in [Users -> Record]
    BY PageStep DEF IInv, EInv, TypeOK
<1>f. faults \in Nat /\ faults' \in Nat /\ faults' >= faults
    BY <1>a, FaultsGrow
<1>1. policy' \/ faults' > 0
    <2>1. policy => policy'
        <3>1. CASE Restart \/ Elsewhere \/ UNCHANGED vars
            BY <3>1 DEF Restart, Elsewhere, vars, keycloak
        <3>2. ASSUME NEW r \in Requests, NEW u \in Users,
                     CodeMatch(r, u) \/ \E e \in Emails, c \in Codes : Start(r, u, e, c)
              PROVE  policy' = policy
            BY <3>2 DEF CodeMatch, Start, keycloak
        <3>3. ASSUME NEW r \in Requests, SendMail(r) \/ EnrollStep(r) PROVE policy' = policy
            BY <3>3 DEF SendMail, EnrollStep, Pick, GetUser, PutUser, PutRejected, ClearCache,
                        keycloak
        <3>4. ASSUME NEW r \in Requests, GiveUp(r) PROVE policy' = policy
            BY <3>4 DEF GiveUp, keycloak
        <3>5. ASSUME NEW u \in Users,
                     \/ DropPending(u) \/ \E c \in Codes : CodeMismatch(u, c)
                     \/ RequireMFA(u) \/ ExpireCode(u) \/ LapseStepUp(u)
                     \/ IssueToken(u) \/ OpenForm(u) \/ EditUser(u) \/ ResetUser(u)
              PROVE  policy' = policy
            BY <3>5 DEF DropPending, CodeMismatch, RequireMFA, ExpireCode, LapseStepUp,
                        IssueToken, OpenForm, EditUser, ResetUser, AdminPuts, keycloak
        <3>6. QED
            BY <1>a, <3>1, <3>2, <3>3, <3>4, <3>5 DEF ServerStep, Next
    <2>2. QED
        BY <1>f, <2>1 DEF Known
<1>2. ASSUME NEW r \in Requests, proc'[r].at = "clear"
      PROVE  kc'[proc'[r].user].mfa \/ proc'[r].user \in wiped'
    <2>1. CASE proc[r].at = "clear" /\ proc'[r] = proc[r]
        <3>1. /\ proc[r].user \in Users
              /\ kc[proc[r].user].mfa \/ proc[r].user \in wiped
            BY <1>a, <2>1 DEF Carried, Known
        <3>2. PICK u \in Users : u = proc[r].user
            BY <3>1
        <3>3. kc'[u].mfa \/ u \in wiped'
            BY <1>a, <3>1, <3>2, Records
        <3>4. QED
            BY <2>1, <3>2, <3>3
    <2>2. CASE PutUser(r)
        <3> DEFINE g == proc[r]
                   rec == Enrolled(g.rep, g.email)
        <3>1. /\ g.at = "put" /\ kc' = [kc EXCEPT ![g.user] = rec]
              /\ proc' = [proc EXCEPT ![r].at = "clear"]
            BY <2>2 DEF PutUser
        <3>2. g.rep \in Record /\ g.email \in Emails \cup {NoEmail} /\ g.user \in Users
            BY <1>a, <3>1 DEF Carried, Process
        <3>3. rec.mfa
            BY <3>2, EnrolledRecord
        <3>4. proc'[r].user = g.user
            BY <1>a, <3>1 DEF Process
        <3> HIDE DEF rec, g
        <3>5. QED
            BY <1>a, <3>1, <3>2, <3>3, <3>4
    <2>3. ASSUME NEW s \in Requests, ~ (s = r /\ PutUser(s)),
                 SendMail(s) \/ EnrollStep(s) \/ GiveUp(s)
          PROVE  proc'[r] = proc[r]
        <3>1. CASE s # r
            BY <1>a, <2>3, <3>1 DEF SendMail, EnrollStep, GiveUp, Pick, GetUser, PutUser,
                                    PutRejected, ClearCache, End
        <3>2. CASE s = r /\ (SendMail(s) \/ PutRejected(s) \/ ClearCache(s) \/ GiveUp(s))
            <4>1. proc'[r] = Idle
                BY <1>a, <3>2 DEF SendMail, PutRejected, ClearCache, GiveUp, End
            <4>2. QED
                BY <1>2, <4>1 DEF Idle
        <3>3. CASE s = r /\ GetUser(s)
            <4>1. proc'[r].at = "put"
                BY <1>a, <3>3 DEF GetUser, Process
            <4>2. QED
                BY <1>2, <4>1
        <3>4. CASE s = r /\ Pick(s)
            <4>1. proc'[r].at \in {"idle", "get"}
                BY <1>a, <3>4 DEF Pick, End, Idle, Process
            <4>2. QED
                BY <1>2, <4>1
        <3>5. QED
            BY <2>3, <3>1, <3>2, <3>3, <3>4 DEF EnrollStep
    <2>4. ASSUME NEW s \in Requests, NEW u \in Users, CodeMatch(s, u)
          PROVE  proc'[r] = proc[r]
        <3>1. s = r => proc'[r].at = "pick"
            BY <1>a, <2>4 DEF CodeMatch, Idle
        <3>2. s # r => proc'[r] = proc[r]
            BY <1>a, <2>4 DEF CodeMatch
        <3>3. QED
            BY <1>2, <3>1, <3>2
    <2>5. ASSUME NEW s \in Requests, NEW u \in Users, NEW e \in Emails, NEW c \in Codes,
                 Start(s, u, e, c)
          PROVE  proc'[r] = proc[r]
        <3>1. s = r => proc'[r].at = "mail"
            BY <1>a, <2>5 DEF Start, Idle
        <3>2. s # r => proc'[r] = proc[r]
            BY <1>a, <2>5 DEF Start
        <3>3. QED
            BY <1>2, <3>1, <3>2
    <2>6. ASSUME NEW u \in Users,
                 \/ DropPending(u) \/ \E c \in Codes : CodeMismatch(u, c)
                 \/ RequireMFA(u) \/ ExpireCode(u) \/ LapseStepUp(u)
                 \/ IssueToken(u) \/ OpenForm(u) \/ EditUser(u) \/ ResetUser(u)
          PROVE  proc'[r] = proc[r]
        BY <2>6 DEF DropPending, CodeMismatch, RequireMFA, ExpireCode, LapseStepUp,
                    IssueToken, OpenForm, EditUser, ResetUser, AdminPuts
    <2>7. ~ Restart
        <3>1. Restart => proc'[r] = Idle
            BY DEF Restart
        <3>2. QED
            BY <1>2, <3>1 DEF Idle
    <2>8. CASE Elsewhere \/ UNCHANGED vars
        BY <1>2, <2>1, <2>8 DEF Elsewhere, vars
    <2>9. QED
        BY <1>2, <1>a, <2>1, <2>2, <2>3, <2>4, <2>5, <2>6, <2>7, <2>8 DEF ServerStep, Next
<1>3. \A u \in Users : stepUp'[u] = "lapsed" => lapsed'
    BY <1>a, WindowStep
<1>4. QED
    BY <1>1, <1>2, <1>3 DEF Known

\* A tab that came back from Keycloak's token endpoint.
LEMMA RefreshedTab ==
    ASSUME PageTypeOK, NEW t \in Tabs, Refresh(t) \/ RefreshFails(t), tab'[t].at # "code"
    PROVE  tab'[t].claim = IF Refresh(t) THEN TokenRecord(tab[t].user).mfa ELSE tab[t].claim
<1>a. tab \in [Tabs -> Page] /\ tab[t] \in Page /\ TypeOK /\ tab[t].user \in Users
    BY DEF PageTypeOK, Page
<1>b. TokenRecord(tab[t].user).mfa \in BOOLEAN /\ tab[t].claim \in BOOLEAN
    BY <1>a, TokenRecordType DEF Record, Page
<1>1. CASE Refresh(t)
    BY <1>1, <1>a, <1>b, AfterRefreshTab DEF Refresh, StoreTokens, TabGets
<1>2. CASE ~ Refresh(t)
    <2>1. ~ Move(t, "code")
        BY <1>a DEF Move, Page
    <2>2. QED
        BY <1>2, <1>a, <1>b, <2>1, AfterRefreshTab DEF RefreshFails, TabGets
<1>3. QED
    BY <1>1, <1>2

\* What a request leaves when it ends in "verify".
LEMMA VerifyStep ==
    ASSUME IInv, Known, NEW t \in Tabs, NEW u \in Users, Verifying(t), proc[t].user = u,
           ClaimEmail[u] # NoEmail, proc[t].at \in {"pick", "get", "put", "clear"}
    PROVE  /\ UNCHANGED <<stepUp, lapsed>>
           /\ IF proc'[t] = Idle
              THEN Backed(u)' \/ faults' > 0 \/ u \in wiped'
              ELSE proc'[t].at \in {"pick", "get", "put", "clear"} /\ proc'[t].user = u
<1>a. /\ PageTypeOK /\ TypeOK /\ Carried /\ Tabs = Requests
      /\ proc \in [Requests -> Process] /\ proc[t] \in Process
      /\ pending \in [Users -> Pending \cup {NoPending}] /\ faults \in Nat
    BY EnrollmentAssumption DEF IInv, EInv, TypeOK, Tabs
<1>b. UNCHANGED <<stepUp, lapsed>>
    BY DEF Verifying, EnrollStep, Pick, GetUser, PutUser, PutRejected, ClearCache, GiveUp
<1>1. CASE Pick(t)
    <2>1. PickEmail(u) # NoEmail
        BY <1>a, EnrollmentAssumption DEF PickEmail, HasPending, Pending
    <2>2. proc' = [proc EXCEPT ![t].at = "get", ![t].email = PickEmail(u)]
        BY <1>1, <2>1 DEF Pick
    <2>3. proc'[t].at = "get" /\ proc'[t].user = u
        BY <1>a, <2>2 DEF Process
    <2>4. QED
        BY <1>b, <2>3 DEF Idle
<1>2. CASE GetUser(t)
    <2>1. proc'[t].at = "put" /\ proc'[t].user = u
        BY <1>2, <1>a DEF GetUser, Process
    <2>2. QED
        BY <1>b, <2>1 DEF Idle
<1>3. CASE PutUser(t)
    <2>1. proc'[t].at = "clear" /\ proc'[t].user = u
        BY <1>3, <1>a DEF PutUser, Process
    <2>2. QED
        BY <1>b, <2>1 DEF Idle
<1>4. CASE PutRejected(t)
    <2>1. faults' > 0 /\ proc'[t] = Idle
        BY <1>4, <1>a DEF PutRejected, Known, End
    <2>2. QED
        BY <1>b, <2>1
<1>5. CASE ClearCache(t)
    <2>1. /\ kc[u].mfa \/ u \in wiped
          /\ UNCHANGED <<kc, wiped>> /\ cache'[u] = NoRecord /\ proc'[t] = Idle
        BY <1>5, <1>a DEF ClearCache, Known, End, admin
    <2>2. Backed(u)' \/ u \in wiped'
        BY <2>1 DEF Backed
    <2>3. QED
        BY <1>b, <2>1, <2>2
<1>6. CASE GiveUp(t)
    <2>1. faults' > 0 /\ proc'[t] = Idle
        BY <1>6, <1>a DEF GiveUp, Fault, End
    <2>2. QED
        BY <1>b, <2>1
<1>7. QED
    BY <1>1, <1>2, <1>3, <1>4, <1>5, <1>6 DEF Verifying, EnrollStep

LEMMA NextGuaranteed == IInv /\ Known /\ Guaranteed /\ [PageNext]_pageVars => Guaranteed'
<1> SUFFICES ASSUME IInv, Known, Guaranteed, [PageNext]_pageVars, NEW t \in Tabs, NEW u \in Users,
                    tab'[t].user = u, ClaimEmail[u] # NoEmail
             PROVE  OnItsWay(t, u)'
    BY DEF Guaranteed
<1>a. /\ PageTypeOK /\ TypeOK /\ Carried /\ ServerStep /\ WayOf(t)
      /\ tab \in [Tabs -> Page] /\ proc \in [Requests -> Process] /\ Tabs = Requests
      /\ stepUp \in [Users -> {"none", "open", "lapsed"}]
    BY PageStep, TabStep DEF IInv, EInv, PageTypeOK, TypeOK, Tabs
<1>b. tab[t].user = u
    BY <1>a, PageStep DEF TabKept, TabGets
<1>c. OnItsWay(t, u)
    BY <1>b DEF Guaranteed
<1>r. u \in wiped => u \in wiped'
    BY <1>a, Records
<1>d. u \notin wiped' /\ tab[t].claim => tab'[t].claim
    BY <1>b, <1>r, NextIInv DEF ClaimsKept
<1>e. u \notin wiped' /\ Backed(u) => Backed(u)'
    BY <1>a, Records DEF Backed
<1>f. faults \in Nat /\ faults' \in Nat /\ faults' >= faults /\ (ApiRestart => faults' = faults + 1)
    BY <1>a, FaultsGrow DEF ApiRestart, Restart, Fault
<1>w. Window(u) => Window(u)' \/ ApiRestart
    BY <1>a, WindowStep
<1>v. ASSUME Verifying(t)
      PROVE  /\ tab[t].at = "verify" /\ Window(u)'
             /\ tab'[t].at = "verify" => /\ proc'[t].at \in {"pick", "get", "put", "clear"}
                                         /\ proc'[t].user = u
             /\ tab'[t].at = "refresh" => Backed(u)' \/ faults' > 0 \/ u \in wiped'
    <2>1. /\ tab[t].at = "verify"
          /\ tab'[t].at = IF proc'[t] = Idle THEN "refresh" ELSE "verify"
        BY <1>a, <1>v DEF Verifying, Move, Page
    <2>2. /\ proc[t].at \in {"pick", "get", "put", "clear"} /\ proc[t].user = u /\ Window(u)
        BY <1>c, <2>1 DEF OnItsWay
    <2>3. /\ UNCHANGED <<stepUp, lapsed>>
          /\ IF proc'[t] = Idle
             THEN Backed(u)' \/ faults' > 0 \/ u \in wiped'
             ELSE proc'[t].at \in {"pick", "get", "put", "clear"} /\ proc'[t].user = u
        BY <1>v, <2>2, VerifyStep
    <2>4. Window(u)'
        BY <2>2, <2>3 DEF Window
    <2>5. QED
        BY <2>1, <2>3, <2>4
<1>1. ASSUME tab'[t].at = "verify"
      PROVE  /\ proc'[t].at \in {"pick", "get", "put", "clear"} /\ proc'[t].user = u
             /\ Window(u)'
    <2>1. CASE RightCode(t)
        <3>1. CodeMatch(t, u)
            BY <1>b, <2>1 DEF RightCode
        <3>2. proc'[t].at = "pick" /\ proc'[t].user = u
            BY <1>a, <3>1 DEF CodeMatch, Idle
        <3>3. stepUp'[u] = "open"
            BY <1>a, <3>1 DEF CodeMatch, Grant
        <3>4. QED
            BY <3>2, <3>3 DEF Window
    <2>2. CASE Verifying(t)
        BY <1>1, <1>v, <2>2
    <2>3. CASE tab[t].at = "verify" /\ proc'[t] = proc[t]
        <3>1. ~ ApiRestart
            BY <1>1, <1>a, <2>3 DEF ApiRestart, Page
        <3>2. QED
            BY <1>c, <1>w, <2>3, <3>1 DEF OnItsWay
    <2>4. QED
        BY <1>1, <1>a, <2>1, <2>2, <2>3 DEF WayOf
<1>2. ASSUME tab'[t].at = "refresh", u \notin wiped'
      PROVE  /\ Backed(u)' \/ faults' > 0
             /\ Backed(u)' \/ Window(u)' \/ faults' > 1
    <2>1. CASE tab[t].at = "refresh"
        <3>a. u \notin wiped
            BY <1>2, <1>r
        <3>1. /\ Window(u) \/ faults > 0
              /\ Backed(u) \/ faults > 0
              /\ Backed(u) \/ Window(u) \/ faults > 1
            BY <1>c, <2>1, <3>a DEF OnItsWay
        <3>2. CASE ApiRestart
            BY <1>2, <1>e, <1>f, <3>1, <3>2
        <3>3. CASE ~ ApiRestart
            BY <1>2, <1>e, <1>f, <1>w, <3>1, <3>3
        <3>4. QED
            BY <3>2, <3>3
    <2>2. CASE Verifying(t)
        BY <1>2, <1>v, <2>2
    <2>3. QED
        BY <1>2, <1>a, <2>1, <2>2 DEF WayOf
<1>3. ASSUME tab'[t].at = "replay", u \notin wiped'
      PROVE  /\ tab'[t].claim \/ faults' > 0
             /\ tab'[t].claim \/ Window(u)' \/ faults' > 1
    <2>1. CASE tab[t].at = "replay"
        <3>a. u \notin wiped
            BY <1>3, <1>r
        <3>1. /\ tab[t].claim \/ faults > 0
              /\ tab[t].claim \/ Window(u) \/ faults > 1
            BY <1>c, <2>1, <3>a DEF OnItsWay
        <3>2. CASE ApiRestart
            BY <1>3, <1>d, <1>f, <3>1, <3>2
        <3>3. CASE ~ ApiRestart
            BY <1>3, <1>d, <1>f, <1>w, <3>1, <3>3
        <3>4. QED
            BY <3>2, <3>3
    <2>2. ASSUME Refresh(t) \/ RefreshFails(t)
          PROVE  /\ UNCHANGED <<stepUp, lapsed>>
                 /\ Window(u) \/ faults > 0
                 /\ Backed(u) \/ faults > 0
                 /\ Backed(u) \/ Window(u) \/ faults > 1
        <3>1. u \notin wiped
            BY <1>3, <1>r
        <3>2. tab[t].at = "refresh" /\ UNCHANGED <<stepUp, lapsed>>
            BY <2>2 DEF Refresh, RefreshFails
        <3>3. QED
            BY <1>c, <3>1, <3>2 DEF OnItsWay
    <2>3. CASE Refresh(t)
        <3>1. tab'[t].claim = TokenRecord(u).mfa
            BY <1>3, <1>a, <1>b, <2>3, RefreshedTab
        <3>2. Backed(u) => tab'[t].claim
            BY <3>1 DEF Backed, TokenRecord
        <3>3. Window(u) => Window(u)'
            BY <2>2, <2>3 DEF Window
        <3>4. QED
            BY <1>f, <2>2, <2>3, <3>2, <3>3
    <2>4. CASE RefreshFails(t)
        <3>1. faults' = faults + 1
            BY <2>4 DEF RefreshFails, Fault
        <3>2. Window(u) => Window(u)'
            BY <2>2, <2>4 DEF Window
        <3>3. QED
            BY <1>f, <2>2, <2>4, <3>1, <3>2
    <2>5. QED
        BY <1>3, <1>a, <2>1, <2>3, <2>4 DEF WayOf
<1>4. ASSUME tab'[t].at \in {"refresh", "replay"} PROVE Window(u)' \/ faults' > 0
    <2>1. CASE tab[t].at \in {"refresh", "replay"}
        <3>1. Window(u) \/ faults > 0
            BY <1>c, <2>1 DEF OnItsWay
        <3>2. QED
            BY <1>f, <1>w, <3>1
    <2>2. CASE Verifying(t)
        BY <1>v, <2>2
    <2>3. CASE Refresh(t) \/ RefreshFails(t)
        <3>1. tab[t].at = "refresh"
            BY <2>3 DEF Refresh, RefreshFails
        <3>2. QED
            BY <2>1, <3>1
    <2>4. QED
        BY <1>4, <1>a, <2>1, <2>2, <2>3 DEF WayOf
<1>5. QED
    BY <1>1, <1>2, <1>3, <1>4 DEF OnItsWay

LEMMA SpecGuaranteed == PageSpec => [](IInv /\ Known /\ Guaranteed)
<1>1. PageInit => Known /\ Guaranteed
    <2> SUFFICES ASSUME PageInit PROVE Known /\ Guaranteed
        OBVIOUS
    <2>1. Known
        <3>1. policy \/ faults > 0
            <4>1. policy = (faults = 0) /\ faults \in {0, 1}
                BY DEF PageInit, Init
            <4>2. CASE faults = 0
                BY <4>1, <4>2, Zenon
            <4>3. CASE faults = 1
                BY <4>3
            <4>4. QED
                BY <4>1, <4>2, <4>3
        <3>2. \A r \in Requests : proc[r].at = "idle"
            BY DEF PageInit, Init, Idle
        <3>3. \A u \in Users : stepUp[u] = "none"
            BY DEF PageInit, Init
        <3>4. QED
            BY <3>1, <3>2, <3>3 DEF Known
    <2>2. \A t \in Tabs : tab[t].at = "page"
        BY DEF PageInit
    <2>3. QED
        BY <2>1, <2>2 DEF Guaranteed, OnItsWay
<1>2. IInv /\ [PageNext]_pageVars => IInv'
    BY NextIInv
<1>3. QED
    BY <1>1, <1>2, PageInitIInv, NextKnown, NextGuaranteed, PTL DEF PageSpec

-----------------------------------------------------------------------------
\* The types of the store, Keycloak's records, the requests and the tabs.
THEOREM TypeCorrect == PageSpec => []PageTypeOK
<1>1. IInv => PageTypeOK
    BY DEF IInv
<1>2. QED
    BY <1>1, SpecIInv, PTL

\* Store.Verify takes a code away under the lock that it is compared under: for
\* any number of tabs and requests, no code opens two windows.
THEOREM WindowTheorem == PageSpec => []OneWindowPerCode
<1>1. IInv => OneWindowPerCode
    BY DEF IInv, EInv
<1>2. QED
    BY <1>1, SpecIInv, PTL

\* Store.Verify counts wrong entries under its lock, whoever makes them: none
\* escapes the limit, for any maxAttempts.
THEOREM WrongTriesTheorem == PageSpec => []WrongTriesAreBounded
<1>1. ASSUME IInv PROVE WrongTriesAreBounded
    <2>1. \A u \in Users : wrong[u] + TriesLeft(u) <= MaxAttempts * starts[u]
        BY <1>1 DEF IInv, EInv, Tries
    <2>2. QED
        BY <1>1, <2>1, Numbers DEF WrongTriesAreBounded, IInv, EInv
<1>2. QED
    BY <1>1, SpecIInv, PTL

\* clearUserCache: after an enrollment that met no fault Keycloak makes no
\* token of an older record, with any number of enrollments under way.
THEOREM FreshTokenTheorem == PageSpec => []NoStaleToken
<1>1. IInv => NoStaleToken
    BY DEF IInv, EInv
<1>2. QED
    BY <1>1, SpecIInv, PTL

\* Unless an administrator took mfa_enabled from the user's record (reset-carol,
\* or a PUT of a record read before the enrollment), no refresh or login of any
\* tab takes the MFA claim away, whatever fails.
THEOREM ClaimTheorem == PageSpec => ClaimIsKept
<1>1. IInv /\ [PageNext]_pageVars =>
          [\A t \in Tabs : tab[t].claim /\ tab[t].user \notin wiped => tab'[t].claim]_pageVars
    BY NextIInv DEF ClaimsKept
<1>2. QED
    BY <1>1, SpecIInv, PTL DEF PageSpec, ClaimIsKept

\* The token and the step-up window stand in for each other: however many tabs
\* a user has and wherever the API dies, the replay of a request after the
\* enrollment is refused only after two mishaps: faults, a window that lapsed,
\* an enrollment that an administrator took back.
THEOREM ReplayTheorem == PageSpec => ReplayIsServed
<1>1. ASSUME IInv, Known, Guaranteed, [PageNext]_pageVars, NEW t \in Tabs,
             tab[t].at = "replay", tab'[t].at = "email", ClaimEmail[tab[t].user] # NoEmail
      PROVE  Mishaps(tab[t].user) >= 2
    <2>1. PICK u \in Users : u = tab[t].user
        BY <1>1 DEF IInv, PageTypeOK, Page
    <2>2. Rejected(t)
        BY <1>1, TabStep DEF WayOf, IInv
    <2>3. ~ tab[t].claim /\ stepUp[u] # "open"
        BY <2>1, <2>2 DEF Rejected, PassesGate
    <2>4. /\ lapsed \/ faults > 0
          /\ u \notin wiped => faults > 0 /\ (lapsed \/ faults > 1)
        <3>1. OnItsWay(t, u)
            BY <1>1, <2>1 DEF Guaranteed
        <3>2. Window(u) => lapsed
            BY <2>3 DEF Window
        <3>3. QED
            BY <1>1, <2>3, <3>1, <3>2 DEF OnItsWay
    <2>5. faults \in Nat
        BY <1>1, EnrollmentAssumption DEF IInv, EInv, TypeOK
    <2>6. QED
        BY <2>1, <2>4, <2>5 DEF Mishaps
<1>2. IInv /\ Known /\ Guaranteed /\ [PageNext]_pageVars =>
          [\A t \in Tabs :
              tab[t].at = "replay" /\ tab'[t].at = "email" /\ ClaimEmail[tab[t].user] # NoEmail
                  => Mishaps(tab[t].user) >= 2]_pageVars
    BY <1>1
<1>3. QED
    BY <1>2, SpecGuaranteed, PTL DEF PageSpec, ReplayIsServed

-----------------------------------------------------------------------------
(* Nobody passes the gate without a code. *)

Enrolling == {"pick", "get", "put", "clear"}

\* Whoever has a window, is or was enrolled or is being enrolled has entered a
\* code.
Earned ==
    /\ \A u \in Users : kc[u].mfa \/ cache[u].mfa \/ stepUp[u] # "none" => grants[u] > 0
    /\ \A r \in Requests : proc[r].at \in Enrolling => grants[proc[r].user] > 0

\* Steps that open no window, write no record and begin no enrollment.
LEMMA NothingEarned ==
    ASSUME TypeOK, Earned, UNCHANGED grants,
           \A u \in Users : kc'[u].mfa => kc[u].mfa,
           \A u \in Users : cache'[u].mfa => cache[u].mfa \/ kc[u].mfa,
           \A u \in Users : stepUp'[u] # "none" => stepUp[u] # "none",
           \A r \in Requests : proc'[r].at \in Enrolling =>
              proc[r].at \in Enrolling /\ proc'[r].user = proc[r].user
    PROVE  Earned'
BY DEF Earned

\* A request that ends is not enrolling any more, the others go on.
LEMMA EndEarns ==
    ASSUME TypeOK, NEW r \in Requests, End(r)
    PROVE  \A s \in Requests : proc'[s].at \in Enrolling =>
              proc[s].at \in Enrolling /\ proc'[s].user = proc[s].user
BY DEF TypeOK, End, Idle, Enrolling

\* The record is written for a user who entered a code.
LEMMA PutEarns ==
    ASSUME TypeOK, Carried, Earned, NEW r \in Requests, proc[r].at = "put",
           kc' = [kc EXCEPT ![proc[r].user] = Enrolled(proc[r].rep, proc[r].email)],
           UNCHANGED <<stepUp, grants, cache>>,
           \A s \in Requests : proc'[s].at \in Enrolling =>
              proc[s].at \in Enrolling /\ proc'[s].user = proc[s].user
    PROVE  Earned'
<1> DEFINE w == proc[r].user
<1>1. w \in Users /\ grants[w] > 0
    BY DEF Carried, Earned, Enrolling
<1>2. \A u \in Users : u # w => kc'[u] = kc[u]
    BY DEF TypeOK
<1> HIDE DEF w
<1>3. QED
    BY <1>1, <1>2 DEF Earned

LEMMA NextEarned == TypeOK /\ Carried /\ FormIsPast /\ Earned /\ ServerStep => Earned'
<1> SUFFICES ASSUME TypeOK, Carried, FormIsPast, Earned, ServerStep PROVE Earned'
    OBVIOUS
<1>1. ASSUME NEW r \in Requests, NEW u \in Users, NEW e \in Emails, NEW c \in Codes,
             Start(r, u, e, c)
      PROVE  Earned'
    <2> DEFINE g == [Idle EXCEPT !.at = "mail", !.user = u, !.email = e]
    <2>1. g.at = "mail" /\ proc' = [proc EXCEPT ![r] = g]
        BY <1>1 DEF Start, Idle
    <2> HIDE DEF g
    <2>2. \A s \in Requests : proc'[s].at \in Enrolling =>
             proc[s].at \in Enrolling /\ proc'[s].user = proc[s].user
        BY <2>1 DEF TypeOK, Enrolling
    <2>3. UNCHANGED <<grants, kc, cache, stepUp>>
        BY <1>1 DEF Start, keycloak
    <2>4. QED
        BY <2>2, <2>3, NothingEarned
<1>2. ASSUME NEW r \in Requests, SendMail(r) \/ PutRejected(r) \/ ClearCache(r)
      PROVE  Earned'
    <2>1. /\ End(r) /\ UNCHANGED <<grants, kc, stepUp>>
          /\ cache' = cache \/ cache' = [u \in Users |-> NoRecord]
        BY <1>2 DEF SendMail, PutRejected, ClearCache, keycloak, counts
    <2>2. \A u \in Users : cache'[u].mfa => cache[u].mfa
        BY <2>1 DEF NoRecord
    <2>3. QED
        BY <2>1, <2>2, EndEarns, NothingEarned
<1>3. ASSUME NEW r \in Requests, NEW u \in Users, CodeMatch(r, u) PROVE Earned'
    <2> DEFINE g == [Idle EXCEPT !.at = "pick", !.user = u, !.proved = pending[u].email]
    <2>1. g.user = u /\ proc' = [proc EXCEPT ![r] = g]
        BY <1>3 DEF CodeMatch, Idle
    <2> HIDE DEF g
    <2>2. /\ UNCHANGED <<kc, cache>> /\ stepUp' = [stepUp EXCEPT ![u] = "open"]
          /\ grants' = [grants EXCEPT ![u] = grants[u] + 1]
        BY <1>3 DEF CodeMatch, Grant, keycloak
    <2>3. grants'[u] > 0 /\ \A w \in Users : w # u => grants'[w] = grants[w]
        BY <2>2 DEF TypeOK
    <2>4. \A w \in Users : grants[w] > 0 => grants'[w] > 0
        BY <2>3
    <2>5. \A w \in Users : w # u => stepUp'[w] = stepUp[w]
        BY <2>2 DEF TypeOK
    <2>6. ASSUME NEW s \in Requests, proc'[s].at \in Enrolling
          PROVE  grants'[proc'[s].user] > 0
        <3>1. CASE s = r
            BY <2>1, <2>3, <3>1 DEF TypeOK
        <3>2. CASE s # r
            <4>1. proc'[s] = proc[s]
                BY <2>1, <3>2 DEF TypeOK
            <4>2. proc[s].user \in Users /\ grants[proc[s].user] > 0
                BY <2>6, <4>1 DEF Carried, Earned, Enrolling
            <4>3. QED
                BY <2>4, <4>1, <4>2
        <3>3. QED
            BY <3>1, <3>2
    <2>7. ASSUME NEW w \in Users, kc'[w].mfa \/ cache'[w].mfa \/ stepUp'[w] # "none"
          PROVE  grants'[w] > 0
        BY <2>2, <2>3, <2>4, <2>5, <2>7 DEF Earned
    <2>8. QED
        BY <2>6, <2>7 DEF Earned
<1>4. ASSUME NEW r \in Requests, Pick(r) \/ GetUser(r) PROVE Earned'
    <2>1. UNCHANGED <<grants, kc, cache, stepUp>>
        BY <1>4 DEF Pick, GetUser, keycloak, admin, counts
    <2>2. \A s \in Requests : proc'[s].at \in Enrolling =>
             proc[s].at \in Enrolling /\ proc'[s].user = proc[s].user
        <3>1. CASE End(r)
            BY <3>1, EndEarns
        <3>2. CASE ~ End(r)
            <4>1. proc[r] \in Process /\ proc[r].at \in Enrolling
                BY <1>4 DEF Pick, GetUser, TypeOK, Enrolling
            <4>2. /\ proc'[r].user = proc[r].user
                  /\ \A s \in Requests : s # r => proc'[s] = proc[s]
                BY <1>4, <3>2, <4>1 DEF Pick, GetUser, TypeOK, Process
            <4>3. QED
                BY <4>1, <4>2
        <3>3. QED
            BY <3>1, <3>2
    <2>3. QED
        BY <2>1, <2>2, NothingEarned
<1>5. ASSUME NEW r \in Requests, PutUser(r) PROVE Earned'
    <2>1. proc[r].at = "put" /\ proc[r] \in Process /\ proc' = [proc EXCEPT ![r].at = "clear"]
        BY <1>5 DEF PutUser, TypeOK
    <2>2. /\ proc'[r].user = proc[r].user
          /\ \A s \in Requests : s # r => proc'[s] = proc[s]
        BY <2>1 DEF TypeOK, Process
    <2>3. \A s \in Requests : proc'[s].at \in Enrolling =>
             proc[s].at \in Enrolling /\ proc'[s].user = proc[s].user
        BY <2>1, <2>2 DEF Enrolling
    <2>4. /\ kc' = [kc EXCEPT ![proc[r].user] = Enrolled(proc[r].rep, proc[r].email)]
          /\ UNCHANGED <<stepUp, grants, cache>>
        BY <1>5 DEF PutUser, counts
    <2>5. QED
        BY <2>1, <2>3, <2>4, PutEarns
<1>6. ASSUME NEW r \in Requests, GiveUp(r) PROVE Earned'
    <2>1. /\ UNCHANGED <<stepUp, grants>>
          /\ \A s \in Requests : proc'[s].at \in Enrolling =>
                proc[s].at \in Enrolling /\ proc'[s].user = proc[s].user
        BY <1>6, EndEarns DEF GiveUp, counts
    <2>2. CASE UNCHANGED keycloak
        BY <2>1, <2>2, NothingEarned DEF keycloak
    <2>3. CASE kc' = kc /\ cache' = [u \in Users |-> NoRecord]
        <3>1. \A u \in Users : ~ cache'[u].mfa
            BY <2>3 DEF NoRecord
        <3>2. QED
            BY <2>1, <2>3, <3>1, NothingEarned
    <2>4. CASE ~ UNCHANGED keycloak /\ ~ (kc' = kc /\ cache' = [u \in Users |-> NoRecord])
        <3>1. /\ proc[r].at = "put" /\ UNCHANGED cache
              /\ kc' = [kc EXCEPT ![proc[r].user] = Enrolled(proc[r].rep, proc[r].email)]
            BY <1>6, <2>4 DEF GiveUp
        <3>2. QED
            BY <2>1, <3>1, PutEarns
    <2>5. QED
        BY <2>2, <2>3, <2>4
<1>7. ASSUME NEW u \in Users,
             DropPending(u) \/ (\E c \in Codes : CodeMismatch(u, c)) \/ ExpireCode(u)
      PROVE  Earned'
    <2>1. UNCHANGED <<grants, kc, cache, stepUp, proc>>
        BY <1>7 DEF DropPending, CodeMismatch, ExpireCode, keycloak, admin, counts
    <2>2. QED
        BY <2>1, NothingEarned
<1>8. ASSUME NEW u \in Users, RequireMFA(u) \/ LapseStepUp(u) PROVE Earned'
    <2>1. UNCHANGED <<grants, kc, cache, proc>>
        BY <1>8 DEF RequireMFA, LapseStepUp, keycloak, admin, counts
    <2>2. \A w \in Users : stepUp'[w] # "none" => stepUp[w] # "none"
        BY <1>8 DEF RequireMFA, LapseStepUp, TypeOK
    <2>3. QED
        BY <2>1, <2>2, NothingEarned
<1>9. ASSUME NEW u \in Users, IssueToken(u) PROVE Earned'
    <2>1. UNCHANGED <<grants, kc, stepUp, proc>> /\ cache' = [cache EXCEPT ![u] = kc[u]]
        BY <1>9 DEF IssueToken, counts
    <2>2. \A w \in Users : cache'[w].mfa => cache[w].mfa \/ kc[w].mfa
        BY <2>1 DEF TypeOK
    <2>3. QED
        BY <2>1, <2>2, NothingEarned
<1>10. ASSUME NEW u \in Users, OpenForm(u) \/ EditUser(u) \/ ResetUser(u) PROVE Earned'
    <2>1. /\ UNCHANGED <<grants, cache, stepUp, proc>>
          /\ \/ kc' = kc
             \/ kc' = [kc EXCEPT ![u] = form[u]]
             \/ kc' = [kc EXCEPT ![u] = [email |-> ClaimEmail[u], mfa |-> FALSE]]
        BY <1>10 DEF OpenForm, EditUser, ResetUser, AdminPuts, counts
    <2>2. \A w \in Users : kc'[w].mfa => kc[w].mfa
        BY <2>1 DEF TypeOK, FormIsPast
    <2>3. QED
        BY <2>1, <2>2, NothingEarned
<1>11. CASE Restart
    <2>1. /\ UNCHANGED <<grants, kc, cache>> /\ \A u \in Users : stepUp'[u] = "none"
          /\ \A r \in Requests : proc'[r].at \notin Enrolling
        BY <1>11 DEF Restart, counts, Idle, Enrolling
    <2>2. QED
        BY <2>1, NothingEarned
<1>12. CASE Elsewhere \/ UNCHANGED vars
    <2>1. UNCHANGED <<grants, kc, cache, stepUp, proc>>
        BY <1>12 DEF Elsewhere, vars, keycloak, admin, counts
    <2>2. QED
        BY <2>1, NothingEarned
<1>13. QED
    BY <1>1, <1>2, <1>3, <1>4, <1>5, <1>6, <1>7, <1>8, <1>9, <1>10, <1>11, <1>12
    DEF ServerStep, Next, EnrollStep

\* Nor has any tab a claim for a user who has not.
ClaimsEarned == \A t \in Tabs : tab[t].claim => grants[tab[t].user] > 0

LEMMA GrantsGrow ==
    ASSUME TypeOK, ServerStep, NEW u \in Users, grants[u] > 0
    PROVE  grants'[u] > 0
<1>1. ASSUME NEW r \in Requests, NEW w \in Users, CodeMatch(r, w) PROVE grants'[u] > 0
    BY <1>1 DEF CodeMatch, Grant, TypeOK
<1>2. ASSUME NEW r \in Requests, NEW w \in Users,
             \E e \in Emails, c \in Codes : Start(r, w, e, c)
      PROVE  UNCHANGED grants
    BY <1>2 DEF Start
<1>3. ASSUME NEW r \in Requests, SendMail(r) \/ EnrollStep(r) \/ GiveUp(r) PROVE UNCHANGED grants
    BY <1>3 DEF SendMail, EnrollStep, Pick, GetUser, PutUser, PutRejected, ClearCache, GiveUp, counts
<1>4. ASSUME NEW w \in Users,
             \/ DropPending(w) \/ \E c \in Codes : CodeMismatch(w, c)
             \/ RequireMFA(w) \/ ExpireCode(w) \/ LapseStepUp(w)
             \/ IssueToken(w) \/ OpenForm(w) \/ EditUser(w) \/ ResetUser(w)
      PROVE  UNCHANGED grants
    BY <1>4 DEF DropPending, CodeMismatch, RequireMFA, ExpireCode, LapseStepUp, IssueToken, OpenForm,
                EditUser, ResetUser, AdminPuts, counts
<1>5. CASE Restart \/ Elsewhere \/ UNCHANGED vars
    BY <1>5 DEF Restart, Elsewhere, vars, counts
<1>6. QED
    BY <1>1, <1>2, <1>3, <1>4, <1>5 DEF ServerStep, Next

\* The gate of RequireMFA opens only for users who entered a code, for any number
\* of users, tabs, codes and faults: no user gets a window, a record or a claim by
\* what another one does, nor by a failure or a restart.
THEOREM GateTheorem == PageSpec => []GateOpensAfterCode
<1>1. PageInit => Earned /\ ClaimsEarned
    BY DEF PageInit, Init, Earned, ClaimsEarned, Enrolling, Idle, NoRecord
<1>2. IInv /\ Earned /\ ClaimsEarned /\ [PageNext]_pageVars => Earned' /\ ClaimsEarned'
    <2> SUFFICES ASSUME IInv, Earned, ClaimsEarned, [PageNext]_pageVars
                 PROVE  Earned' /\ ClaimsEarned'
        OBVIOUS
    <2>1. ServerStep /\ TypeOK /\ Carried /\ FormIsPast /\ PageTypeOK
        BY PageStep DEF IInv, EInv
    <2>2. Earned'
        BY <2>1, NextEarned
    <2>3. \A t \in Tabs : tab[t].user \in Users
        BY <2>1 DEF PageTypeOK, Page
    <2>4. CASE TabKept
        BY <2>1, <2>2, <2>3, <2>4, GrantsGrow DEF TabKept, ClaimsEarned
    <2>5. ASSUME NEW t \in Tabs, TabGets(t, TokenRecord(tab[t].user).mfa)
          PROVE  ClaimsEarned'
        <3>1. PICK u \in Users : u = tab[t].user
            BY <2>3
        <3>2. TokenRecord(u).mfa => grants[u] > 0
            BY DEF TokenRecord, Earned
        <3>3. QED
            BY <2>1, <2>3, <2>5, <3>1, <3>2, GrantsGrow DEF TabGets, ClaimsEarned
    <2>6. \/ TabKept
          \/ \E t \in Tabs : TabGets(t, TokenRecord(tab[t].user).mfa)
        BY <2>1, PageStep
    <2>7. QED
        BY <2>2, <2>4, <2>5, <2>6
<1>3. IInv /\ Earned /\ ClaimsEarned => GateOpensAfterCode
    <2>1. ASSUME IInv, Earned, ClaimsEarned, NEW t \in Tabs, PassesGate(t)
          PROVE  grants[tab[t].user] > 0
        <3>1. tab[t].user \in Users
            BY <2>1 DEF IInv, PageTypeOK, Page
        <3>2. QED
            BY <2>1, <3>1 DEF Earned, ClaimsEarned, PassesGate
    <2>2. QED
        BY <2>1 DEF GateOpensAfterCode
<1>4. QED
    BY <1>1, <1>2, <1>3, SpecIInv, PTL DEF PageSpec
=============================================================================
