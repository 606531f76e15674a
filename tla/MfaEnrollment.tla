-------------------------- MODULE MfaEnrollment --------------------------
(***************************************************************************)
(* In-place MFA enrollment of the banking API: the in-memory Store         *)
(* (internal/enrollment/store.go), the handlers EnrollStart and            *)
(* EnrollVerify, the RequireMFA gate and the calls EnrollVerify makes to   *)
(* Keycloak's admin API (internal/admin/keycloak.go).                      *)
(*                                                                         *)
(* A step of a request is one critical section of Store.mu or one call to  *)
(* another service; other requests run in between.  Durations are left     *)
(* out: a code or a step-up window may lapse at any time.                  *)
(***************************************************************************)
EXTENDS Naturals, FiniteSets

CONSTANTS
    Users,         \* subs of access tokens
    Emails,
    ClaimEmail,    \* per user, the email claim of the access token, or NoEmail
    Codes,         \* one-time codes; Start may draw any of them
    Requests,      \* requests that may be in flight together
    None, NoEmail,
    MaxAttempts,   \* maxAttempts
    MaxStarts,     \* bound on the enrollments a user starts
    MaxFaults      \* bound on failed calls and restarts

ASSUME EnrollmentAssumption ==
    /\ NoEmail \notin Emails
    /\ ClaimEmail \in [Users -> Emails \cup {NoEmail}]
    /\ None \notin Users \cup Emails \cup {NoEmail}
    /\ MaxAttempts \in Nat /\ MaxStarts \in Nat /\ MaxFaults \in Nat

VARIABLES
    pending,   \* Store.pending: the code that was drawn, who it is for, wrong tries
    stepUp,    \* Store.stepUp: no window, an open one, one that has lapsed
    kc,        \* Keycloak's user records: email, mfa_enabled
    cache,     \* Keycloak's user cache: what a new token is made from
    policy,    \* whether the realm takes unmanaged attributes such as mfa_enabled
    form,      \* per user, the record an administrator has read and may write
    wiped,     \* users from whom an administrator took mfa_enabled
    proc,      \* the requests
    starts,    \* per user, how often Start ran
    grants,    \* per user, how often Verify opened a window
    wrong,     \* per user, how often Verify answered ErrCodeMismatch
    faults     \* faults so far

admin    == <<form, wiped>>
keycloak == <<kc, cache, policy, admin>>
counts   == <<starts, grants, wrong>>
vars     == <<pending, stepUp, keycloak, proc, counts, faults>>

NoPending == [code |-> None, email |-> NoEmail, fresh |-> FALSE, tries |-> 0]
Pending   == [code : Codes, email : Emails, fresh : BOOLEAN, tries : 0 .. MaxAttempts]
Record    == [email : Emails \cup {NoEmail}, mfa : BOOLEAN]
NoRecord  == [email |-> None, mfa |-> FALSE]

\* email is what the request is about to mail or to write, proved the address
\* whose code the caller entered, rep the record that GET returned.
Process == [at : {"idle", "mail", "pick", "get", "put", "clear"},
            user : Users \cup {None}, email : Emails \cup {NoEmail},
            proved : Emails \cup {NoEmail}, rep : Record \cup {NoRecord}]
Idle    == [at |-> "idle", user |-> None, email |-> NoEmail, proved |-> NoEmail,
            rep |-> NoRecord]

TypeOK ==
    /\ pending \in [Users -> Pending \cup {NoPending}]
    /\ stepUp \in [Users -> {"none", "open", "lapsed"}]
    /\ kc \in [Users -> Record]
    /\ cache \in [Users -> Record \cup {NoRecord}]
    /\ policy \in BOOLEAN
    /\ form \in [Users -> Record \cup {NoRecord}]
    /\ wiped \subseteq Users
    /\ proc \in [Requests -> Process]
    /\ starts \in [Users -> 0 .. MaxStarts]
    /\ grants \in [Users -> Nat]
    /\ wrong \in [Users -> Nat]
    /\ faults \in 0 .. MaxFaults

Fault == faults < MaxFaults /\ faults' = faults + 1

\* Users like the realm's carol, who is not enrolled yet.
\* EnsureUnmanagedAttributesEnabled may fail: main warns and goes on.
Init ==
    /\ pending = [u \in Users |-> NoPending]
    /\ stepUp = [u \in Users |-> "none"]
    /\ kc = [u \in Users |-> [email |-> ClaimEmail[u], mfa |-> FALSE]]
    /\ cache = [u \in Users |-> NoRecord]
    /\ form = [u \in Users |-> NoRecord]
    /\ wiped = {}
    /\ proc = [r \in Requests |-> Idle]
    /\ starts = [u \in Users |-> 0]
    /\ grants = [u \in Users |-> 0]
    /\ wrong = [u \in Users |-> 0]
    /\ faults \in {0, 1} /\ faults <= MaxFaults
    /\ policy = (faults = 0)

\* Request r ends, having answered.
End(r) == proc' = [proc EXCEPT ![r] = Idle]

-----------------------------------------------------------------------------
(* EnrollStart *)

\* Faulty: the window opens when the code is sent.
StartOpens(r, u, e, c) ==
    /\ proc[r] = Idle
    /\ starts[u] < MaxStarts
    /\ pending' = [pending EXCEPT ![u] = [code |-> c, email |-> e, fresh |-> TRUE, tries |-> 0]]
    /\ stepUp' = [stepUp EXCEPT ![u] = "open"]
    /\ starts' = [starts EXCEPT ![u] = @ + 1]
    /\ proc' = [proc EXCEPT ![r] = [Idle EXCEPT !.at = "mail", !.user = u, !.email = e]]
    /\ UNCHANGED <<keycloak, grants, wrong, faults>>

\* Store.Start replaces an entry that is there.
Start(r, u, e, c) ==
    /\ proc[r] = Idle
    /\ starts[u] < MaxStarts
    /\ pending' = [pending EXCEPT ![u] = [code |-> c, email |-> e, fresh |-> TRUE, tries |-> 0]]
    /\ starts' = [starts EXCEPT ![u] = @ + 1]
    /\ proc' = [proc EXCEPT ![r] = [Idle EXCEPT !.at = "mail", !.user = u, !.email = e]]
    /\ UNCHANGED <<stepUp, keycloak, grants, wrong, faults>>

\* Mailer.Send: whether or not it succeeds the entry stays.
SendMail(r) ==
    /\ proc[r].at = "mail"
    /\ Fault \/ UNCHANGED faults
    /\ End(r)
    /\ UNCHANGED <<pending, stepUp, keycloak, counts>>

-----------------------------------------------------------------------------
(* EnrollVerify *)

\* Store.Verify answers ErrNoPending: nothing changes and the request ends, so
\* that case has no action.

HasPending(u) == pending[u] # NoPending

\* ErrCodeExpired, ErrTooManyTries: the entry is dropped.
DropPending(u) ==
    /\ HasPending(u)
    /\ ~ pending[u].fresh \/ pending[u].tries >= MaxAttempts
    /\ pending' = [pending EXCEPT ![u] = NoPending]
    /\ UNCHANGED <<stepUp, keycloak, proc, counts, faults>>

\* Faulty: one try more than maxAttempts.
OpenToTriesLoose(u) == HasPending(u) /\ pending[u].fresh /\ pending[u].tries <= MaxAttempts

OpenToTries(u) == HasPending(u) /\ pending[u].fresh /\ pending[u].tries < MaxAttempts

CodeMismatch(u, c) ==
    /\ OpenToTries(u)
    /\ pending[u].code # c
    /\ pending' = [pending EXCEPT ![u].tries = @ + 1]
    /\ wrong' = [wrong EXCEPT ![u] = @ + 1]
    /\ UNCHANGED <<stepUp, keycloak, proc, starts, grants, faults>>

\* Faulty: the entry stays after the code was used.
GrantKeepsCode(u) ==
    /\ stepUp' = [stepUp EXCEPT ![u] = "open"]
    /\ grants' = [grants EXCEPT ![u] = @ + 1]
    /\ UNCHANGED pending

Grant(u) ==
    /\ pending' = [pending EXCEPT ![u] = NoPending]
    /\ stepUp' = [stepUp EXCEPT ![u] = "open"]
    /\ grants' = [grants EXCEPT ![u] = @ + 1]

CodeMatch(r, u) ==
    /\ proc[r] = Idle
    /\ OpenToTries(u)
    /\ proc' = [proc EXCEPT ![r] = [Idle EXCEPT !.at = "pick", !.user = u,
                                                !.proved = pending[u].email]]
    /\ Grant(u)
    /\ UNCHANGED <<keycloak, starts, wrong, faults>>

\* Faulty: without a pending entry there is no address to write.
PickPendingOnly(u) == pending[u].email

\* PendingEmail, or else the token's email claim.
PickEmail(u) == IF HasPending(u) THEN pending[u].email ELSE ClaimEmail[u]

\* Without an address the user is not enrolled.
Pick(r) ==
    LET e == PickEmail(proc[r].user)
    IN  /\ proc[r].at = "pick"
        /\ IF e = NoEmail THEN End(r)
           ELSE proc' = [proc EXCEPT ![r].at = "get", ![r].email = e]
        /\ UNCHANGED <<pending, stepUp, keycloak, counts, faults>>

\* EnableEmailMFA: GET the record, PUT it with the changes, clear the cache.
GetUser(r) ==
    /\ proc[r].at = "get"
    /\ proc' = [proc EXCEPT ![r].at = "put", ![r].rep = kc[proc[r].user]]
    /\ UNCHANGED <<pending, stepUp, keycloak, counts, faults>>

Enrolled(rep, e) == [rep EXCEPT !.email = e, !.mfa = TRUE]

PutUser(r) ==
    LET g == proc[r]
    IN  /\ g.at = "put"
        /\ policy
        /\ kc' = [kc EXCEPT ![g.user] = Enrolled(g.rep, g.email)]
        /\ proc' = [proc EXCEPT ![r].at = "clear"]
        /\ UNCHANGED <<pending, stepUp, cache, policy, admin, counts, faults>>

\* Keycloak rejects the attributes; EnrollVerify answers 200 all the same.
PutRejected(r) ==
    /\ proc[r].at = "put"
    /\ ~ policy
    /\ End(r)
    /\ UNCHANGED <<pending, stepUp, keycloak, counts, faults>>

\* Faulty: the cache is not cleared.
ClearNothing(r) ==
    /\ proc[r].at = "clear"
    /\ End(r)
    /\ UNCHANGED <<pending, stepUp, keycloak, counts, faults>>

ClearCache(r) ==
    /\ proc[r].at = "clear"
    /\ cache' = [u \in Users |-> NoRecord]
    /\ End(r)
    /\ UNCHANGED <<pending, stepUp, kc, policy, admin, counts, faults>>

\* A call fails, before or after it was carried out, or ten seconds have
\* passed: EnrollVerify logs it and answers 200 all the same.
GiveUp(r) ==
    LET g == proc[r]
    IN  /\ g.at \in {"get", "put", "clear"}
        /\ Fault
        /\ \/ UNCHANGED keycloak
           \/ /\ g.at = "put" /\ policy
              /\ kc' = [kc EXCEPT ![g.user] = Enrolled(g.rep, g.email)]
              /\ UNCHANGED <<cache, policy, admin>>
           \/ /\ g.at = "clear"
              /\ cache' = [u \in Users |-> NoRecord]
              /\ UNCHANGED <<kc, policy, admin>>
        /\ End(r)
        /\ UNCHANGED <<pending, stepUp, counts>>

-----------------------------------------------------------------------------
(* The gate, time, restarts and Keycloak's other users *)

\* IsStepUpVerified deletes a window that has lapsed; a request that finds an
\* open window, or none, changes nothing here.
RequireMFA(u) ==
    /\ stepUp[u] = "lapsed"
    /\ stepUp' = [stepUp EXCEPT ![u] = "none"]
    /\ UNCHANGED <<pending, keycloak, proc, counts, faults>>

ExpireCode(u) ==
    /\ HasPending(u) /\ pending[u].fresh
    /\ pending' = [pending EXCEPT ![u].fresh = FALSE]
    /\ UNCHANGED <<stepUp, keycloak, proc, counts, faults>>

LapseStepUp(u) ==
    /\ stepUp[u] = "open"
    /\ stepUp' = [stepUp EXCEPT ![u] = "lapsed"]
    /\ UNCHANGED <<pending, keycloak, proc, counts, faults>>

\* All state of the Store lives in process memory. The policy is set again,
\* unless that fails.
Restart ==
    /\ Fault
    /\ policy' \in {policy, TRUE}
    /\ pending' = [u \in Users |-> NoPending]
    /\ stepUp' = [u \in Users |-> "none"]
    /\ proc' = [r \in Requests |-> Idle]
    /\ UNCHANGED <<kc, cache, admin, counts>>

\* Keycloak issues a token from the cached record, which it loads if need be.
IssueToken(u) ==
    /\ cache[u] = NoRecord
    /\ cache' = [cache EXCEPT ![u] = kc[u]]
    /\ UNCHANGED <<pending, stepUp, kc, policy, admin, proc, counts, faults>>

\* An administrator, too, gets the record and puts all of it back later: the
\* console's form, or kcadm's update.
OpenForm(u) ==
    /\ form[u] = NoRecord
    /\ form' = [form EXCEPT ![u] = kc[u]]
    /\ UNCHANGED <<pending, stepUp, kc, cache, policy, wiped, proc, counts, faults>>

AdminPuts(u, rec) ==
    /\ form[u] # NoRecord
    /\ form' = [form EXCEPT ![u] = NoRecord]
    /\ kc' = [kc EXCEPT ![u] = rec]
    /\ wiped' = IF kc[u].mfa /\ ~ rec.mfa THEN wiped \cup {u} ELSE wiped
    /\ UNCHANGED <<pending, stepUp, cache, policy, proc, counts, faults>>

\* The administrator changed attributes that are left out here. What was in
\* the form of the others overwrites what has been written since.
EditUser(u) == AdminPuts(u, form[u])

\* "make reset-carol" takes the enrollment back. It goes on to restart the API,
\* which is Restart here and may also come late, or not at all.
ResetUser(u) == AdminPuts(u, [email |-> ClaimEmail[u], mfa |-> FALSE])

EnrollStep(r) == Pick(r) \/ GetUser(r) \/ PutUser(r) \/ PutRejected(r) \/ ClearCache(r)

Next ==
    \/ \E r \in Requests, u \in Users :
           \/ \E e \in Emails, c \in Codes : Start(r, u, e, c)
           \/ CodeMatch(r, u)
    \/ \E r \in Requests : SendMail(r) \/ EnrollStep(r) \/ GiveUp(r)
    \/ \E u \in Users :
           \/ DropPending(u)
           \/ \E c \in Codes : CodeMismatch(u, c)
           \/ RequireMFA(u) \/ ExpireCode(u) \/ LapseStepUp(u)
           \/ IssueToken(u) \/ OpenForm(u) \/ EditUser(u) \/ ResetUser(u)
    \/ Restart

Spec == Init /\ [][Next]_vars

-----------------------------------------------------------------------------
\* A code opens one step-up window at most, however many requests carry it:
\* Store.Verify checks and deletes it under one lock.
OneWindowPerCode ==
    \A u \in Users : grants[u] + (IF HasPending(u) THEN 1 ELSE 0) <= starts[u]

\* Over all requests of a user no code sees more than maxAttempts wrong
\* entries: Store.Verify counts under the lock and Start begins anew.
WrongTriesAreBounded ==
    \A u \in Users : wrong[u] <= MaxAttempts * starts[u]

\* Once EnableEmailMFA has returned without an error no token of an enrolled
\* user is made from a record older than the enrollment (comment before
\* clearUserCache), with other enrollments and administrators at work.
NoStaleToken ==
    \A u \in Users : kc[u].mfa =>
        \/ cache[u] = NoRecord
        \/ cache[u].mfa
        \/ \E r \in Requests : proc[r].at = "clear" /\ proc[r].user = u
        \/ faults > 0

\* A user whose token has an email claim and who enters the code is enrolled
\* in Keycloak, unless a call fails (that of main for the policy included) or
\* the process dies: EnrollVerify.
VerifiedUserIsEnrolled ==
    \A r \in Requests, u \in Users :
        proc[r].at = "pick" /\ proc[r].user = u /\ ClaimEmail[u] # NoEmail
            ~> kc[u].mfa \/ faults > 0
=============================================================================
