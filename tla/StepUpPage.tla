---------------------------- MODULE StepUpPage ----------------------------
(***************************************************************************)
(* The browser's side of MFA (nginx/spa/app.js) together with the API's    *)
(* side, MfaEnrollment: write buttons, the enrollment dialog, the refresh  *)
(* of the token after a code was accepted and the replay of the request    *)
(* that opened the dialog, through the RequireMFA gate.                    *)
(*                                                                         *)
(* A request of MfaEnrollment belongs to the browser tab of that name,     *)
(* which awaits its answer; the tabs of a user share what the servers hold.*)
(***************************************************************************)
EXTENDS MfaEnrollment

Tabs == Requests

VARIABLES
    tab,      \* the tabs
    lapsed    \* whether some step-up window has lapsed

pageVars == <<vars, tab, lapsed>>

\* claim is mfa_verified of the tokens in session storage, hasMFA what it was
\* when the page was loaded, replay whether pendingReplay is set.
Page == [at : {"page", "call", "replay", "email", "sending", "code", "verify", "refresh"},
         user : Users, claim : BOOLEAN, hasMFA : BOOLEAN, replay : BOOLEAN]

PageTypeOK ==
    /\ TypeOK
    /\ tab \in [Tabs -> Page]
    /\ lapsed \in BOOLEAN

PageInit ==
    /\ Init
    /\ \E who \in [Tabs -> Users] :
           tab = [t \in Tabs |-> [at |-> "page", user |-> who[t], claim |-> FALSE,
                                  hasMFA |-> FALSE, replay |-> FALSE]]
    /\ lapsed = FALSE

Move(t, label) == tab' = [tab EXCEPT ![t].at = label]

\* openMFADialog
OpenDialog(t, replay) == tab' = [tab EXCEPT ![t].at = "email", ![t].replay = replay]

-----------------------------------------------------------------------------
(* The page *)

\* A write button opens the dialog first unless the page was loaded with MFA.
ClickWrite(t) ==
    /\ tab[t].at = "page"
    /\ IF tab[t].hasMFA THEN Move(t, "call") ELSE OpenDialog(t, TRUE)
    /\ UNCHANGED <<vars, lapsed>>

\* The button "Enable MFA" is shown to users without.
EnableMfa(t) ==
    /\ tab[t].at = "page"
    /\ ~ tab[t].claim
    /\ OpenDialog(t, FALSE)
    /\ UNCHANGED <<vars, lapsed>>

CloseDialog(t) ==
    /\ tab[t].at \in {"email", "code"}
    /\ Move(t, "page")
    /\ UNCHANGED <<vars, lapsed>>

Back(t) ==
    /\ tab[t].at = "code"
    /\ Move(t, "email")
    /\ UNCHANGED <<vars, lapsed>>

\* The tokens outlive a reload, hasMFA is computed anew.
Reload(t) ==
    /\ tab[t].at \in {"page", "email", "code"}
    /\ tab' = [tab EXCEPT ![t] = [@ EXCEPT !.at = "page", !.hasMFA = tab[t].claim,
                                           !.replay = FALSE]]
    /\ UNCHANGED <<vars, lapsed>>

-----------------------------------------------------------------------------
(* The dialog: each step awaits a handler of MfaEnrollment. *)

SendCode(t) ==
    /\ tab[t].at = "email"
    /\ \E e \in Emails, c \in Codes : Start(t, tab[t].user, e, c)
    /\ Move(t, "sending")
    /\ UNCHANGED lapsed

CodeSent(t) ==
    /\ tab[t].at = "sending"
    /\ SendMail(t)
    /\ Move(t, IF faults' = faults THEN "code" ELSE "email")
    /\ UNCHANGED lapsed

WrongCode(t) ==
    /\ tab[t].at = "code"
    /\ \/ DropPending(tab[t].user)
       \/ \E c \in Codes : CodeMismatch(tab[t].user, c)
    /\ UNCHANGED <<tab, lapsed>>

RightCode(t) ==
    /\ tab[t].at = "code"
    /\ CodeMatch(t, tab[t].user)
    /\ Move(t, "verify")
    /\ UNCHANGED lapsed

\* EnrollVerify answers 200 once it has come to its end.
Verifying(t) ==
    /\ tab[t].at = "verify"
    /\ EnrollStep(t) \/ GiveUp(t)
    /\ Move(t, IF proc'[t] = Idle THEN "refresh" ELSE "verify")
    /\ UNCHANGED lapsed

\* What Keycloak makes a token of: the cached record, loaded if need be.
TokenRecord(u) == IF cache[u] = NoRecord THEN kc[u] ELSE cache[u]

\* Faulty: the tokens of the refresh are not stored.
StoreNoTokens(t) == tab[t].claim

\* The claim in the tokens that the refresh puts into session storage.
StoreTokens(t) == TokenRecord(tab[t].user).mfa

\* The dialog closes; the request that opened it, if any, is sent again.
AfterRefresh(t, claim) ==
    tab' = [tab EXCEPT ![t] = [@ EXCEPT !.at = IF tab[t].replay THEN "replay" ELSE "page",
                                        !.claim = claim, !.replay = FALSE]]

Refresh(t) ==
    LET u == tab[t].user
    IN  /\ tab[t].at = "refresh"
        /\ cache' = [cache EXCEPT ![u] = TokenRecord(u)]
        /\ AfterRefresh(t, StoreTokens(t))
        /\ UNCHANGED <<pending, stepUp, kc, policy, admin, proc, counts, faults, lapsed>>

\* Faulty: refresh() stores the body of an error, which has no id token.
RefreshFailsStores(t) ==
    /\ tab[t].at = "refresh"
    /\ Fault
    /\ AfterRefresh(t, FALSE) \/ Move(t, "code")
    /\ UNCHANGED <<pending, stepUp, keycloak, proc, counts, lapsed>>

\* refresh() returns false: the page goes on with the tokens it has. Or its
\* fetch rejects: the exception leaves the dialog open and nothing is replayed.
RefreshFails(t) ==
    /\ tab[t].at = "refresh"
    /\ Fault
    /\ AfterRefresh(t, tab[t].claim) \/ Move(t, "code")
    /\ UNCHANGED <<pending, stepUp, keycloak, proc, counts, lapsed>>

-----------------------------------------------------------------------------
(* The gate *)

PassesGate(t) == tab[t].claim \/ stepUp[tab[t].user] = "open"

Served(t) ==
    /\ tab[t].at \in {"call", "replay"}
    /\ PassesGate(t)
    /\ Move(t, "page")
    /\ UNCHANGED <<vars, lapsed>>

\* 403: the dialog opens and will replay the request. The gate has deleted a
\* window that it found lapsed.
Rejected(t) ==
    LET u == tab[t].user
    IN  /\ tab[t].at \in {"call", "replay"}
        /\ ~ PassesGate(t)
        /\ RequireMFA(u) \/ (stepUp[u] = "none" /\ UNCHANGED vars)
        /\ OpenDialog(t, TRUE)
        /\ UNCHANGED lapsed

-----------------------------------------------------------------------------
\* The user logs in anew: handleCallback stores the tokens and loads the page.
Login(t) ==
    LET u == tab[t].user
    IN  /\ tab[t].at = "page"
        /\ cache' = [cache EXCEPT ![u] = TokenRecord(u)]
        /\ tab' = [tab EXCEPT ![t] = [@ EXCEPT !.claim = StoreTokens(t),
                                               !.hasMFA = StoreTokens(t)]]
        /\ UNCHANGED <<pending, stepUp, kc, policy, admin, proc, counts, faults, lapsed>>

\* The API dies: the answers that tabs await do not come.
ApiRestart ==
    /\ Restart
    /\ tab' = [t \in Tabs |->
           [tab[t] EXCEPT !.at = IF @ = "sending" THEN "email"
                                 ELSE IF @ = "verify" THEN "code" ELSE @]]
    /\ UNCHANGED lapsed

TimePasses(u) ==
    \/ ExpireCode(u) /\ UNCHANGED <<tab, lapsed>>
    \/ LapseStepUp(u) /\ lapsed' = TRUE /\ UNCHANGED tab

\* Meanwhile an administrator works on the user's record, or Keycloak makes a
\* token that no tab receives.
AtKeycloak(u) ==
    /\ OpenForm(u) \/ EditUser(u) \/ ResetUser(u) \/ IssueToken(u)
    /\ UNCHANGED <<tab, lapsed>>

PageNext ==
    \/ \E t \in Tabs :
           \/ ClickWrite(t) \/ EnableMfa(t) \/ CloseDialog(t) \/ Back(t) \/ Reload(t)
           \/ SendCode(t) \/ CodeSent(t) \/ WrongCode(t) \/ RightCode(t) \/ Verifying(t)
           \/ Refresh(t) \/ RefreshFails(t) \/ Served(t) \/ Rejected(t) \/ Login(t)
    \/ \E u \in Users : TimePasses(u) \/ AtKeycloak(u)
    \/ ApiRestart

PageSpec == PageInit /\ [][PageNext]_pageVars

\* A handler that has begun goes on, as every call of it returns or times out.
\* Users click if they like.
FairPageSpec ==
    PageSpec /\ \A t \in Tabs : WF_pageVars(CodeSent(t)) /\ WF_pageVars(Verifying(t))

-----------------------------------------------------------------------------
\* What went wrong for user u so far.
Mishaps(u) ==
    faults + (IF lapsed THEN 1 ELSE 0) + (IF u \in wiped THEN 1 ELSE 0)

\* "two-step enrollment -> automatic replay" (README of the demo): the replay
\* of a request, after its user was verified, is refused only if two things
\* went wrong: a call failed or a process died, a window lapsed, an
\* administrator took the enrollment back. The claim in the fresh token and the
\* window in the API's memory stand in for each other.
ReplayIsServed ==
    [][\A t \in Tabs :
          tab[t].at = "replay" /\ tab'[t].at = "email" /\ ClaimEmail[tab[t].user] # NoEmail
              => Mishaps(tab[t].user) >= 2]_pageVars

\* RequireMFA lets nobody through who has not entered a code that was drawn for
\* them: a window and a claim are traced back to a code over the handlers,
\* Keycloak's records, its cache and the tokens, across failures, restarts and
\* what other tabs do.
GateOpensAfterCode ==
    \A t \in Tabs : PassesGate(t) => grants[tab[t].user] > 0

\* "mfa_verified flips to true right after enroll/verify" (app.js) and only an
\* administrator turns it back, by reset-carol or by putting back a record read
\* before the enrollment: otherwise no login or refresh of any tab, failed or
\* not, takes the claim away, whatever fails between the PUT of an enrollment
\* and the clearing of the cache.
ClaimIsKept ==
    [][\A t \in Tabs : tab[t].claim /\ tab[t].user \notin wiped => tab'[t].claim]_pageVars
=============================================================================
