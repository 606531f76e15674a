---------------------------- MODULE MfaClaims ----------------------------
(* What the repository says of MFA enrollment and the code does not do. *)
EXTENDS MfaEnrollment

CONSTANT TokenEmail

\* Access tokens have an email claim.
Claims == [u \in Users |-> TokenEmail]

\* "Picks up the email passed at /start" (handler/enroll.go): the address that
\* EnrollVerify writes to Keycloak is the one whose code the caller entered.
\* Store.Verify has deleted the entry by the time PendingEmail looks for it.
PicksUpStartEmail ==
    [][\A r \in Requests :
           proc[r].at = "put" /\ proc'[r].at = "clear" => proc[r].email = proc[r].proved]_vars
=============================================================================
