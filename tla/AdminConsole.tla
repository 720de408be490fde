---------------------------- MODULE AdminConsole ----------------------------
(***************************************************************************)
(* The sessions of the admin pages, their form tokens, and the reviewed    *)
(* operation that is guarded most: the SMTP test, which sends a message    *)
(* after a signed review, once, and at most a few times a minute.          *)
(*                                                                         *)
(* A page is rendered in one transaction that validates the session and    *)
(* replaces its form token.  An action validates session and token in one  *)
(* transaction and works in others, so that a logout, the clock or a crash *)
(* may come between.                                                       *)
(***************************************************************************)
EXTENDS Integers, FiniteSets

CONSTANTS
    Admin,         \* active admin users
    Session,       \* ids of admin sessions
    Nonce,         \* nonces of reviewed SMTP tests
    Request,       \* requests that may be in progress at the same time
    None,          \* absence of a row
    SessionTtl,    \* ADMIN_SESSION_TTL_SECONDS
    ReviewTtl,     \* REVIEW_INTENT_TTL_SECONDS
    Budget,        \* SMTP_TEST_BUDGET_ATTEMPTS
    BudgetWindow,  \* SMTP_TEST_BUDGET_WINDOW_SECONDS
    MaxTime,       \* bound: the clock
    MaxPages       \* bound: pages rendered in a session

Outcome == {"accepted", "failed", "unavailable", "unconfirmed"}

ASSUME ConsoleLimits ==
    {SessionTtl, ReviewTtl, Budget, BudgetWindow} \subseteq Nat \ {0}

\* Rows of admin_sessions, signed reviews, and rows email_smtp_test_claimed
SessionRow == [admin : Admin, csrf : Nat, revoked : BOOLEAN, expires : Nat]
Review == [session : Session, expires : Nat]
Claim == [admin : Admin, at : Nat]

\* None is neither an id, nor an outcome, nor a row.
ASSUME NoneIsNothing ==
    /\ None \notin Session \cup Nonce \cup Outcome
    /\ None \notin SessionRow
    /\ None \notin Review
    /\ None \notin Claim

VARIABLES
    now,       \* the clock of the application
    session,   \* admin_sessions
    review,    \* per nonce: the signed review token, or None
    claim,     \* per nonce: the row email_smtp_test_claimed, or None
    result,    \* per nonce: the row email_smtp_test_result, or None
    request,   \* per request: where it is, its session and its nonce
    sent,      \* history: per nonce, the calls of SMTP
    taken      \* history: nonces whose message the server took

consoleVars == <<now, session, review, claim, result, request, sent, taken>>

Idle == [at |-> "idle", session |-> None, nonce |-> None, outcome |-> None]

ConsoleInit ==
    /\ now = 0
    /\ session = [s \in Session |-> None]
    /\ review = [n \in Nonce |-> None]
    /\ claim = [n \in Nonce |-> None]
    /\ result = [n \in Nonce |-> None]
    /\ request = [r \in Request |-> Idle]
    /\ sent = [n \in Nonce |-> 0]
    /\ taken = {}

ConsoleTick ==
    /\ now < MaxTime
    /\ now' = now + 1
    /\ UNCHANGED <<session, review, claim, result, request, sent, taken>>

-----------------------------------------------------------------------------
(* Sessions *)

\* create_admin_session
LogIn(s, a) ==
    /\ session[s] = None
    /\ session' = [session EXCEPT ![s] = [admin |-> a, csrf |-> 0,
                       revoked |-> FALSE, expires |-> now + SessionTtl]]
    /\ UNCHANGED <<now, review, claim, result, request, sent, taken>>

\* validate_admin_session
Valid(s) ==
    /\ session[s] # None
    /\ ~session[s].revoked
    /\ session[s].expires > now

Enter(r, s, place) ==
    /\ request[r].at = "idle"
    /\ request' = [request EXCEPT ![r] = [Idle EXCEPT !.at = place,
                                                      !.session = s]]

Leave(r) == request' = [request EXCEPT ![r] = Idle]

\* _admin_page_context validates the session ...
OpenPage(r, s) ==
    /\ Valid(s)
    /\ Enter(r, s, "page")
    /\ UNCHANGED <<now, session, review, claim, result, sent, taken>>

\* ... and replaces its form token, unless the session was revoked meanwhile.
RenderPage(r) ==
    LET s == request[r].session
    IN  /\ request[r].at = "page"
        /\ session[s].csrf < MaxPages
        /\ session' = IF session[s].revoked THEN session
                      ELSE [session EXCEPT ![s].csrf = @ + 1]
        /\ Leave(r)
        /\ UNCHANGED <<now, review, claim, result, sent, taken>>

\* _admin_action_context: only the token of the newest page is accepted.
StartAction(r, s, token) ==
    /\ Valid(s)
    /\ token = session[s].csrf /\ token > 0
    /\ Enter(r, s, "authorised")
    /\ UNCHANGED <<now, session, review, claim, result, sent, taken>>

\* revoke_admin_session validates once more.
LogOut(r) ==
    /\ request[r].at = "authorised"
    /\ session' = IF Valid(request[r].session)
                  THEN [session EXCEPT ![request[r].session].revoked = TRUE]
                  ELSE session
    /\ Leave(r)
    /\ UNCHANGED <<now, review, claim, result, sent, taken>>

-----------------------------------------------------------------------------
(* The SMTP test *)

\* admin_smtp_test_review signs the facts under a fresh nonce.
ReviewTest(r, n) ==
    /\ request[r].at = "authorised"
    /\ review[n] = None
    /\ review' = [review EXCEPT ![n] = [session |-> request[r].session,
                                        expires |-> now + ReviewTtl]]
    /\ Leave(r)
    /\ UNCHANGED <<now, session, claim, result, sent, taken>>

\* verify_smtp_test_review_token: same session, not expired.
ApplyTest(r, n) ==
    /\ request[r].at = "authorised"
    /\ review[n] # None
    /\ review[n].session = request[r].session
    /\ now < review[n].expires
    /\ request' = [request EXCEPT ![r].at = "reviewed", ![r].nonce = n]
    /\ UNCHANGED <<now, session, review, claim, result, sent, taken>>

Actor(r) == session[request[r].session].admin

RecentClaims(a) ==
    {n \in Nonce : /\ claim[n] # None
                   /\ claim[n].admin = a
                   /\ claim[n].at >= now - BudgetWindow}

Claimable(r) ==
    /\ claim[request[r].nonce] = None
    /\ Cardinality(RecentClaims(Actor(r))) < Budget

\* claim_smtp_test_attempt, under the lock of the admin's row.  `place` is
\* "idle" when the answer to the commit is lost: nothing is sent then.
ClaimTest(r, place) ==
    LET n == request[r].nonce
    IN  /\ request[r].at = "reviewed"
        /\ Claimable(r)
        /\ claim' = [claim EXCEPT ![n] = [admin |-> Actor(r), at |-> now]]
        /\ request' = IF place = "idle" THEN [request EXCEPT ![r] = Idle]
                      ELSE [request EXCEPT ![r].at = place]
        /\ UNCHANGED <<now, session, review, result, sent, taken>>

\* The claim is refused, or its transaction fails.
RefuseTest(r) ==
    /\ request[r].at = "reviewed"
    /\ Leave(r)
    /\ UNCHANGED <<now, session, review, claim, result, sent, taken>>

\* run_smtp_test_with_deadline and _smtp_explicit_refusal
OutcomeOf(cause) ==
    CASE cause = "none" -> "accepted"
      [] cause = "refusal" -> "failed"
      [] cause = "config" -> "unavailable"
      [] OTHER -> "unconfirmed"

\* Mutant: a test that is not confirmed is sent again.
TryTestAgain(r, cause, accepted) ==
    LET n == request[r].nonce
    IN  /\ request[r].at = "claimed"
        /\ cause \in {"refusal", "config"} => ~accepted
        /\ cause = "none" => accepted
        /\ sent' = [sent EXCEPT ![n] = @ + 1]
        /\ taken' = IF accepted THEN taken \cup {n} ELSE taken
        /\ request' = IF cause = "timeout" THEN request
                      ELSE [request EXCEPT ![r].at = "tried",
                                           ![r].outcome = OutcomeOf(cause)]
        /\ UNCHANGED <<now, session, review, claim, result>>

\* The call of SMTP, under a deadline.  A definite refusal, or a missing
\* configuration, precedes any acceptance; after a timeout or any other error
\* the server may have taken the message.
TryTest(r, cause, accepted) ==
    LET n == request[r].nonce
    IN  /\ request[r].at = "claimed"
        /\ cause \in {"refusal", "config"} => ~accepted
        /\ cause = "none" => accepted
        /\ sent' = [sent EXCEPT ![n] = @ + 1]
        /\ taken' = IF accepted THEN taken \cup {n} ELSE taken
        /\ request' = [request EXCEPT ![r].at = "tried",
                                      ![r].outcome = OutcomeOf(cause)]
        /\ UNCHANGED <<now, session, review, claim, result>>

\* record_smtp_test_result; the page shows the outcome also when it fails.
RecordTest(r) ==
    /\ request[r].at = "tried"
    /\ result' = [result EXCEPT ![request[r].nonce] = request[r].outcome]
    /\ Leave(r)
    /\ UNCHANGED <<now, session, review, claim, sent, taken>>

\* The process dies.
RequestDies(r) ==
    /\ request[r].at # "idle"
    /\ Leave(r)
    /\ UNCHANGED <<now, session, review, claim, result, sent, taken>>

ConsoleNext ==
    \/ ConsoleTick
    \/ \E s \in Session, a \in Admin : LogIn(s, a)
    \/ \E r \in Request :
          \/ \E s \in Session : \/ OpenPage(r, s)
                                \/ \E t \in 0..MaxPages : StartAction(r, s, t)
          \/ RenderPage(r)
          \/ LogOut(r)
          \/ \E n \in Nonce : ReviewTest(r, n) \/ ApplyTest(r, n)
          \/ ClaimTest(r, "claimed")
          \/ ClaimTest(r, "idle")
          \/ RefuseTest(r)
          \/ \E cause \in {"none", "refusal", "config", "timeout", "other"},
                accepted \in BOOLEAN : TryTest(r, cause, accepted)
          \/ RecordTest(r)
          \/ RequestDies(r)

ConsoleSpec == ConsoleInit /\ [][ConsoleNext]_consoleVars

-----------------------------------------------------------------------------
(* Properties *)

\* The claims of the admin of n within the window that ends with the claim of n.
ClaimsUpTo(n) ==
    {m \in Nonce : /\ claim[m] # None
                   /\ claim[m].admin = claim[n].admin
                   /\ claim[m].at <= claim[n].at
                   /\ claim[m].at >= claim[n].at - BudgetWindow}

\* A reviewed test reaches SMTP at most once, and only under a durable claim
\* of the admin who reviewed it, however often and by however many requests
\* the review is submitted; no admin claims more tests than the budget within
\* any window; and a recorded result says what is known: an accepted test was
\* taken by the server and a failed one was not.
TestSentOnce ==
    \A n \in Nonce :
        /\ sent[n] > 0 => /\ sent[n] = 1
                          /\ claim[n] # None
                          /\ claim[n].admin = session[review[n].session].admin
        /\ claim[n] # None => Cardinality(ClaimsUpTo(n)) <= Budget
        /\ result[n] = "accepted" => n \in taken
        /\ result[n] = "failed" => n \notin taken

=============================================================================
