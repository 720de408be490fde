--------------------------- MODULE ConsoleProofs ----------------------------
(***************************************************************************)
(* The safety of the reviewed SMTP test and of the delivery of keys:       *)
(* proofs about AdminConsole and EmailDelivery, for any number of admins,  *)
(* sessions and requests, of secrets, deliveries and calls, and any        *)
(* limits.                                                                 *)
(***************************************************************************)
EXTENDS AdminConsole, EmailDelivery, FiniteSetTheorems, TLAPS

\* Few steps need arithmetic or the values of strings; those name SMT.
USE Zenon

-----------------------------------------------------------------------------
(* The reviewed SMTP test *)

Progress ==
    [at : {"idle", "page", "authorised", "reviewed", "claimed", "tried"},
     session : Session \cup {None}, nonce : Nonce \cup {None},
     outcome : Outcome \cup {None}]

ConsoleTypeOK ==
    /\ now \in Nat
    /\ session \in [Session -> SessionRow \cup {None}]
    /\ review \in [Nonce -> Review \cup {None}]
    /\ claim \in [Nonce -> Claim \cup {None}]
    /\ result \in [Nonce -> Outcome \cup {None}]
    /\ request \in [Request -> Progress]
    /\ sent \in [Nonce -> Nat]
    /\ taken \in SUBSET Nonce

\* What the place of a request says about its session, its review, the claim
\* and the calls of SMTP under it.
RequestProgress(r) ==
    LET n == request[r].nonce
    IN  /\ request[r].at # "idle" =>
              request[r].session \in Session /\ session[request[r].session] # None
        /\ request[r].at \in {"reviewed", "claimed", "tried"} =>
              n \in Nonce /\ review[n] # None /\ review[n].session = request[r].session
        /\ request[r].at \in {"claimed", "tried"} => claim[n] # None
        /\ request[r].at = "claimed" => sent[n] = 0
        /\ request[r].at = "tried" =>
              /\ sent[n] = 1
              /\ request[r].outcome = "accepted" => n \in taken
              /\ request[r].outcome = "failed" => n \notin taken

\* What the rows of a test say about each other.
NonceProgress(n) ==
    /\ review[n] # None => session[review[n].session] # None
    /\ claim[n] # None => /\ review[n] # None
                          /\ claim[n].admin = session[review[n].session].admin
                          /\ claim[n].at <= now
    /\ sent[n] \in {0, 1}
    /\ sent[n] = 1 => claim[n] # None
    /\ n \in taken => sent[n] = 1
    /\ result[n] # None => sent[n] = 1
    /\ result[n] = "accepted" => n \in taken
    /\ result[n] = "failed" => n \notin taken

\* A claim is carried out by one request.
OneHolder ==
    \A r, q \in Request :
        /\ request[r].at \in {"claimed", "tried"}
        /\ request[q].at \in {"claimed", "tried"}
        /\ request[r].nonce = request[q].nonce
        => r = q

WithinBudget ==
    /\ IsFiniteSet({n \in Nonce : claim[n] # None})
    /\ \A n \in Nonce : claim[n] # None => Cardinality(ClaimsUpTo(n)) <= Budget

ConsoleInv ==
    /\ ConsoleTypeOK
    /\ \A r \in Request : RequestProgress(r)
    /\ \A n \in Nonce : NonceProgress(n)
    /\ OneHolder
    /\ WithinBudget


\* Initially there is nothing.
LEMMA ConsoleInitInv == ConsoleInit => ConsoleInv
<1> SUFFICES ASSUME ConsoleInit PROVE ConsoleInv
  OBVIOUS
<1>1. ConsoleTypeOK
  BY DEF ConsoleInit, ConsoleTypeOK, Idle, Progress
<1>2. \A r \in Request : RequestProgress(r)
  BY DEF ConsoleInit, RequestProgress, Idle
<1>3. \A n \in Nonce : NonceProgress(n)
  BY NoneIsNothing, SMT DEF ConsoleInit, NonceProgress, Outcome
<1>4. OneHolder
  BY DEF ConsoleInit, OneHolder, Idle
<1>5. WithinBudget
  <2>1. {n \in Nonce : claim[n] # None} = {}
    BY DEF ConsoleInit
  <2> QED BY <2>1, FS_EmptySet DEF ConsoleInit, WithinBudget
<1> QED BY <1>1, <1>2, <1>3, <1>4, <1>5 DEF ConsoleInv

\* A step that claims nothing keeps the budget.
LEMMA BudgetFrame ==
    ASSUME WithinBudget, UNCHANGED claim
    PROVE  WithinBudget'
BY DEF WithinBudget, ClaimsUpTo

\* A request that goes back to idle, or has not reviewed anything, puts no
\* obligation on the rows of a test.
LEMMA EnterLeaveInv ==
    ASSUME ConsoleInv, NEW r \in Request, NEW s \in Session,
           NEW place \in {"page", "authorised"},
           \/ Leave(r)
           \/ Enter(r, s, place) /\ Valid(s),
           UNCHANGED <<now, session, review, claim, result, sent, taken>>
    PROVE  ConsoleInv'
<1> USE DEF ConsoleInv
<1> DEFINE x == request'[r]
<1>0. /\ x \in Progress
      /\ request' = [request EXCEPT ![r] = x]
      /\ x.at \in {"idle", "page", "authorised"}
      /\ x.at # "idle" => x.session \in Session /\ session[x.session] # None
  <2>1. CASE Leave(r)
    BY <2>1 DEF Leave, Idle, Progress, ConsoleTypeOK
  <2>2. CASE Enter(r, s, place) /\ Valid(s)
    <3>1. request'[r] = [at |-> place, session |-> s, nonce |-> None, outcome |-> None]
      BY <2>2 DEF Enter, Idle, ConsoleTypeOK
    <3> QED BY <2>2, <3>1, ZenonT(60) DEF Enter, Progress, ConsoleTypeOK, Valid
  <2> QED BY <2>1, <2>2
<1> HIDE DEF x
<1>1. ConsoleTypeOK'
  BY <1>0 DEF ConsoleTypeOK
<1>2. ASSUME NEW q \in Request PROVE RequestProgress(q)'
  <2>1. CASE q = r
    BY <1>0, <2>1 DEF RequestProgress, ConsoleTypeOK
  <2>2. CASE q # r
    <3>1. request'[q] = request[q]
      BY <1>0, <2>2 DEF ConsoleTypeOK
    <3> QED BY <3>1 DEF RequestProgress
  <2> QED BY <2>1, <2>2
<1>3. \A n \in Nonce : NonceProgress(n)'
  BY DEF NonceProgress
<1>4. OneHolder'
  BY <1>0 DEF OneHolder, ConsoleTypeOK
<1> QED BY <1>1, <1>2, <1>3, <1>4, BudgetFrame

\* A session may be created, show a page or be revoked; the admin it belongs
\* to stays, and with it whose claims are whose.
LEMMA SessionInv ==
    ASSUME ConsoleInv,
           session' \in [Session -> SessionRow \cup {None}],
           \A s \in Session : session[s] # None =>
               session'[s] # None /\ session'[s].admin = session[s].admin,
           request' = request \/ \E r \in Request : Leave(r),
           UNCHANGED <<now, review, claim, result, sent, taken>>
    PROVE  ConsoleInv'
<1> USE DEF ConsoleInv
<1>0. \A r \in Request : request'[r] = request[r] \/ request'[r] = Idle
  BY DEF Leave, ConsoleTypeOK
<1>1. ConsoleTypeOK'
  BY SMT DEF ConsoleTypeOK, Leave, Idle, Progress
<1>2. ASSUME NEW r \in Request PROVE RequestProgress(r)'
  <2>1. CASE request'[r] = request[r]
    BY <2>1 DEF RequestProgress
  <2>2. CASE request'[r] = Idle
    BY <2>2, SMT DEF RequestProgress, Idle
  <2> QED BY <1>0, <2>1, <2>2
<1>3. ASSUME NEW n \in Nonce PROVE NonceProgress(n)'
  <2>1. review[n] # None => review[n].session \in Session
    BY DEF ConsoleTypeOK, Review
  <2> QED BY <2>1 DEF NonceProgress
<1>4. OneHolder'
  <2>1. \A r \in Request : request'[r].at \in {"claimed", "tried"} =>
                              request'[r] = request[r]
    BY <1>0, SMT DEF Idle
  <2> QED BY <2>1 DEF OneHolder
<1> QED BY <1>1, <1>2, <1>3, <1>4, BudgetFrame

\* Logging in keeps the invariant: a new session has no pages and no tests yet.
LEMMA LogInInv ==
    ASSUME ConsoleInv, NEW s \in Session, NEW a \in Admin, LogIn(s, a)
    PROVE  ConsoleInv'
<1>1. now + SessionTtl \in Nat
  BY ConsoleLimits, SMT DEF ConsoleInv, ConsoleTypeOK
<1> QED BY <1>1, SessionInv DEF LogIn, ConsoleInv, ConsoleTypeOK, SessionRow

\* Rendering a page turns the form token of a session and nothing else.
LEMMA RenderPageInv ==
    ASSUME ConsoleInv, NEW r \in Request, RenderPage(r)
    PROVE  ConsoleInv'
<1> DEFINE s == request[r].session
<1>1. s \in Session /\ session[s] \in SessionRow
  BY DEF ConsoleInv, RequestProgress, RenderPage, ConsoleTypeOK
<1>2. [session[s] EXCEPT !.csrf = @ + 1] \in SessionRow
  BY <1>1, SMT DEF SessionRow
<1>3. [session[s] EXCEPT !.csrf = @ + 1].admin = session[s].admin
  BY <1>1 DEF SessionRow
<1>4. \/ session' = session
      \/ session' = [session EXCEPT ![s] = [session[s] EXCEPT !.csrf = @ + 1]]
  BY DEF RenderPage
<1> HIDE DEF s
<1> QED
  BY <1>1, <1>2, <1>3, <1>4, SessionInv, NoneIsNothing, ZenonT(60)
     DEF RenderPage, ConsoleInv, ConsoleTypeOK

\* Logging out revokes a session and leaves its admin as it was.
LEMMA LogOutInv ==
    ASSUME ConsoleInv, NEW r \in Request, LogOut(r)
    PROVE  ConsoleInv'
<1> DEFINE s == request[r].session
<1>1. s \in Session /\ session[s] \in SessionRow
  BY DEF ConsoleInv, RequestProgress, LogOut, ConsoleTypeOK
<1>2. [session[s] EXCEPT !.revoked = TRUE] \in SessionRow
  BY <1>1 DEF SessionRow
<1>3. [session[s] EXCEPT !.revoked = TRUE].admin = session[s].admin
  BY <1>1 DEF SessionRow
<1>4. \/ session' = session
      \/ session' = [session EXCEPT ![s] = [session[s] EXCEPT !.revoked = TRUE]]
  BY DEF LogOut
<1> HIDE DEF s
<1> QED
  BY <1>1, <1>2, <1>3, <1>4, SessionInv, NoneIsNothing, ZenonT(60)
     DEF LogOut, ConsoleInv, ConsoleTypeOK

\* The time that passes only takes claims out of a window.
LEMMA TickInv ==
    ASSUME ConsoleInv, ConsoleTick
    PROVE  ConsoleInv'
<1> USE DEF ConsoleInv, ConsoleTick
<1>1. ConsoleTypeOK'
  BY SMT DEF ConsoleTypeOK
<1>2. \A r \in Request : RequestProgress(r)'
  BY DEF RequestProgress
<1>3. \A n \in Nonce : NonceProgress(n)'
  BY SMT DEF NonceProgress, ConsoleTypeOK, Claim
<1>4. OneHolder'
  BY DEF OneHolder
<1> QED BY <1>1, <1>2, <1>3, <1>4, BudgetFrame

\* A review gets a nonce no request has used.
LEMMA ReviewTestInv ==
    ASSUME ConsoleInv, NEW r \in Request, NEW n \in Nonce, ReviewTest(r, n)
    PROVE  ConsoleInv'
<1> USE DEF ConsoleInv
<1> DEFINE s == request[r].session
           x == [session |-> s, expires |-> now + ReviewTtl]
<1>1. s \in Session /\ session[s] # None
  BY DEF RequestProgress, ReviewTest
<1>2. x \in Review
  BY <1>1, ConsoleLimits, SMT DEF Review, ConsoleTypeOK
<1>3. review' = [review EXCEPT ![n] = x] /\ review[n] = None
  BY DEF ReviewTest
<1>4. request' = [request EXCEPT ![r] = Idle]
  BY DEF ReviewTest, Leave
<1>5. x.session = s
  OBVIOUS
<1> HIDE DEF s, x
<1>6. ConsoleTypeOK'
  BY <1>2, <1>3, <1>4, SMT DEF ConsoleTypeOK, ReviewTest, Idle, Progress
<1>7. ASSUME NEW q \in Request PROVE RequestProgress(q)'
  <2>1. CASE q = r
    BY <1>4, <2>1 DEF RequestProgress, Idle, ConsoleTypeOK
  <2>2. CASE q # r
    <3>1. request'[q] = request[q]
      BY <1>4, <2>2 DEF ConsoleTypeOK
    <3> QED BY <1>3, <3>1, SMT DEF RequestProgress, ReviewTest, ConsoleTypeOK
  <2> QED BY <2>1, <2>2
<1>8. ASSUME NEW m \in Nonce PROVE NonceProgress(m)'
  BY <1>1, <1>2, <1>3, <1>5, NoneIsNothing, SMT DEF NonceProgress, ReviewTest, ConsoleTypeOK
<1>9. OneHolder'
  BY <1>4 DEF OneHolder, ConsoleTypeOK, Idle
<1> QED BY <1>6, <1>7, <1>8, <1>9, BudgetFrame DEF ReviewTest

\* A submitted review binds its request to the nonce, while others may hold it too.
LEMMA ApplyTestInv ==
    ASSUME ConsoleInv, NEW r \in Request, NEW n \in Nonce, ApplyTest(r, n)
    PROVE  ConsoleInv'
<1> USE DEF ConsoleInv
<1> DEFINE x == [request[r] EXCEPT !.at = "reviewed", !.nonce = n]
<1>1. request' = [request EXCEPT ![r] = x]
  BY DEF ApplyTest
<1>2. x \in Progress /\ x.at = "reviewed" /\ x.nonce = n /\ x.session = request[r].session
  BY DEF ConsoleTypeOK, Progress
<1> HIDE DEF x
<1>3. ConsoleTypeOK'
  BY <1>1, <1>2, ZenonT(60) DEF ConsoleTypeOK, ApplyTest
<1>4. ASSUME NEW q \in Request PROVE RequestProgress(q)'
  <2>1. CASE q = r
    <3>1. request'[q] = x
      BY <1>1, <2>1 DEF ConsoleTypeOK
    <3>2. request[r].session \in Session /\ session[request[r].session] # None
      BY DEF RequestProgress, ApplyTest
    <3> QED BY <1>2, <3>1, <3>2 DEF RequestProgress, ApplyTest
  <2>2. CASE q # r
    <3>1. request'[q] = request[q]
      BY <1>1, <2>2 DEF ConsoleTypeOK
    <3> QED BY <3>1, SMT DEF RequestProgress, ApplyTest
  <2> QED BY <2>1, <2>2
<1>5. \A m \in Nonce : NonceProgress(m)'
  BY DEF NonceProgress, ApplyTest
<1>6. OneHolder'
  BY <1>1, <1>2 DEF OneHolder, ConsoleTypeOK
<1> QED BY <1>3, <1>4, <1>5, <1>6, BudgetFrame DEF ApplyTest

\* A set within another and one element more.
LEMMA OneMore ==
    ASSUME NEW S, IsFiniteSet(S), NEW x, NEW T, T \subseteq S \cup {x}
    PROVE  /\ IsFiniteSet(T)
           /\ Cardinality(T) \in Nat
           /\ Cardinality(S) \in Nat
           /\ Cardinality(T) <= Cardinality(S) + 1
<1> DEFINE U == S \cup {x}
<1>1. IsFiniteSet(U) /\ Cardinality(U) = IF x \in S THEN Cardinality(S) ELSE Cardinality(S) + 1
  BY FS_AddElement, Zenon
<1>2. IsFiniteSet(T) /\ Cardinality(T) <= Cardinality(U)
  BY <1>1, FS_Subset
<1>3. Cardinality(S) \in Nat /\ Cardinality(T) \in Nat
  BY <1>2, FS_CardinalityType, Zenon
<1> HIDE DEF U
<1> QED BY <1>1, <1>2, <1>3, SMT

\* The claim of a test is the last of its admin's claims; the ones in its
\* window are those that were counted, and itself.
LEMMA ClaimKeepsBudget ==
    ASSUME ConsoleInv, NEW n \in Nonce, NEW a \in Admin,
           claim[n] = None,
           Cardinality(RecentClaims(a)) < Budget,
           claim' = [claim EXCEPT ![n] = [admin |-> a, at |-> now]]
    PROVE  WithinBudget'
<1> USE DEF ConsoleInv
<1> DEFINE c == [admin |-> a, at |-> now]
           Claimed == {m \in Nonce : claim[m] # None}
<1>1. c \in Claim /\ c # None /\ c.admin = a /\ c.at = now
  BY NoneIsNothing, SMT DEF Claim, ConsoleTypeOK
<1>2. claim' = [claim EXCEPT ![n] = c]
  OBVIOUS
<1>3. now \in Nat /\ BudgetWindow \in Nat /\ Budget \in Nat
  BY ConsoleLimits DEF ConsoleTypeOK
<1> HIDE DEF c
<1>4. \A m \in Nonce : /\ m # n => claim'[m] = claim[m]
                       /\ m = n => claim'[m] = c
  BY <1>2 DEF ConsoleTypeOK
<1>5. \A m \in Nonce : claim[m] # None => claim[m] \in Claim /\ claim[m].at \in Nat
                                          /\ claim[m].at <= now
  BY DEF ConsoleTypeOK, Claim, NonceProgress
<1>6. IsFiniteSet(Claimed)
  BY DEF WithinBudget
<1>7. IsFiniteSet({m \in Nonce : claim'[m] # None})
  <2>1. {m \in Nonce : claim'[m] # None} = Claimed \cup {n}
    BY <1>1, <1>4
  <2> QED BY <1>6, <2>1, FS_AddElement
<1>8. ASSUME NEW m \in Nonce, claim'[m] # None
      PROVE  Cardinality(ClaimsUpTo(m)') <= Budget
  <2>1. CASE claim'[m].admin = a /\ claim'[m].at = now
    <3>1. ClaimsUpTo(m)' \subseteq RecentClaims(a) \cup {n}
      BY <1>1, <1>3, <1>4, <1>5, <2>1 DEF ClaimsUpTo, RecentClaims
    <3>2. IsFiniteSet(RecentClaims(a))
      BY <1>6, FS_Subset DEF RecentClaims
    <3>3. /\ Cardinality(ClaimsUpTo(m)') \in Nat
          /\ Cardinality(RecentClaims(a)) \in Nat
          /\ Cardinality(ClaimsUpTo(m)') <= Cardinality(RecentClaims(a)) + 1
      BY <3>1, <3>2, OneMore
    <3> QED BY <1>3, <3>3, SMT
  <2>2. CASE claim'[m].admin # a \/ claim'[m].at # now
    <3>1. m # n /\ claim'[m] = claim[m] /\ claim[m] # None
      BY <1>1, <1>4, <1>8, <2>2
    <3>2. ClaimsUpTo(m)' = ClaimsUpTo(m)
      BY <1>1, <1>3, <1>4, <1>5, <2>2, <3>1, SMT DEF ClaimsUpTo
    <3> QED BY <3>1, <3>2 DEF WithinBudget
  <2> QED BY <2>1, <2>2
<1> QED BY <1>7, <1>8 DEF WithinBudget

\* A claim is made for a nonce without one, within the budget of its admin.
LEMMA ClaimTestInv ==
    ASSUME ConsoleInv, NEW r \in Request, NEW place \in {"idle", "claimed"},
           ClaimTest(r, place)
    PROVE  ConsoleInv'
<1> USE DEF ConsoleInv
<1> DEFINE n == request[r].nonce
           s == request[r].session
           a == session[s].admin
           c == [admin |-> a, at |-> now]
           x == IF place = "idle" THEN Idle ELSE [request[r] EXCEPT !.at = place]
<1>1. /\ n \in Nonce /\ s \in Session /\ session[s] # None
      /\ review[n] # None /\ review[n].session = s
  BY DEF RequestProgress, ClaimTest
<1>2. a \in Admin /\ now \in Nat
  BY <1>1 DEF ConsoleTypeOK, SessionRow
<1>3. c \in Claim /\ c # None /\ c.admin = a /\ c.at = now
  BY <1>2, NoneIsNothing, SMT DEF Claim
<1>4. /\ claim[n] = None
      /\ Cardinality(RecentClaims(a)) < Budget
      /\ claim' = [claim EXCEPT ![n] = c]
  BY DEF ClaimTest, Claimable, Actor
<1>5. WithinBudget'
  BY <1>1, <1>2, <1>4, ClaimKeepsBudget
<1>6. request' = [request EXCEPT ![r] = x]
  BY DEF ClaimTest
<1>7. /\ x \in Progress
      /\ x.at \in {"idle", "claimed"}
      /\ x.at = "claimed" => x.nonce = n /\ x.session = s
  BY DEF ConsoleTypeOK, Progress, Idle
<1>8. sent[n] = 0 /\ n \notin taken /\ result[n] = None
  BY <1>1, <1>4 DEF NonceProgress
<1>9. \A q \in Request : request[q].at \in {"claimed", "tried"} => request[q].nonce # n
  BY <1>4 DEF RequestProgress
<1>10. UNCHANGED <<now, session, review, result, sent, taken>>
  BY DEF ClaimTest
<1> HIDE DEF n, s, a, c, x
<1>11. ConsoleTypeOK'
  BY <1>1, <1>3, <1>4, <1>6, <1>7, <1>10 DEF ConsoleTypeOK
<1>12. ASSUME NEW q \in Request PROVE RequestProgress(q)'
  <2>1. CASE q = r
    <3>1. request'[q] = x
      BY <1>6, <2>1 DEF ConsoleTypeOK
    <3>2. claim'[n] # None
      BY <1>1, <1>3, <1>4 DEF ConsoleTypeOK
    <3> QED BY <1>1, <1>7, <1>8, <1>10, <3>1, <3>2 DEF RequestProgress
  <2>2. CASE q # r
    <3>1. request'[q] = request[q]
      BY <1>6, <2>2 DEF ConsoleTypeOK
    <3>2. request[q].at \in {"claimed", "tried"} =>
             claim'[request[q].nonce] = claim[request[q].nonce]
      BY <1>4, <1>9 DEF ConsoleTypeOK, RequestProgress
    <3> QED BY <1>10, <3>1, <3>2 DEF RequestProgress
  <2> QED BY <2>1, <2>2
<1>13. ASSUME NEW m \in Nonce PROVE NonceProgress(m)'
  <2>1. CASE m = n
    <3>1. claim'[m] = c
      BY <1>4, <2>1 DEF ConsoleTypeOK
    <3>2. c.admin = session[review[m].session].admin /\ c.at <= now
      BY <1>1, <1>2, <1>3, <2>1, SMT DEF a
    <3> QED BY <1>1, <1>3, <1>10, <2>1, <3>1, <3>2 DEF NonceProgress
  <2>2. CASE m # n
    <3>1. claim'[m] = claim[m]
      BY <1>4, <2>2 DEF ConsoleTypeOK
    <3> QED BY <1>10, <3>1 DEF NonceProgress
  <2> QED BY <2>1, <2>2
<1>14. OneHolder'
  <2>1. \A q \in Request : q # r => request'[q] = request[q]
    BY <1>6 DEF ConsoleTypeOK
  <2>2. request'[r] = x
    BY <1>6 DEF ConsoleTypeOK
  <2> QED BY <1>7, <1>9, <2>1, <2>2, SMT DEF OneHolder
<1> QED BY <1>5, <1>11, <1>12, <1>13, <1>14

\* The one request that made the claim may send, once.
LEMMA TryTestInv ==
    ASSUME ConsoleInv, NEW r \in Request,
           NEW cause \in {"none", "refusal", "config", "timeout", "other"},
           NEW accepted \in BOOLEAN, TryTest(r, cause, accepted)
    PROVE  ConsoleInv'
<1> USE DEF ConsoleInv
<1> DEFINE n == request[r].nonce
           o == OutcomeOf(cause)
           x == [request[r] EXCEPT !.at = "tried", !.outcome = o]
<1>1. /\ n \in Nonce /\ request[r].session \in Session /\ session[request[r].session] # None
      /\ review[n] # None /\ review[n].session = request[r].session
      /\ claim[n] # None /\ sent[n] = 0
  BY DEF RequestProgress, TryTest
<1>2. n \notin taken /\ result[n] = None
  BY <1>1, SMT DEF NonceProgress
<1>3. o \in Outcome /\ (o = "accepted" => cause = "none") /\ (o = "failed" => cause = "refusal")
  BY DEF OutcomeOf, Outcome
<1>4. x \in Progress /\ x.at = "tried" /\ x.nonce = n
      /\ x.session = request[r].session /\ x.outcome = o
  BY <1>3 DEF ConsoleTypeOK, Progress
<1>5. /\ request' = [request EXCEPT ![r] = x]
      /\ sent' = [sent EXCEPT ![n] = 1]
      /\ taken' = IF accepted THEN taken \cup {n} ELSE taken
      /\ cause = "none" => accepted
      /\ cause = "refusal" => ~accepted
      /\ UNCHANGED <<now, session, review, claim, result>>
  <2>1. sent' = [sent EXCEPT ![n] = sent[n] + 1]
    BY DEF TryTest
  <2>2. sent[n] + 1 = 1
    BY <1>1, SMT
  <2>3. request' = [request EXCEPT ![r] = x]
    BY DEF TryTest
  <2> HIDE DEF n, x
  <2>4. sent' = [sent EXCEPT ![n] = 1]
    BY <2>1, <2>2
  <2> QED BY <2>3, <2>4 DEF TryTest, n
<1>6. request[r].at = "claimed"
  BY DEF TryTest
<1>7. \A q \in Request : q # r /\ request[q].at \in {"claimed", "tried"} => request[q].nonce # n
  BY <1>6 DEF OneHolder
<1> HIDE DEF n, o, x
<1>8. ConsoleTypeOK'
  BY <1>1, <1>4, <1>5 DEF ConsoleTypeOK
<1>9. sent'[n] = 1 /\ \A m \in Nonce : m # n => sent'[m] = sent[m]
  BY <1>1, <1>5 DEF ConsoleTypeOK
<1>10. (n \in taken' <=> accepted) /\ \A m \in Nonce : m # n => (m \in taken' <=> m \in taken)
  BY <1>2, <1>5
<1>11. ASSUME NEW q \in Request PROVE RequestProgress(q)'
  <2>1. CASE q = r
    <3>1. request'[q] = x
      BY <1>5, <2>1 DEF ConsoleTypeOK
    <3>2. (o = "accepted" => n \in taken') /\ (o = "failed" => n \notin taken')
      BY <1>3, <1>5, <1>10
    <3> QED BY <1>1, <1>4, <1>5, <1>9, <3>1, <3>2 DEF RequestProgress
  <2>2. CASE q # r
    <3>1. request'[q] = request[q]
      BY <1>5, <2>2 DEF ConsoleTypeOK
    <3> QED BY <1>5, <1>7, <1>9, <1>10, <2>2, <3>1, SMT DEF RequestProgress
  <2> QED BY <2>1, <2>2
<1>12. ASSUME NEW m \in Nonce PROVE NonceProgress(m)'
  <2>1. CASE m = n
    <3>1. sent'[m] = 1 /\ claim[m] # None /\ result'[m] = None
      BY <1>1, <1>2, <1>5, <1>9, <2>1
    <3>2. None # "accepted" /\ None # "failed"
      BY NoneIsNothing DEF Outcome
    <3> QED BY <1>5, <3>1, <3>2 DEF NonceProgress
  <2>2. CASE m # n
    BY <1>5, <1>9, <1>10, <2>2 DEF NonceProgress
  <2> QED BY <2>1, <2>2
<1>13. OneHolder'
  <2>1. \A q \in Request : q # r => request'[q] = request[q]
    BY <1>5 DEF ConsoleTypeOK
  <2>2. request'[r] = x
    BY <1>5 DEF ConsoleTypeOK
  <2> QED BY <1>4, <1>7, <2>1, <2>2, ZenonT(60) DEF OneHolder
<1> QED BY <1>5, <1>8, <1>11, <1>12, <1>13, BudgetFrame

\* What is recorded is the outcome of the call that was made.
LEMMA RecordTestInv ==
    ASSUME ConsoleInv, NEW r \in Request, RecordTest(r)
    PROVE  ConsoleInv'
<1> USE DEF ConsoleInv
<1> DEFINE n == request[r].nonce
           o == request[r].outcome
<1>1. /\ n \in Nonce /\ sent[n] = 1
      /\ o = "accepted" => n \in taken
      /\ o = "failed" => n \notin taken
  BY DEF RequestProgress, RecordTest
<1>2. o \in Outcome \cup {None}
  BY DEF ConsoleTypeOK, Progress
<1>3. /\ result' = [result EXCEPT ![n] = o]
      /\ request' = [request EXCEPT ![r] = Idle]
      /\ UNCHANGED <<now, session, review, claim, sent, taken>>
  BY DEF RecordTest, Leave
<1> HIDE DEF n, o
<1>4. ConsoleTypeOK'
  BY <1>1, <1>2, <1>3 DEF ConsoleTypeOK, Idle, Progress
<1>5. \A q \in Request : request'[q] = request[q] \/ request'[q] = Idle
  BY <1>3 DEF ConsoleTypeOK
<1>6. ASSUME NEW q \in Request PROVE RequestProgress(q)'
  <2>1. CASE request'[q] = request[q]
    BY <1>3, <2>1, SMT DEF RequestProgress
  <2>2. CASE request'[q] = Idle
    BY <2>2, SMT DEF RequestProgress, Idle
  <2> QED BY <1>5, <2>1, <2>2
<1>7. ASSUME NEW m \in Nonce PROVE NonceProgress(m)'
  <2>1. CASE m = n
    <3>1. result'[m] = o
      BY <1>3, <2>1 DEF ConsoleTypeOK
    <3> QED BY <1>1, <1>3, <2>1, <3>1 DEF NonceProgress
  <2>2. CASE m # n
    <3>1. result'[m] = result[m]
      BY <1>3, <2>2 DEF ConsoleTypeOK
    <3> QED BY <1>3, <3>1 DEF NonceProgress
  <2> QED BY <2>1, <2>2
<1>8. OneHolder'
  <2>1. \A q \in Request : request'[q].at \in {"claimed", "tried"} =>
                              request'[q] = request[q]
    BY <1>5, SMT DEF Idle
  <2> QED BY <2>1 DEF OneHolder
<1> QED BY <1>3, <1>4, <1>6, <1>7, <1>8, BudgetFrame

\* Every step of the console keeps the invariant.
LEMMA ConsoleStepInv ==
    ASSUME ConsoleInv, ConsoleNext
    PROVE  ConsoleInv'
<1>1. ASSUME NEW r \in Request, NEW s \in Session, OpenPage(r, s) PROVE ConsoleInv'
  BY <1>1, EnterLeaveInv DEF OpenPage
<1>2. ASSUME NEW r \in Request, NEW s \in Session, NEW t \in 0..MaxPages,
             StartAction(r, s, t)
      PROVE  ConsoleInv'
  BY <1>2, EnterLeaveInv DEF StartAction
<1>3. ASSUME NEW r \in Request, RefuseTest(r) \/ RequestDies(r) PROVE ConsoleInv'
  <2>1. Leave(r) /\ UNCHANGED <<now, session, review, claim, result, sent, taken>>
    BY <1>3 DEF RefuseTest, RequestDies
  <2>2. session' \in [Session -> SessionRow \cup {None}]
    BY <2>1 DEF ConsoleInv, ConsoleTypeOK
  <2> QED BY <2>1, <2>2, SessionInv
<1> QED
  BY <1>1, <1>2, <1>3, TickInv, LogInInv, RenderPageInv, LogOutInv, ReviewTestInv,
     ApplyTestInv, ClaimTestInv, TryTestInv, RecordTestInv DEF ConsoleNext

\* A step of the console, or none, keeps the invariant.
LEMMA ConsoleKept ==
    ConsoleInv /\ [ConsoleNext]_consoleVars => ConsoleInv'
<1>1. ConsoleInv /\ UNCHANGED consoleVars => ConsoleInv'
  <2> SUFFICES ASSUME ConsoleInv, UNCHANGED consoleVars PROVE ConsoleInv'
    OBVIOUS
  <2>1. UNCHANGED <<now, session, review, claim, result, request, sent, taken>>
    BY DEF consoleVars
  <2> QED BY <2>1, SessionInv DEF ConsoleInv, ConsoleTypeOK
<1> QED BY <1>1, ConsoleStepInv

\* The invariant implies what is promised of the test.
LEMMA ConsolePromise == ConsoleInv => TestSentOnce
BY SMT DEF ConsoleInv, NonceProgress, WithinBudget, TestSentOnce

\* The inductive invariant of the reviewed SMTP test.
THEOREM ConsoleInvariant == ConsoleSpec => []ConsoleInv
BY ConsoleInitInv, ConsoleKept, PTL DEF ConsoleSpec

\* admin_smtp_test_apply: a reviewed test reaches SMTP at most once, under a
\* claim of the admin who reviewed it and within the budget, and its recorded
\* result is true, for any number of sessions, reviews and requests.
THEOREM TestSentOnceHolds == ConsoleSpec => []TestSentOnce
BY ConsolePromise, ConsoleInvariant, PTL

-----------------------------------------------------------------------------
(* The delivery of keys *)

Status == {"pending", "sending", "sent", "failed", "ambiguous"}

Blocking == {"sending", "sent", "ambiguous"}

MailTypeOK ==
    /\ secret \in [Secret -> {"pending", "consumed", "expired"}]
    /\ row \in [Delivery -> {Absent} \cup [status : Status, secret : Secret]]
    /\ call \in [Call -> [at : {"idle", "queued", "called", "broken", "sending",
                               "refused", "accepted", "unfinal", "over"},
                          secret : Secret \cup {NoDelivery},
                          delivery : Delivery \cup {NoDelivery},
                          retry : BOOLEAN]]
    /\ mails \in [Secret -> Nat]
    /\ doubtful \in SUBSET Secret

\* A call works for a secret, and the delivery it was given is of that secret.
Bound(c) ==
    call[c].at # "idle" =>
        /\ call[c].secret \in Secret
        /\ call[c].delivery # NoDelivery => row[call[c].delivery].secret = call[c].secret

\* A secret has one delivery row.
OneRow ==
    \A d, e \in Delivery : row[d] # Absent /\ row[d].secret = row[e].secret => d = e

\* A call that has committed `sending' and not recorded how it ended.
Holds(c, s) ==
    call[c].at \in {"sending", "refused", "accepted", "unfinal"} /\ call[c].secret = s

\* As long as no failure was recorded wrongly, the delivery of a call that
\* holds the secret keeps all others out, one call does, and it keeps them
\* out for good once the message is taken.
Guarded(s) ==
    s \notin doubtful =>
        /\ \A c \in Call : Holds(c, s) =>
              /\ call[c].delivery \in Delivery
              /\ row[call[c].delivery].status \in Blocking
              /\ call[c].at \in {"sending", "refused"} => mails[s] = 0
        /\ \A b, c \in Call : Holds(b, s) /\ Holds(c, s) => b = c
        /\ mails[s] \in {0, 1}
        /\ mails[s] = 1 => Blocked(s)

\* What is recorded about the message is true.
Recorded ==
    /\ \A c \in Call : call[c].at \in {"accepted", "unfinal"} => mails[call[c].secret] > 0
    /\ \A s \in Secret : secret[s] = "consumed" => mails[s] > 0
    /\ \A d \in Delivery : row[d].status = "sent" => secret[row[d].secret] = "consumed"

MailInv ==
    /\ MailTypeOK
    /\ \A c \in Call : Bound(c)
    /\ OneRow
    /\ \A s \in Secret : Guarded(s)
    /\ Recorded

\* Before the first call there is no delivery and nothing was sent.
LEMMA MailInitInv == MailInit => MailInv
<1> SUFFICES ASSUME MailInit PROVE MailInv
  OBVIOUS
<1>1. MailTypeOK
  <2>1. row \in [Delivery -> {Absent} \cup [status : Status, secret : Secret]]
    BY DEF MailInit, Status
  <2> QED BY <2>1 DEF MailInit, MailTypeOK
<1>2. \A c \in Call : Bound(c)
  BY DEF MailInit, Bound
<1>3. OneRow
  BY DEF MailInit, OneRow
<1>4. \A s \in Secret : Guarded(s)
  BY SMT DEF MailInit, Guarded, Holds
<1>5. Recorded
  BY SMT DEF MailInit, Recorded, Absent
<1> QED BY <1>1, <1>2, <1>3, <1>4, <1>5 DEF MailInv

\* Calls may move about, as long as none comes to hold a secret anew, takes
\* another delivery, or claims an acceptance.
LEMMA MailFrame ==
    ASSUME MailInv, MailTypeOK', \A c \in Call : Bound(c)',
           UNCHANGED <<secret, row, mails, doubtful>>,
           \A c \in Call :
              /\ call'[c].at \in {"sending", "refused"} =>
                    call'[c] = call[c]
              /\ call'[c].at \in {"accepted", "unfinal"} =>
                    /\ call[c].at \in {"accepted", "unfinal"}
                    /\ call'[c].secret = call[c].secret
                    /\ call'[c].delivery = call[c].delivery
    PROVE  MailInv'
<1> USE DEF MailInv
<1>1. OneRow'
  BY DEF OneRow
<1>2. \A s \in Secret : Guarded(s)'
  BY SMT DEF Guarded, Holds, Blocked, History
<1>3. Recorded'
  BY DEF Recorded
<1> QED BY <1>1, <1>2, <1>3

\* A call that goes somewhere keeps its ids.
LEMMA GotoKeepsIds ==
    ASSUME MailTypeOK, NEW c \in Call,
           NEW place \in {"queued", "called", "broken", "sending", "refused",
                          "accepted", "unfinal", "over"},
           Goto(c, place)
    PROVE  /\ call' \in [Call -> [at : {"idle", "queued", "called", "broken", "sending",
                                       "refused", "accepted", "unfinal", "over"},
                                  secret : Secret \cup {NoDelivery},
                                  delivery : Delivery \cup {NoDelivery},
                                  retry : BOOLEAN]]
           /\ call'[c].at = place
           /\ call'[c].secret = call[c].secret
           /\ call'[c].delivery = call[c].delivery
           /\ \A b \in Call : b # c => call'[b] = call[b]
BY DEF Goto, MailTypeOK

\* A new call is bound to the secret of its delivery.
LEMMA AskInv ==
    ASSUME MailInv, NEW c \in Call, NEW s \in Secret,
           NEW d \in Delivery \cup {NoDelivery}, NEW retry \in BOOLEAN,
           NEW place \in {"called", "queued"},
           d # NoDelivery => row[d].secret = s,
           Ask(c, s, d, retry, place)
    PROVE  MailInv'
<1> DEFINE x == [at |-> place, secret |-> s, delivery |-> d, retry |-> retry]
<1>1. call' = [call EXCEPT ![c] = x]
  BY DEF Ask
<1>2. UNCHANGED <<secret, lapsed, row, mails, doubtful>>
  BY DEF Ask
<1>3. MailTypeOK'
  BY <1>1, <1>2 DEF MailInv, MailTypeOK
<1>4. call'[c] = x /\ \A b \in Call : b # c => call'[b] = call[b]
  BY <1>1 DEF MailInv, MailTypeOK
<1>5. x.at = place /\ x.secret = s /\ x.delivery = d
  OBVIOUS
<1> HIDE DEF x
<1>6. \A b \in Call : Bound(b)'
  BY <1>2, <1>4, <1>5 DEF MailInv, Bound
<1> QED BY <1>2, <1>3, <1>4, <1>5, <1>6, MailFrame

\* The checks of the requests look at a row, which is of a secret.
LEMMA RequestsInv ==
    ASSUME MailInv, NEW c \in Call,
           \/ \E d \in Delivery : \/ SendNow(c, d)
                                  \/ Enqueue(c, d)
                                  \/ RetryFailed(c, d)
                                  \/ CliSelected(c, d)
           \/ \E s \in Secret : CliInitial(c, s)
    PROVE  MailInv'
<1>1. \A d \in Delivery : row[d] # Absent => row[d].secret \in Secret
  BY DEF MailInv, MailTypeOK
<1>2. ASSUME NEW d \in Delivery, CanSend(d) PROVE row[d] # Absent
  BY <1>2, SMT DEF CanSend, Absent
<1>3. ASSUME NEW d \in Delivery, SendNow(c, d) \/ Enqueue(c, d) \/ RetryFailed(c, d)
      PROVE  MailInv'
  BY <1>1, <1>2, <1>3, AskInv DEF SendNow, Enqueue, RetryFailed
<1>4. ASSUME NEW d \in Delivery, CliSelected(c, d) PROVE MailInv'
  <2>1. (row[d].status = "failed") \in BOOLEAN
    OBVIOUS
  <2> QED BY <1>1, <1>4, <2>1, AskInv DEF CliSelected
<1>5. ASSUME NEW s \in Secret, CliInitial(c, s) PROVE MailInv'
  BY <1>5, AskInv DEF CliInitial
<1> QED BY <1>3, <1>4, <1>5

\* Steps that only move a call.
LEMMA MoveInv ==
    ASSUME MailInv, NEW c \in Call,
           Worker(c) \/ Refuse(c) \/ Break(c) \/ FinalizeFails(c) \/ CallDies(c)
    PROVE  MailInv'
<1>1. UNCHANGED <<secret, lapsed, row, mails, doubtful>>
  BY DEF Worker, Refuse, Break, FinalizeFails, CallDies
<1>2. PICK place \in {"called", "over", "broken", "unfinal"} :
         /\ Goto(c, place)
         /\ call[c].at # "idle"
         /\ place = "unfinal" => call[c].at = "accepted"
  BY DEF Worker, Refuse, Break, FinalizeFails, CallDies
<1>3. /\ call'[c].at = place
      /\ call'[c].secret = call[c].secret
      /\ call'[c].delivery = call[c].delivery
      /\ \A b \in Call : b # c => call'[b] = call[b]
      /\ MailTypeOK'
  BY <1>1, <1>2, GotoKeepsIds DEF MailInv, MailTypeOK
<1>4. \A b \in Call : Bound(b)'
  BY <1>1, <1>2, <1>3 DEF MailInv, Bound
<1> QED BY <1>1, <1>2, <1>3, <1>4, MailFrame

\* The status of a delivery changes, nothing else of it.
LEMMA MarkKeepsSecret ==
    ASSUME MailTypeOK, NEW d \in Delivery, row[d].secret \in Secret,
           NEW status \in Status, Mark(d, status)
    PROVE  /\ row' \in [Delivery -> {Absent} \cup [status : Status, secret : Secret]]
           /\ row'[d].status = status
           /\ \A e \in Delivery : /\ row'[e].secret = row[e].secret
                                  /\ row'[e] = Absent <=> row[e] = Absent
                                  /\ e # d => row'[e] = row[e]
<1>1. row' = [row EXCEPT ![d].status = status]
  BY DeliveryType DEF Mark
<1>2. row[d] \in [status : Status, secret : Secret]
  BY DeliveryType, SMT DEF MailTypeOK, Absent
<1>3. [row[d] EXCEPT !.status = status] \in [status : Status, secret : Secret]
  BY <1>2
<1>4. row'[d] = [row[d] EXCEPT !.status = status]
  BY <1>1 DEF MailTypeOK
<1>5. row'[d] # Absent /\ row[d] # Absent
  BY <1>2, <1>3, <1>4, DeliveryType, SMT DEF Absent
<1>6. \A e \in Delivery : e # d => row'[e] = row[e]
  BY <1>1 DEF MailTypeOK
<1>7. row' \in [Delivery -> {Absent} \cup [status : Status, secret : Secret]]
  BY <1>1, <1>3 DEF MailTypeOK
<1>8. row'[d].status = status /\ row'[d].secret = row[d].secret
  BY <1>2, <1>4
<1> QED BY <1>5, <1>6, <1>7, <1>8

\* A call that works for a secret leaves the others as they are.
LEMMA OtherSecrets ==
    ASSUME MailInv, NEW c \in Call, NEW s \in Secret,
           call[c].secret = s, call'[c].secret = s,
           \A b \in Call : b # c => call'[b] = call[b],
           \A e \in Delivery : \/ row'[e] = row[e]
                               \/ row'[e].secret = s /\ row[e].secret \in {s, NoDelivery},
           \A t \in Secret : t # s => /\ mails'[t] = mails[t]
                                      /\ t \in doubtful' <=> t \in doubtful
    PROVE  \A t \in Secret : t # s => Guarded(t)'
<1> SUFFICES ASSUME NEW t \in Secret, t # s, t \notin doubtful
             PROVE  Guarded(t)'
  BY DEF Guarded
<1>1. \A e \in Delivery : row'[e].secret = t <=> row[e].secret = t
  BY DeliveryType
<1>2. \A e \in Delivery : row[e].secret = t => row'[e] = row[e]
  BY DeliveryType
<1>3. \A b \in Call : Holds(b, t)' => Holds(b, t) /\ call'[b] = call[b]
  BY DEF Holds
<1>4. \A b \in Call : Holds(b, t) /\ call[b].delivery \in Delivery =>
                         row'[call[b].delivery] = row[call[b].delivery]
  BY <1>2, DeliveryType DEF Holds, MailInv, Bound
<1>5. Blocked(t) => Blocked(t)'
  BY <1>1, <1>2 DEF Blocked, History
<1>6. /\ \A b \in Call : Holds(b, t) =>
           /\ call[b].delivery \in Delivery
           /\ row[call[b].delivery].status \in Blocking
           /\ call[b].at \in {"sending", "refused"} => mails[t] = 0
      /\ \A a, b \in Call : Holds(a, t) /\ Holds(b, t) => a = b
      /\ mails[t] \in {0, 1}
      /\ mails[t] = 1 => Blocked(t)
  BY DEF MailInv, Guarded
<1> QED BY <1>3, <1>4, <1>5, <1>6, SMT DEF Guarded

\* Where nothing of a secret blocks, no call holds it and nothing was mailed.
LEMMA FreeSecret ==
    ASSUME MailInv, NEW s \in Secret, s \notin doubtful, ~Blocked(s)
    PROVE  mails[s] = 0 /\ \A c \in Call : ~Holds(c, s)
<1>1. mails[s] = 0
  BY DEF MailInv, Guarded
<1>2. ASSUME NEW c \in Call, Holds(c, s) PROVE FALSE
  <2>1. call[c].delivery \in Delivery /\ row[call[c].delivery].status \in Blocking
    BY <1>2 DEF MailInv, Guarded
  <2>2. row[call[c].delivery].secret = s
    BY <1>2, <2>1, DeliveryType DEF MailInv, Bound, Holds
  <2> QED BY <2>1, <2>2 DEF Blocked, History, Blocking
<1> QED BY <1>1, <1>2

\* The only delivery of a secret decides whether it blocks.
LEMMA OnlyRow ==
    ASSUME MailInv, NEW d \in Delivery, row[d].secret \in Secret,
           row[d].status \notin Blocking
    PROVE  ~Blocked(row[d].secret)
<1>1. row[d] # Absent
  BY DeliveryType, SMT DEF Absent
<1> QED BY <1>1 DEF MailInv, OneRow, Blocked, History, Blocking

\* Reject and RecordFailed: a delivery fails, or none does, and the call is
\* over.  Unless the secret is doubtful nothing was mailed, and no other call
\* holds it.
LEMMA FailInv ==
    ASSUME MailInv, NEW c \in Call, NEW s \in Secret,
           call[c].secret = s, call[c].at # "idle",
           Mark(call[c].delivery, "failed"),
           Goto(c, "over"),
           secret' \in [Secret -> {"pending", "consumed", "expired"}],
           \A t \in Secret : secret'[t] = "consumed" <=> secret[t] = "consumed",
           doubtful' \in {doubtful, doubtful \cup {s}},
           UNCHANGED mails,
           s \in doubtful' \/ call[c].delivery = NoDelivery
             \/ (mails[s] = 0 /\ \A b \in Call : Holds(b, s) => b = c)
    PROVE  MailInv'
<1> USE DEF MailInv
<1> DEFINE d == call[c].delivery
<1>1. d \in Delivery \cup {NoDelivery} /\ (d # NoDelivery => row[d].secret = s)
  BY DEF MailTypeOK, Bound
<1>2. /\ call'[c].at = "over" /\ call'[c].secret = s /\ call'[c].delivery = d
      /\ \A b \in Call : b # c => call'[b] = call[b]
      /\ call' \in [Call -> [at : {"idle", "queued", "called", "broken", "sending",
                                   "refused", "accepted", "unfinal", "over"},
                             secret : Secret \cup {NoDelivery},
                             delivery : Delivery \cup {NoDelivery},
                             retry : BOOLEAN]]
  BY GotoKeepsIds
<1>3. /\ row' \in [Delivery -> {Absent} \cup [status : Status, secret : Secret]]
      /\ \A e \in Delivery : /\ row'[e].secret = row[e].secret
                             /\ row'[e] = Absent <=> row[e] = Absent
                             /\ e # d => row'[e] = row[e]
                             /\ row'[e].status = "sent" => row[e].status = "sent"
  <2>1. CASE d = NoDelivery
    BY <2>1 DEF Mark, MailTypeOK
  <2>2. CASE d # NoDelivery
    BY <1>1, <2>2, MarkKeepsSecret DEF Status
  <2> QED BY <2>1, <2>2
<1>4. d = NoDelivery => row' = row
  BY DEF Mark
<1> HIDE DEF d
<1>5. MailTypeOK'
  BY <1>2, <1>3 DEF MailTypeOK
<1>6. ASSUME NEW b \in Call PROVE Bound(b)'
  <2>1. call[b].delivery \in Delivery \cup {NoDelivery} /\ call'[b].delivery = call[b].delivery
        /\ call'[b].secret = call[b].secret /\ (call'[b].at # "idle" => call[b].at # "idle")
    BY <1>2 DEF MailTypeOK, d
  <2> QED BY <1>3, <2>1, SMT DEF Bound
<1>7. OneRow'
  BY <1>3, SMT DEF OneRow
<1>8. ASSUME NEW t \in Secret PROVE Guarded(t)'
  <2>1. CASE t # s
    <3>1. \A e \in Delivery : \/ row'[e] = row[e]
                              \/ row'[e].secret = s /\ row[e].secret \in {s, NoDelivery}
      BY <1>1, <1>3, DeliveryType, SMT
    <3>2. \A u \in Secret : u # s => /\ mails'[u] = mails[u]
                                     /\ u \in doubtful' <=> u \in doubtful
      OBVIOUS
    <3> QED BY <1>2, <2>1, <3>1, <3>2, OtherSecrets
  <2>2. CASE t = s /\ s \notin doubtful'
    <3>1. \A b \in Call : Holds(b, s)' => Holds(b, s) /\ b # c /\ call'[b] = call[b]
      BY <1>2 DEF Holds
    <3>2. CASE d = NoDelivery
      BY <1>4, <2>2, <3>1, <3>2, ZenonT(60) DEF Guarded, Blocked, History
    <3>3. CASE d # NoDelivery
      <4>1. mails'[s] = 0 /\ \A b \in Call : ~Holds(b, s)'
        BY <2>2, <3>1, <3>3 DEF d
      <4> QED BY <2>2, <4>1, SMTT(30) DEF Guarded
    <3> QED BY <3>2, <3>3
  <2> QED BY <2>1, <2>2 DEF Guarded
<1>9. Recorded'
  <2>1. \A b \in Call : call'[b].at \in {"accepted", "unfinal"} => call'[b] = call[b]
    BY <1>2
  <2>2. \A e \in Delivery : row'[e].status = "sent" => row[e].secret \in Secret
    <3>1. \A e \in Delivery : row[e].status = "sent" => row[e].secret \in Secret
      BY SMTT(30) DEF MailTypeOK, Absent
    <3> QED BY <1>3, <3>1
  <2> QED BY <1>3, <2>1, <2>2, SMTT(30) DEF Recorded
<1> QED BY <1>5, <1>6, <1>7, <1>8, <1>9

\* A call refused before the claim may mark its delivery failed without harm.
LEMMA RejectInv ==
    ASSUME MailInv, NEW c \in Call, Reject(c)
    PROVE  MailInv'
<1> DEFINE s == call[c].secret
           d == call[c].delivery
<1>1. s \in Secret /\ d \in Delivery \cup {NoDelivery} /\ (d # NoDelivery => row[d].secret = s)
  BY DEF Reject, MailInv, Bound, MailTypeOK
<1>2. /\ secret' \in [Secret -> {"pending", "consumed", "expired"}]
      /\ \A t \in Secret : secret'[t] = "consumed" <=> secret[t] = "consumed"
  BY <1>1 DEF Reject, MailInv, MailTypeOK
<1>3. s \in doubtful \/ d = NoDelivery \/ (mails[s] = 0 /\ \A b \in Call : ~Holds(b, s))
  <2> SUFFICES ASSUME s \notin doubtful, d # NoDelivery
               PROVE  mails[s] = 0 /\ \A b \in Call : ~Holds(b, s)
    OBVIOUS
  <2>1. row[d].status \in {"pending", "failed"}
    BY DEF Reject, Refused
  <2>2. ~Blocked(s)
    BY <1>1, <2>1, OnlyRow DEF Blocking
  <2> QED BY <1>1, <2>2, FreeSecret
<1> QED BY <1>1, <1>2, <1>3, FailInv DEF Reject

\* A recorded failure leaves a secret that was not sent, or a doubtful one.
LEMMA RecordFailedInv ==
    ASSUME MailInv, NEW c \in Call, RecordFailed(c)
    PROVE  MailInv'
<1> DEFINE s == call[c].secret
           d == call[c].delivery
<1>1. s \in Secret /\ d \in Delivery \cup {NoDelivery}
  BY DEF RecordFailed, MailInv, Bound, MailTypeOK
<1>2. /\ doubtful' \in {doubtful, doubtful \cup {s}}
      /\ call[c].at = "broken" /\ d # NoDelivery /\ Blocked(s) => s \in doubtful'
      /\ s \in doubtful => s \in doubtful'
  BY DEF RecordFailed
<1>3. s \in doubtful' \/ d = NoDelivery
        \/ (mails[s] = 0 /\ \A b \in Call : Holds(b, s) => b = c)
  <2> SUFFICES ASSUME s \notin doubtful', s \notin doubtful, d # NoDelivery
               PROVE  mails[s] = 0 /\ \A b \in Call : Holds(b, s) => b = c
    BY <1>2
  <2>1. CASE call[c].at = "broken"
    BY <1>1, <1>2, <2>1, FreeSecret
  <2>2. CASE call[c].at = "refused"
    <3>1. Holds(c, s)
      BY <2>2 DEF Holds
    <3> QED BY <1>1, <2>2, <3>1 DEF MailInv, Guarded
  <2> QED BY <2>1, <2>2 DEF RecordFailed
<1>4. call[c].at # "idle" /\ secret' = secret /\ mails' = mails
  BY DEF RecordFailed
<1> QED BY <1>1, <1>2, <1>3, <1>4, FailInv DEF RecordFailed, MailInv, MailTypeOK

\* The call that commits `sending' found nothing that blocks.
LEMMA BeginInv ==
    ASSUME MailInv, NEW c \in Call, NEW place \in {"sending", "refused"}, Begin(c, place)
    PROVE  MailInv'
<1> USE DEF MailInv
<1>0. PICK s \in Secret : call[c].secret = s
  BY DEF Begin, Bound
<1> DEFINE RowType == {Absent} \cup [status : Status, secret : Secret]
<1>1. s \in Secret /\ call[c].delivery \in Delivery \cup {NoDelivery}
  BY DEF Begin, Bound, MailTypeOK
<1>2. ~Blocked(s) /\ (call[c].delivery = NoDelivery => History(s) = {})
      /\ UNCHANGED <<secret, lapsed, mails, doubtful>>
  BY <1>0 DEF Begin, Refused
<1>3. PICK d \in Delivery :
         /\ call[c].delivery # NoDelivery => d = call[c].delivery
         /\ call[c].delivery = NoDelivery => row[d] = Absent
         /\ row' = [row EXCEPT ![d] = [status |-> "sending", secret |-> s]]
         /\ call' = [call EXCEPT ![c].at = place, ![c].delivery = d]
  <2>1. CASE call[c].delivery = NoDelivery
    BY <1>0, <2>1 DEF Begin
  <2>2. CASE call[c].delivery # NoDelivery
    BY <1>0, <1>1, <2>2 DEF Begin
  <2> QED BY <2>1, <2>2
<1>4. /\ row' \in [Delivery -> RowType]
      /\ row'[d].status = "sending" /\ row'[d].secret = s /\ row'[d] # Absent
      /\ \A e \in Delivery : e # d => row'[e] = row[e]
  BY <1>1, <1>3, DeliveryType DEF MailTypeOK, Status, Absent
<1>5. /\ call' \in [Call -> [at : {"idle", "queued", "called", "broken", "sending",
                                   "refused", "accepted", "unfinal", "over"},
                             secret : Secret \cup {NoDelivery},
                             delivery : Delivery \cup {NoDelivery},
                             retry : BOOLEAN]]
      /\ call'[c].at = place /\ call'[c].secret = s /\ call'[c].delivery = d
      /\ \A b \in Call : b # c => call'[b] = call[b]
  BY <1>0, <1>3, ZenonT(60) DEF MailTypeOK
<1>6. row[d].secret \in {s, NoDelivery}
  <2>1. CASE call[c].delivery = NoDelivery
    BY <1>3, <2>1, SMT DEF Absent
  <2>2. CASE call[c].delivery # NoDelivery
    BY <1>0, <1>3, <2>2 DEF Bound, Begin
  <2> QED BY <2>1, <2>2
<1>7. \A e \in Delivery : e # d => row[e].secret # s
  <2>1. CASE call[c].delivery = NoDelivery
    BY <1>2, <2>1 DEF History
  <2>2. CASE call[c].delivery # NoDelivery
    <3>1. row[d].secret = s /\ row[d] # Absent
      BY <1>0, <1>1, <1>3, <2>2, DeliveryType, SMT DEF Bound, Begin, Absent
    <3> QED BY <3>1 DEF OneRow
  <2> QED BY <2>1, <2>2
<1>8. MailTypeOK'
  BY <1>2, <1>4, <1>5 DEF MailTypeOK
<1>9. ASSUME NEW b \in Call PROVE Bound(b)'
  <2>1. CASE b = c
    BY <1>1, <1>4, <1>5, <2>1 DEF Bound
  <2>2. CASE b # c /\ call[b].at # "idle" /\ call[b].delivery # NoDelivery
    <3>1. call[b].delivery \in Delivery /\ row[call[b].delivery].secret = call[b].secret
          /\ call[b].secret \in Secret
      BY <2>2 DEF Bound, MailTypeOK
    <3>2. row'[call[b].delivery].secret = call[b].secret
      BY <1>4, <1>6, <3>1, DeliveryType
    <3> QED BY <1>5, <2>2, <3>1, <3>2 DEF Bound
  <2>3. CASE b # c /\ ~(call[b].at # "idle" /\ call[b].delivery # NoDelivery)
    BY <1>5, <2>3 DEF Bound
  <2> QED BY <2>1, <2>2, <2>3
<1>10. OneRow'
  BY <1>4, <1>7 DEF OneRow
<1>11. ASSUME NEW t \in Secret PROVE Guarded(t)'
  <2>1. CASE t # s
    <3>1. \A e \in Delivery : \/ row'[e] = row[e]
                              \/ row'[e].secret = s /\ row[e].secret \in {s, NoDelivery}
      BY <1>4, <1>6
    <3> QED BY <1>0, <1>1, <1>2, <1>5, <2>1, <3>1, OtherSecrets
  <2>2. CASE t = s /\ s \notin doubtful
    <3>1. mails'[s] = 0 /\ \A b \in Call : Holds(b, s)' => b = c
      BY <1>1, <1>2, <1>5, <2>2, FreeSecret DEF Holds
    <3> QED BY <1>4, <1>5, <2>2, <3>1, SMTT(30) DEF Guarded, Blocking
  <2> QED BY <1>2, <2>1, <2>2 DEF Guarded
<1>12. Recorded'
  <2>1. \A b \in Call : call'[b].at \in {"accepted", "unfinal"} => call'[b] = call[b]
    BY <1>5
  <2>2. \A e \in Delivery : row'[e].status = "sent" => row'[e] = row[e]
    BY <1>4
  <2> QED BY <1>2, <2>1, <2>2 DEF Recorded
<1> QED BY <1>8, <1>9, <1>10, <1>11, <1>12

\* The message reaches SMTP while the delivery of the call blocks all others.
LEMMA SendInv ==
    ASSUME MailInv, NEW c \in Call, Send(c)
    PROVE  MailInv'
<1> USE DEF MailInv
<1>0. PICK s \in Secret : call[c].secret = s
  BY DEF Send, Bound
<1>1. s \in Secret /\ call[c].at = "sending" /\ UNCHANGED <<secret, lapsed, row>>
  BY DEF Send, Bound
<1>2. PICK accepted, error \in BOOLEAN :
         /\ accepted \/ error
         /\ mails' = IF accepted THEN [mails EXCEPT ![s] = @ + 1] ELSE mails
         /\ doubtful' = IF accepted /\ error THEN doubtful \cup {s} ELSE doubtful
         /\ Goto(c, IF error THEN "refused" ELSE "accepted")
  BY <1>0 DEF Send
<1> DEFINE place == IF error THEN "refused" ELSE "accepted"
<1>3. /\ call' \in [Call -> [at : {"idle", "queued", "called", "broken", "sending",
                                   "refused", "accepted", "unfinal", "over"},
                             secret : Secret \cup {NoDelivery},
                             delivery : Delivery \cup {NoDelivery},
                             retry : BOOLEAN]]
      /\ call'[c].at = place /\ call'[c].secret = s
      /\ call'[c].delivery = call[c].delivery
      /\ \A b \in Call : b # c => call'[b] = call[b]
  BY <1>0, <1>2, GotoKeepsIds
<1>4. /\ mails' \in [Secret -> Nat]
      /\ mails'[s] = IF accepted THEN mails[s] + 1 ELSE mails[s]
      /\ \A t \in Secret : t # s => mails'[t] = mails[t]
      /\ \A t \in Secret : mails[t] \in Nat
  BY <1>1, <1>2, SMT DEF MailTypeOK
<1>5. MailTypeOK'
  BY <1>1, <1>2, <1>3, <1>4 DEF MailTypeOK
<1>6. \A b \in Call : Bound(b)'
  BY <1>0, <1>1, <1>3, SMTT(30) DEF Bound
<1>7. OneRow'
  BY <1>1 DEF OneRow
<1>8. ASSUME NEW t \in Secret PROVE Guarded(t)'
  <2>1. CASE t # s
    <3>1. \A u \in Secret : u # s => /\ mails'[u] = mails[u]
                                     /\ u \in doubtful' <=> u \in doubtful
      BY <1>2, <1>4
    <3> QED BY <1>0, <1>1, <1>3, <2>1, <3>1, OtherSecrets
  <2>2. CASE t = s /\ s \notin doubtful'
    <3>1. s \notin doubtful /\ ~(accepted /\ error)
      BY <1>2, <2>2
    <3>2. Holds(c, s) /\ mails[s] = 0
      BY <1>0, <1>1, <3>1 DEF Holds, Guarded
    <3>3. \A b \in Call : Holds(b, s)' => b = c
      BY <1>1, <1>3, <3>1, <3>2, SMTT(30) DEF Holds, Guarded
    <3>4. call[c].delivery \in Delivery /\ row[call[c].delivery].status \in Blocking
      BY <1>1, <3>1, <3>2 DEF Guarded
    <3>5. Blocked(s)
      BY <1>0, <1>1, <3>4, DeliveryType DEF Blocked, History, Blocking, Bound
    <3>6. Blocked(s)'
      BY <1>1, <3>5 DEF Blocked, History
    <3>7. mails'[s] = IF accepted THEN 1 ELSE 0
      BY <1>4, <3>2, SMT
    <3>8. place = "refused" => mails'[s] = 0
      BY <3>1, <3>7
    <3> QED BY <1>1, <1>3, <2>2, <3>3, <3>4, <3>6, <3>7, <3>8 DEF Guarded, Holds
  <2> QED BY <2>1, <2>2 DEF Guarded
<1>9. Recorded'
  <2>1. \A t \in Secret : mails[t] > 0 => mails'[t] > 0
    BY <1>4, SMT
  <2>2. \A b \in Call : call[b].at \in {"accepted", "unfinal"} => call[b].secret \in Secret
    BY DEF Bound
  <2>3. ASSUME NEW b \in Call, call'[b].at \in {"accepted", "unfinal"}
        PROVE  mails'[call'[b].secret] > 0
    <3>1. CASE b = c
      BY <1>1, <1>2, <1>3, <1>4, <2>3, <3>1, SMT
    <3>2. CASE b # c
      BY <1>3, <2>1, <2>2, <2>3, <3>2 DEF Recorded
    <3> QED BY <3>1, <3>2
  <2> QED BY <1>1, <2>1, <2>3 DEF Recorded
<1> QED BY <1>5, <1>6, <1>7, <1>8, <1>9

\* Finalize and MarkAmbiguous: the delivery of a message that was taken blocks
\* under another name.
LEMMA SettleInv ==
    ASSUME MailInv, NEW c \in Call, NEW s \in Secret, call[c].secret = s,
           call[c].at \in {"accepted", "unfinal"},
           NEW status \in {"sent", "ambiguous"}, Mark(call[c].delivery, status),
           NEW place \in {"over", "unfinal"}, Goto(c, place),
           \/ status = "sent" /\ secret' = [secret EXCEPT ![s] = "consumed"]
           \/ status = "ambiguous" /\ secret' = secret,
           UNCHANGED <<mails, doubtful>>
    PROVE  MailInv'
<1> USE DEF MailInv
<1> DEFINE d == call[c].delivery
<1>1. d \in Delivery \cup {NoDelivery} /\ (d # NoDelivery => row[d].secret = s)
      /\ mails[s] > 0 /\ Holds(c, s)
  BY DEF MailTypeOK, Bound, Recorded, Holds
<1>2. /\ call'[c].at = place /\ call'[c].secret = s /\ call'[c].delivery = d
      /\ \A b \in Call : b # c => call'[b] = call[b]
      /\ call' \in [Call -> [at : {"idle", "queued", "called", "broken", "sending",
                                   "refused", "accepted", "unfinal", "over"},
                             secret : Secret \cup {NoDelivery},
                             delivery : Delivery \cup {NoDelivery},
                             retry : BOOLEAN]]
  BY GotoKeepsIds
<1>3. /\ row' \in [Delivery -> {Absent} \cup [status : Status, secret : Secret]]
      /\ d # NoDelivery => row'[d].status = status
      /\ \A e \in Delivery : /\ row'[e].secret = row[e].secret
                             /\ row'[e] = Absent <=> row[e] = Absent
                             /\ e # d => row'[e] = row[e]
  <2>1. CASE d = NoDelivery
    BY <2>1 DEF Mark, MailTypeOK
  <2>2. CASE d # NoDelivery
    BY <1>1, <2>2, MarkKeepsSecret DEF Status
  <2> QED BY <2>1, <2>2
<1>4. /\ secret' \in [Secret -> {"pending", "consumed", "expired"}]
      /\ \A t \in Secret : secret[t] = "consumed" => secret'[t] = "consumed"
      /\ \A t \in Secret : secret'[t] = "consumed" => secret[t] = "consumed" \/ t = s
      /\ status = "sent" => secret'[s] = "consumed"
  BY DEF MailTypeOK
<1> HIDE DEF d
<1>5. MailTypeOK'
  BY <1>2, <1>3, <1>4 DEF MailTypeOK
<1>6. ASSUME NEW b \in Call PROVE Bound(b)'
  <2>1. call[b].delivery \in Delivery \cup {NoDelivery} /\ call'[b].delivery = call[b].delivery
        /\ call'[b].secret = call[b].secret /\ (call'[b].at # "idle" => call[b].at # "idle")
    BY <1>2 DEF MailTypeOK, d
  <2> QED BY <1>3, <2>1 DEF Bound
<1>7. OneRow'
  BY <1>3 DEF OneRow
<1>8. ASSUME NEW t \in Secret PROVE Guarded(t)'
  <2>1. CASE t # s
    <3>1. \A e \in Delivery : \/ row'[e] = row[e]
                              \/ row'[e].secret = s /\ row[e].secret \in {s, NoDelivery}
      BY <1>1, <1>3, DeliveryType
    <3> QED BY <1>2, <2>1, <3>1, OtherSecrets
  <2>2. CASE t = s /\ s \notin doubtful
    <3>1. d \in Delivery /\ mails[s] \in {0, 1} /\ \A b \in Call : Holds(b, s) => b = c
      BY <1>1, <2>2 DEF Guarded, d
    <3>2. row'[d].status \in Blocking /\ row'[d].secret = s
      BY <1>1, <1>3, <3>1, DeliveryType DEF Blocking
    <3>3. Blocked(s)'
      BY <3>1, <3>2 DEF Blocked, History, Blocking
    <3>4. \A b \in Call : Holds(b, s)' => b = c
      BY <1>2, <3>1 DEF Holds
    <3> QED BY <1>2, <2>2, <3>1, <3>2, <3>3, <3>4 DEF Guarded
  <2> QED BY <2>1, <2>2 DEF Guarded
<1>9. Recorded'
  <2>1. ASSUME NEW b \in Call, call'[b].at \in {"accepted", "unfinal"}
        PROVE  mails'[call'[b].secret] > 0
    BY <1>1, <1>2, <2>1 DEF Recorded
  <2>2. \A t \in Secret : secret'[t] = "consumed" => mails'[t] > 0
    BY <1>1, <1>4 DEF Recorded
  <2>3. ASSUME NEW e \in Delivery, row'[e].status = "sent"
        PROVE  secret'[row'[e].secret] = "consumed"
    <3>1. row'[e].secret \in Secret
      BY <1>3, <2>3, SMT DEF Absent
    <3>2. CASE e = d
      BY <1>1, <1>3, <1>4, <2>3, <3>2, DeliveryType
    <3>3. CASE e # d
      BY <1>3, <1>4, <2>3, <3>1, <3>3 DEF Recorded
    <3> QED BY <3>2, <3>3
  <2> QED BY <2>1, <2>2, <2>3 DEF Recorded
<1> QED BY <1>5, <1>6, <1>7, <1>8, <1>9

\* Every step of the calls, the worker and the clock keeps the invariant.
LEMMA MailStepInv ==
    ASSUME MailInv, MailNext
    PROVE  MailInv'
<1>1. ASSUME NEW s \in Secret, Lapse(s) PROVE MailInv'
  <2>1. UNCHANGED <<secret, row, call, mails, doubtful>>
    BY <1>1 DEF Lapse
  <2> QED BY <2>1, MailFrame DEF MailInv, MailTypeOK, Bound
<1>2. ASSUME NEW c \in Call, NEW place \in {"over", "unfinal"}, Finalize(c, place)
      PROVE  MailInv'
  <2>1. PICK s \in Secret : call[c].secret = s
    BY <1>2 DEF Finalize, MailInv, Bound
  <2> QED BY <1>2, <2>1, SettleInv DEF Finalize
<1>3. ASSUME NEW c \in Call, MarkAmbiguous(c) PROVE MailInv'
  <2>1. PICK s \in Secret : call[c].secret = s
    BY <1>3 DEF MarkAmbiguous, MailInv, Bound
  <2> QED BY <1>3, <2>1, SettleInv DEF MarkAmbiguous
<1> QED
  BY <1>1, <1>2, <1>3, RequestsInv, MoveInv, RejectInv, RecordFailedInv, BeginInv, SendInv
     DEF MailNext

\* A step of the delivery, or none, keeps the invariant.
LEMMA MailKept ==
    MailInv /\ [MailNext]_mailVars => MailInv'
<1>1. MailInv /\ UNCHANGED mailVars => MailInv'
  <2> SUFFICES ASSUME MailInv, UNCHANGED mailVars PROVE MailInv'
    OBVIOUS
  <2>1. UNCHANGED <<secret, row, call, mails, doubtful>>
    BY DEF mailVars
  <2> QED BY <2>1, MailFrame DEF MailInv, MailTypeOK, Bound
<1> QED BY <1>1, MailStepInv

\* The invariant implies what is promised of the delivery.
LEMMA MailPromise ==
    MailInv => MailedOnce
<1> SUFFICES ASSUME MailInv PROVE MailedOnce
  OBVIOUS
<1>1. ASSUME NEW s \in Secret PROVE \A d, e \in History(s) : d = e
  <2>1. \A d \in History(s) : row[d] # Absent
    BY DeliveryType, SMT DEF History, Absent
  <2> QED BY <2>1 DEF History, MailInv, OneRow
<1>2. ASSUME NEW s \in Secret, mails[s] > 1 PROVE s \in doubtful
  BY <1>2, SMT DEF MailInv, Guarded
<1> QED BY <1>1, <1>2 DEF MailInv, Recorded, MailedOnce

\* The inductive invariant of the delivery of keys.
THEOREM MailInvariant == MailSpec => []MailInv
BY MailInitInv, MailKept, PTL DEF MailSpec

\* send_pending_key_email: a key is mailed once, whatever calls are made and
\* wherever they die, unless a failure was recorded wrongly; it has one
\* delivery row, and what its rows say about the mail is true.  For any
\* number of secrets, deliveries and calls.
THEOREM MailedOnceHolds == MailSpec => []MailedOnce
BY MailPromise, MailInvariant, PTL

=============================================================================
