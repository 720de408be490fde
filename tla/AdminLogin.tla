----------------------------- MODULE AdminLogin -----------------------------
(***************************************************************************)
(* The limit on failed admin logins.  Failures and lockouts are rows of    *)
(* the audit log; a login reads them, verifies the password and writes     *)
(* its own rows in one transaction, without a lock.  Logins that run at    *)
(* the same time do not see each other's rows before they commit.          *)
(***************************************************************************)
EXTENDS Integers, FiniteSets, Bags

CONSTANTS
    Email,         \* normalised addresses that are tried
    Ip,            \* client addresses
    Login,         \* logins that may be in progress at the same time
    Window,        \* ADMIN_LOGIN_WINDOW_SECONDS
    Lockout,       \* ADMIN_LOGIN_LOCKOUT_SECONDS
    MaxFailures,   \* ADMIN_LOGIN_MAX_FAILED_ATTEMPTS
    MaxMoment,       \* bound: the clock
    MaxGuesses     \* bound: verified passwords that are wrong

ASSUME LimitsArePositive ==
    {Window, Lockout, MaxFailures} \subseteq Nat \ {0}

VARIABLES
    moment,       \* the clock of the application
    failed,    \* rows admin_login_failed, a bag
    locked,    \* rows admin_login_rate_limited
    login,     \* per login: where it is, whose it is, and its own rows
    guesses    \* history: wrong passwords that were verified, and when

loginVars == <<moment, failed, locked, login, guesses>>

NoLogin == [at |-> "idle"]

LoginInit ==
    /\ moment = 0
    /\ failed = EmptyBag
    /\ locked = {}
    /\ login = [l \in Login |-> NoLogin]
    /\ guesses = EmptyBag

LoginTick ==
    /\ moment < MaxMoment
    /\ moment' = moment + 1
    /\ UNCHANGED <<failed, locked, login, guesses>>

-----------------------------------------------------------------------------
(* The queries: rows of the same address or of the same client *)

Matches(r, e, i) == r.email = e \/ r.ip = i

Count(bag, rows) == BagCardinality([r \in rows |-> bag[r]])

\* count_recent_admin_login_failures
RecentFailures(e, i, since) ==
    Count(failed, {r \in DOMAIN failed : Matches(r, e, i) /\ r.at >= since})

\* get_latest_admin_login_lockout: the time of the row, if there is one.
LatestLockout(e, i, since) ==
    LET times == {r.at : r \in {x \in locked : Matches(x, e, i)
                                               /\ x.at >= since}}
    IN  {t \in times : \A u \in times : u <= t}

Longer == IF Window > Lockout THEN Window ELSE Lockout

\* check_login_allowed.  A lockout that has ended lets the next login
\* through, however many failures are still within the window.
LoginAllowed(e, i) ==
    LET latest == LatestLockout(e, i, moment - Longer)
    IN  IF latest # {} THEN \A t \in latest : t + Lockout <= moment
        ELSE RecentFailures(e, i, moment - Window) < MaxFailures

-----------------------------------------------------------------------------
(* A login *)

\* Mutant: the password is verified whatever the check says.
VerifyUnchecked(l, e, i) ==
    /\ login[l] = NoLogin
    /\ login' = [login EXCEPT ![l] =
                    [at |-> "verifying", email |-> e, ip |-> i, start |-> moment]]
    /\ UNCHANGED <<moment, failed, locked, guesses>>

\* The check passes; the password is being verified.
Verify(l, e, i) ==
    /\ login[l] = NoLogin
    /\ LoginAllowed(e, i)
    /\ login' = [login EXCEPT ![l] =
                    [at |-> "verifying", email |-> e, ip |-> i, start |-> moment]]
    /\ UNCHANGED <<moment, failed, locked, guesses>>

\* The check refuses, which is a lockout event of its own: it renews the
\* lockout, and spreads it to the address and the client of this login.
RefuseLogin(e, i) ==
    /\ ~LoginAllowed(e, i)
    /\ locked' = locked \cup {[email |-> e, ip |-> i, at |-> moment]}
    /\ UNCHANGED <<moment, failed, login, guesses>>

\* The right password: a session is created.
Succeed(l) ==
    /\ login[l].at = "verifying"
    /\ login' = [login EXCEPT ![l] = NoLogin]
    /\ UNCHANGED <<moment, failed, locked, guesses>>

\* record_failed_login: the row is inserted and counted with the committed
\* ones; the threshold adds a lockout row.
RecordFailure(l) ==
    LET e == login[l].email
        i == login[l].ip
        row == [email |-> e, ip |-> i, at |-> moment]
    IN  /\ login[l].at = "verifying"
        /\ BagCardinality(guesses) < MaxGuesses
        /\ guesses' = guesses (+) SetToBag({[row EXCEPT !.at = login[l].start]})
        /\ login' = [login EXCEPT ![l] =
              [at |-> "recorded", row |-> row, start |-> login[l].start,
               lock |-> RecentFailures(e, i, login[l].start - Window) + 1
                            >= MaxFailures]]
        /\ UNCHANGED <<moment, failed, locked>>

\* The transaction of the login handler commits.
Commit(l) ==
    /\ login[l].at = "recorded"
    /\ failed' = failed (+) SetToBag({login[l].row})
    /\ locked' = IF login[l].lock THEN locked \cup {login[l].row} ELSE locked
    /\ login' = [login EXCEPT ![l] = NoLogin]
    /\ UNCHANGED <<moment, guesses>>

LoginNext ==
    \/ LoginTick
    \/ \E e \in Email, i \in Ip : \/ RefuseLogin(e, i)
                                  \/ \E l \in Login : Verify(l, e, i)
    \/ \E l \in Login : Succeed(l) \/ RecordFailure(l) \/ Commit(l)

-----------------------------------------------------------------------------
(* Properties *)

Shorter == IF Window < Lockout THEN Window ELSE Lockout

\* However logins overlap, whatever clients they come from and whatever
\* lockouts were renewed or have ended, an address is tried with a bounded
\* number of wrong passwords within a window or a lockout, whichever is
\* shorter.  It is more than the threshold.  Up to two below it, failures are
\* recorded one by one; then all logins in flight record one each of which
\* none sees the threshold reached; and where a lockout has ended, as many
\* again are let in whatever the count, before one of them renews it.
GuessRate ==
    \A e \in Email, t \in -1 .. MaxMoment :
        Count(guesses, {g \in DOMAIN guesses : /\ g.email = e
                                               /\ g.at > t
                                               /\ g.at <= t + Shorter})
            <= (MaxFailures - 2) + Cardinality(Login) + Cardinality(Login)

=============================================================================
