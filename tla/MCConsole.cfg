CONSTANTS
    Email = {e1}
    Ip = {i1, i2}
    Login = {l1, l2}
    Window = 2
    Lockout = 3
    MaxFailures = 2
    MaxMoment = 3
    MaxGuesses = 7
    Admin = {a1}
    Session = {s1}
    Nonce = {n1, n2}
    Request = {q1, q2}
    None = None
    SessionTtl = 3
    ReviewTtl = 2
    Budget = 1
    BudgetWindow = 1
    MaxTime = 3
    MaxPages = 2
    Tab = {t1, t2}
    Visit = {v1, v2}
    Often <- MCOften
    MaxVisits = 2
    Secret = {o1}
    Delivery = {d1, d2}
    Call = {c1, c2, c3}
    NoDelivery = NoDelivery
SPECIFICATION SceneSpec
CHECK_DEADLOCK FALSE
INVARIANTS GuessRate TestSentOnce HonestAnswer ShownFormIsLive MailedOnce
