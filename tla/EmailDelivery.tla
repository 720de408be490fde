--------------------------- MODULE EmailDelivery ---------------------------
(***************************************************************************)
(* The delivery of a new gateway key by e-mail: the encrypted one-time     *)
(* secrets that hold the plaintext of a key, the delivery rows, and the    *)
(* calls of EmailDeliveryService.send_pending_key_email that operators and *)
(* Celery workers make.                                                    *)
(*                                                                         *)
(* A call is prepared in one transaction that holds the locks of the       *)
(* delivery and of the secret, hands the message to the SMTP server        *)
(* outside any transaction, and finalizes in a second transaction.  The    *)
(* process may die between any two steps, a transaction may fail, its      *)
(* commit may be applied while its answer is lost, and SMTP may report an  *)
(* error after it took the message.                                        *)
(***************************************************************************)
EXTENDS Integers

CONSTANTS
    Secret,        \* one-time secrets
    Delivery,      \* ids of e-mail deliveries
    Call,          \* calls of send_pending_key_email
    NoDelivery     \* the absent --email-delivery-id

ASSUME DeliveryType == NoDelivery \notin Delivery \cup Secret

VARIABLES
    secret,     \* one_time_secrets.status
    lapsed,     \* secrets whose expires_at has passed
    row,        \* email_deliveries: status and one_time_secret_id
    call,       \* per call: where it is, its ids, and whether it is a retry
    mails,      \* history: per secret, the messages SMTP has accepted
    doubtful    \* history: secrets with a failure recorded wrongly

mailVars == <<secret, lapsed, row, call, mails, doubtful>>

Absent == [status |-> "absent", secret |-> NoDelivery]

\* A key is created with its secret and, unless e-mail is not wanted, a
\* pending delivery, in one transaction.
MailInit ==
    /\ secret = [s \in Secret |-> "pending"]
    /\ lapsed = {}
    /\ row \in [Delivery -> {Absent}
                    \cup [status : {"pending"}, secret : Secret]]
    /\ \A d, e \in Delivery : d # e /\ row[d] # Absent
                                    => row[d].secret # row[e].secret
    /\ call = [c \in Call |-> [at |-> "idle", secret |-> NoDelivery,
                               delivery |-> NoDelivery, retry |-> FALSE]]
    /\ mails = [s \in Secret |-> 0]
    /\ doubtful = {}

-----------------------------------------------------------------------------
(* The rows *)

History(s) == {d \in Delivery : row[d].secret = s}

Blocked(s) == \E d \in History(s) :
                  row[d].status \in {"sending", "sent", "ambiguous"}

Usable(s) == secret[s] = "pending" /\ s \notin lapsed

\* _email_delivery_send_blocking_reason and get_key_email_delivery_sendability
CanSend(d) ==
    /\ row[d].status \in {"pending", "failed"}
    /\ Usable(row[d].secret)
    /\ ~Blocked(row[d].secret)

Mark(d, status) ==
    row' = IF d = NoDelivery THEN row ELSE [row EXCEPT ![d].status = status]

Goto(c, place) == call' = [call EXCEPT ![c].at = place]

Lapse(s) ==
    /\ s \notin lapsed
    /\ lapsed' = lapsed \cup {s}
    /\ UNCHANGED <<secret, row, call, mails, doubtful>>

-----------------------------------------------------------------------------
(* The requests.  Their checks take no lock, and a worker may run the call *)
(* much later.                                                             *)

Ask(c, s, d, retry, place) ==
    /\ call[c].at = "idle"
    /\ call' = [call EXCEPT ![c] = [at |-> place, secret |-> s,
                                    delivery |-> d, retry |-> retry]]
    /\ UNCHANGED <<secret, lapsed, row, mails, doubtful>>

\* The pending flow of the admin pages: sent at once.
SendNow(c, d) ==
    /\ row[d].status # "failed"
    /\ CanSend(d)
    /\ Ask(c, row[d].secret, d, FALSE, "called")

\* The pending flow of the admin pages: queued, after the intent is audited.
Enqueue(c, d) ==
    /\ row[d].status # "failed"
    /\ CanSend(d)
    /\ Ask(c, row[d].secret, d, FALSE, "queued")

\* The explicit retry of the admin pages, in both modes.
RetryFailed(c, d) ==
    /\ row[d].status = "failed"
    /\ CanSend(d)
    /\ \E place \in {"called", "queued"} :
          Ask(c, row[d].secret, d, TRUE, place)

\* The command line, with --email-delivery-id: --send-now looks at the
\* binding only, --enqueue also at the sendability.
CliSelected(c, d) ==
    /\ row[d] # Absent
    /\ \E place \in {"called", "queued"} :
          /\ place = "queued" => CanSend(d)
          /\ Ask(c, row[d].secret, d, row[d].status = "failed", place)

\* The command line without it: --enqueue looks at the secret and its history.
CliInitial(c, s) ==
    \E place \in {"called", "queued"} :
        /\ place = "queued" => Usable(s) /\ History(s) = {}
        /\ Ask(c, s, NoDelivery, FALSE, place)

\* send_pending_key_email_task
Worker(c) ==
    /\ call[c].at = "queued"
    /\ Goto(c, "called")
    /\ UNCHANGED <<secret, lapsed, row, mails, doubtful>>

-----------------------------------------------------------------------------
(* The preparation *)

\* Refusals that change nothing.
Refused(s, d) ==
    \/ d # NoDelivery /\ row[d].status \notin {"pending", "failed"}
    \/ Usable(s) /\ Blocked(s)
    \/ Usable(s) /\ d = NoDelivery /\ History(s) # {}

Refuse(c) ==
    /\ call[c].at = "called"
    /\ Refused(call[c].secret, call[c].delivery)
    /\ Goto(c, "over")
    /\ UNCHANGED <<secret, lapsed, row, mails, doubtful>>

\* An EmailError: a secret that is consumed or has expired, or metadata or a
\* ciphertext that cannot be used.  The selected delivery fails with it.
Reject(c) ==
    LET s == call[c].secret
    IN  /\ call[c].at = "called"
        /\ ~Refused(s, call[c].delivery)
        /\ secret' = IF secret[s] = "pending" /\ s \in lapsed
                     THEN [secret EXCEPT ![s] = "expired"] ELSE secret
        /\ Mark(call[c].delivery, "failed")
        /\ Goto(c, "over")
        /\ UNCHANGED <<lapsed, mails, doubtful>>

\* The preparation commits `sending`; `place` is "refused" when the answer to
\* the commit is lost.
Begin(c, place) ==
    LET s == call[c].secret
    IN  /\ call[c].at = "called"
        /\ ~Refused(s, call[c].delivery)
        /\ Usable(s)
        /\ \E d \in IF call[c].delivery # NoDelivery THEN {call[c].delivery}
                    ELSE {e \in Delivery : row[e] = Absent} :
              /\ row' = [row EXCEPT ![d] = [status |-> "sending", secret |-> s]]
              /\ call' = [call EXCEPT ![c].at = place, ![c].delivery = d]
        /\ UNCHANGED <<secret, lapsed, mails, doubtful>>

\* The preparation raises something else, a lost connection or a timeout of
\* a lock, and is rolled back.
Break(c) ==
    /\ call[c].at = "called"
    /\ Goto(c, "broken")
    /\ UNCHANGED <<secret, lapsed, row, mails, doubtful>>

\* _record_failed_delivery.  After a rollback it holds no lock, and it does
\* not look at the status.
RecordFailed(c) ==
    /\ call[c].at \in {"broken", "refused"}
    /\ Mark(call[c].delivery, "failed")
    /\ doubtful' = IF /\ call[c].at = "broken"
                      /\ call[c].delivery # NoDelivery
                      /\ Blocked(call[c].secret)
                   THEN doubtful \cup {call[c].secret} ELSE doubtful
    /\ Goto(c, "over")
    /\ UNCHANGED <<secret, lapsed, mails>>

-----------------------------------------------------------------------------
(* SMTP and the finalization *)

\* EmailService.send_email: accepted, refused, or accepted with an error on
\* the way back, which is an SmtpSendError like a refusal.
Send(c) ==
    /\ call[c].at = "sending"
    /\ \E accepted, error \in BOOLEAN :
          /\ accepted \/ error
          /\ mails' = IF accepted
                      THEN [mails EXCEPT ![call[c].secret] = @ + 1] ELSE mails
          /\ doubtful' = IF accepted /\ error
                         THEN doubtful \cup {call[c].secret} ELSE doubtful
          /\ Goto(c, IF error THEN "refused" ELSE "accepted")
    /\ UNCHANGED <<secret, lapsed, row>>

\* The transaction that consumes the secret and marks the delivery sent.
\* `place` is "unfinal" when the answer to its commit is lost.
Finalize(c, place) ==
    LET s == call[c].secret
    IN  /\ call[c].at = "accepted"
        /\ secret[s] # "consumed"
        /\ secret' = [secret EXCEPT ![s] = "consumed"]
        /\ Mark(call[c].delivery, "sent")
        /\ Goto(c, place)
        /\ UNCHANGED <<lapsed, mails, doubtful>>

\* The secret was consumed by another call, or the transaction fails.
FinalizeFails(c) ==
    /\ call[c].at = "accepted"
    /\ Goto(c, "unfinal")
    /\ UNCHANGED <<secret, lapsed, row, mails, doubtful>>

\* Mutant: a failed finalization makes the delivery retryable.
MarkAmbiguousFailed(c) ==
    /\ call[c].at = "unfinal"
    /\ Mark(call[c].delivery, "failed")
    /\ Goto(c, "over")
    /\ UNCHANGED <<secret, lapsed, mails, doubtful>>

\* _mark_ambiguous_after_finalization_failure
MarkAmbiguous(c) ==
    /\ call[c].at = "unfinal"
    /\ Mark(call[c].delivery, "ambiguous")
    /\ Goto(c, "over")
    /\ UNCHANGED <<secret, lapsed, mails, doubtful>>

\* The process dies, or the last transaction of a call fails.
CallDies(c) ==
    /\ call[c].at \notin {"idle", "over"}
    /\ Goto(c, "over")
    /\ UNCHANGED <<secret, lapsed, row, mails, doubtful>>

MailNext ==
    \/ \E s \in Secret : Lapse(s)
    \/ \E c \in Call :
          \/ \E d \in Delivery : \/ SendNow(c, d)
                                 \/ Enqueue(c, d)
                                 \/ RetryFailed(c, d)
                                 \/ CliSelected(c, d)
          \/ \E s \in Secret : CliInitial(c, s)
          \/ Worker(c)
          \/ Refuse(c)
          \/ Reject(c)
          \/ Begin(c, "sending")
          \/ Begin(c, "refused")
          \/ Break(c)
          \/ RecordFailed(c)
          \/ Send(c)
          \/ Finalize(c, "over")
          \/ Finalize(c, "unfinal")
          \/ FinalizeFails(c)
          \/ MarkAmbiguous(c)
          \/ CallDies(c)

MailSpec == MailInit /\ [][MailNext]_mailVars

-----------------------------------------------------------------------------
(* Properties *)

\* A key is e-mailed at most once, however many calls are made and wherever
\* they die, unless a failure was recorded wrongly: SMTP reported an error
\* for a message it took, or a broken preparation marked a delivery failed
\* that another call was sending.  A secret has one delivery row, is consumed
\* only when it was e-mailed, and is consumed when a delivery says sent.
MailedOnce ==
    /\ \A s \in Secret : /\ mails[s] > 1 => s \in doubtful
                         /\ secret[s] = "consumed" => mails[s] > 0
                         /\ \A d, e \in History(s) : d = e
    /\ \A d \in Delivery : row[d].status = "sent"
                               => secret[row[d].secret] = "consumed"

=============================================================================
