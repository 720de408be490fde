---------------------------- MODULE LazyAdmission ----------------------------
(***************************************************************************)
(* The bounded wait of a request that the rate limiter denied              *)
(* (services/lazy_throttling.py, and the callers in                        *)
(* services/chat_completion_gateway.py and responses_gateway.py).          *)
(*                                                                         *)
(* A waiter takes a lease in two Redis sets, one of its key and one of the *)
(* deployment, tries again and again under the key as it is now, and gives   *)
(* up at a deadline.  Lease expiry is reckoned by the clock of the process *)
(* that runs the script, the deadline by a clock that only moves forward.  *)
(* The limiter is reduced to its slots; its windows deny at any time.      *)
(***************************************************************************)
EXTENDS Integers, FiniteSets

CONSTANTS
    KeyOf,       \* the key of a request
    Load         \* workloads, by name: the waiters and the settings

VARIABLES
    load,        \* the workload of this behaviour
    clock,       \* the time
    keyrow,      \* of a key: whether it is active, its policy, its token window
    pc,          \* where a request is
    start,       \* when it began to wait
    known,       \* the policy it was first authorised under
    lease,       \* expiry of its waiting lease, 0 when there is none
    held,        \* requests that hold a slot of the limiter
    lost,        \* requests whose cleanup did not reach Redis, or that died
    changed      \* requests whose key's policy changed during a sleep

lazyVars == <<clock, keyrow, pc, start, known, lease, held, lost, changed>>

Waiter == Load[load].waiters        \* the requests
MaxTotal == Load[load].maxTotal     \* LAZY_THROTTLING_MAX_WAITING_TOTAL
MaxWait == Load[load].maxWait       \* max_wait_seconds
Ttl == Load[load].ttl               \* the lifetime of a lease
Skew == Load[load].skew             \* how far the wall clock of a process is ahead
Changing == Load[load].changing     \* the keys an operator changes
FailOpen == Load[load].failOpen     \* whether an outage of Redis lets requests pass
MaxClock == Load[load].maxClock     \* bound of the clock
Slots == 1                          \* max_concurrent_requests
MaxPerKey == 1                      \* max_waiting_requests of the wait policy

ASSUME LoadType ==
    \A n \in DOMAIN Load :
        /\ IsFiniteSet(Load[n].waiters)
        /\ {Load[n].maxTotal, Load[n].maxWait, Load[n].ttl, Load[n].maxClock} \subseteq Nat
        /\ Load[n].skew \in [Load[n].waiters -> Int]

\* Settings keep a lease at least a margin longer than the longest wait; the
\* clocks of the processes differ by less than the margin.
ASSUME LeaseOutlivesWait ==
    \A n \in DOMAIN Load : \A r, q \in Load[n].waiters :
        Load[n].ttl + Load[n].skew[r] >= Load[n].maxWait + Load[n].skew[q]

Key == {KeyOf[r] : r \in Waiter}

LazyInit ==
    /\ load \in DOMAIN Load
    /\ clock = 0
    /\ keyrow = [k \in Key |-> [active |-> TRUE, policy |-> 0, fits |-> TRUE]]
    /\ pc = [r \in Waiter |-> "idle"]
    /\ start = [r \in Waiter |-> 0]
    /\ known = [r \in Waiter |-> 0]
    /\ lease = [r \in Waiter |-> 0]
    /\ held = {}
    /\ lost = {}
    /\ changed = {}

Goto(r, place) == pc' = [pc EXCEPT ![r] = place]

\* The task is over, and its local variables with it.
Over(r, place) ==
    /\ Goto(r, place)
    /\ start' = [start EXCEPT ![r] = 0]
    /\ known' = [known EXCEPT ![r] = 0]

Row(r) == keyrow[KeyOf[r]]
Deadline(r) == start[r] + MaxWait
HeldFree(r) == Cardinality({q \in held : KeyOf[q] = KeyOf[r]}) < Slots

\* An await that fails may have taken effect in Redis.
MayTakeSlot(r) == held' = held \/ held' = held \cup {r}

-----------------------------------------------------------------------------
(* Before the wait *)

\* The first check_and_reserve of _reserve_redis_rate_limit.
FirstAttempt(r) ==
    /\ pc[r] = "idle"
    /\ Row(r).active
    /\ known' = [known EXCEPT ![r] = Row(r).policy]
    /\ \/ /\ HeldFree(r)
          /\ held' = held \cup {r}
          /\ Goto(r, "running")
       \/ /\ Goto(r, "preflight")
          /\ UNCHANGED held
    /\ UNCHANGED <<clock, keyrow, start, lease, lost, changed>>

\* _preflight_responses_wait_hard_quota: what quota, fence or pricing would
\* refuse later is refused now.  An estimate beyond the whole token window
\* never fits.
Preflight(r) ==
    /\ pc[r] = "preflight"
    /\ clock + MaxWait <= MaxClock
    /\ \/ Over(r, "ended")
       \/ /\ Row(r).active /\ Row(r).fits
          /\ start' = [start EXCEPT ![r] = clock]
          /\ Goto(r, "asking")
          /\ UNCHANGED known
    /\ UNCHANGED <<clock, keyrow, lease, held, lost, changed>>

-----------------------------------------------------------------------------
(* The lease *)

\* Members whose score the clock of r's process has not passed
Live(r) == {q \in Waiter : lease[q] > clock + Skew[r]}

Room(r) ==
    /\ Cardinality({q \in Live(r) : KeyOf[q] = KeyOf[r]}) < MaxPerKey
    /\ Cardinality(Live(r)) < MaxTotal

\* Mutant: a lease lives as long as the longest wait of a clock that is right.
AcquireScriptShort(r) ==
    lease' = [q \in Waiter |->
                 IF q = r /\ Room(r) THEN start[r] + Skew[r] + MaxWait
                 ELSE IF q \in Live(r) THEN lease[q] ELSE 0]

\* _ACQUIRE_WAITING_SCRIPT; the expiry of the two sets themselves is renewed
\* by every member and never comes before the last one's.
AcquireScript(r) ==
    lease' = [q \in Waiter |->
                 IF q = r /\ Room(r) THEN start[r] + Skew[r] + Ttl
                 ELSE IF q \in Live(r) THEN lease[q] ELSE 0]

\* The script runs and its answer arrives in time.
AcquireLease(r) ==
    /\ pc[r] = "asking"
    /\ clock < Deadline(r)
    /\ AcquireScript(r)
    /\ Goto(r, IF Room(r) THEN "waiting" ELSE "closing")
    /\ UNCHANGED <<clock, keyrow, start, known, held, lost, changed>>

\* The budget runs out, Redis fails or the task is cancelled; the script may
\* have run.  With Redis failing open the request waits without a lease.
AcquireFails(r) ==
    /\ pc[r] = "asking"
    /\ AcquireScript(r) \/ UNCHANGED lease
    /\ \/ Goto(r, "closing") /\ UNCHANGED lost
       \/ FailOpen /\ Goto(r, "waiting") /\ lost' = lost \cup {r}
    /\ UNCHANGED <<clock, keyrow, start, known, held, changed>>

-----------------------------------------------------------------------------
(* A round of the loop *)

\* Mutant: only the client ends a wait; the deadline is not looked at.
GiveUpNever(r) ==
    /\ pc[r] = "waiting"
    /\ clock < Deadline(r)
    /\ Goto(r, "closing")
    /\ UNCHANGED <<clock, keyrow, start, known, lease, held, lost, changed>>

\* The client is gone, the task is cancelled, or the deadline has come.
GiveUp(r) ==
    /\ pc[r] = "waiting"
    /\ Goto(r, "closing")
    /\ UNCHANGED <<clock, keyrow, start, known, lease, held, lost, changed>>

\* Mutant: only the status of the key is read again.
RevalidateStatus(r) ==
    /\ pc[r] = "waiting"
    /\ clock < Deadline(r)
    /\ Goto(r, IF Row(r).active THEN "trying" ELSE "closing")
    /\ UNCHANGED <<clock, keyrow, start, known, lease, held, lost, changed>>

\* _revalidate_responses_after_wait: the key must be active and its policy
\* the one the request was authorised under; the token window must still be
\* able to hold the estimate.
Revalidate(r) ==
    /\ pc[r] = "waiting"
    /\ clock < Deadline(r)
    /\ Goto(r, IF Row(r).active /\ Row(r).policy = known[r] /\ Row(r).fits
               THEN "trying" ELSE "closing")
    /\ UNCHANGED <<clock, keyrow, start, known, lease, held, lost, changed>>

\* check_and_reserve grants, or denies and the request sleeps.
Try(r) ==
    /\ pc[r] = "trying"
    /\ clock < Deadline(r)
    /\ \/ /\ HeldFree(r)
          /\ held' = held \cup {r}
          /\ Goto(r, "granted")
       \/ /\ Goto(r, "waiting")
          /\ UNCHANGED held
    /\ UNCHANGED <<clock, keyrow, start, known, lease, lost, changed>>

\* Mutant: a stalled reservation is taken for a denied one.
TryStallsUnreleased(r) ==
    /\ pc[r] = "trying"
    /\ MayTakeSlot(r)
    /\ Goto(r, "closing")
    /\ UNCHANGED <<clock, keyrow, start, known, lease, lost, changed>>

\* The budget runs out, or the task is cancelled, during check_and_reserve.
TryStalls(r) ==
    /\ pc[r] = "trying"
    /\ MayTakeSlot(r)
    /\ Goto(r, "undoing")
    /\ UNCHANGED <<clock, keyrow, start, known, lease, lost, changed>>

\* Redis fails during check_and_reserve: closed, the error leaves the loop
\* and nothing gives the slot back before it expires; open, the request passes.
TryFails(r) ==
    /\ pc[r] = "trying"
    /\ MayTakeSlot(r)
    /\ Goto(r, IF FailOpen THEN "granted" ELSE "closing")
    /\ lost' = lost \cup {r}
    /\ UNCHANGED <<clock, keyrow, start, known, lease, changed>>

\* The client is looked for once more.  The admission stands when it is there
\* and the deadline is not past after the look; when it is gone, the task is
\* cancelled or the deadline is past by then, the slot is given back.
Granted(r) ==
    /\ pc[r] = "granted"
    /\ \/ clock < Deadline(r) /\ Goto(r, "leaving")
       \/ Goto(r, "undoing")
    /\ UNCHANGED <<clock, keyrow, start, known, lease, held, lost, changed>>

\* The budget is used up before or during that look: _client_gone raises the
\* deadline error itself, which only the finally clause sees, and the slot is
\* kept.
LookExpires(r) ==
    /\ pc[r] = "granted"
    /\ clock >= Deadline(r)
    /\ Goto(r, "expiring")
    /\ UNCHANGED <<clock, keyrow, start, known, lease, held, lost, changed>>

-----------------------------------------------------------------------------
(* Leaving the loop *)

\* A cleanup reaches Redis, or fails within its own short budget.
ReleaseSlot(r) ==
    \/ held' = held \ {r} /\ UNCHANGED lost
    \/ UNCHANGED held /\ lost' = lost \cup {r}

ReleaseLease(r) ==
    \/ lease' = [lease EXCEPT ![r] = 0] /\ UNCHANGED lost
    \/ UNCHANGED lease /\ lost' = lost \cup {r}

\* _release_admitted_slot_quietly.
Undo(r) ==
    /\ pc[r] = "undoing"
    /\ ReleaseSlot(r)
    /\ Goto(r, "closing")
    /\ UNCHANGED <<clock, keyrow, start, known, lease, changed>>

\* The finally clause of a wait that ends without admission.
CloseWait(r) ==
    /\ pc[r] = "closing"
    /\ ReleaseLease(r)
    /\ Over(r, "ended")
    /\ UNCHANGED <<clock, keyrow, held, changed>>

\* The finally clause after a look that ran out of budget; only a cancellation
\* that lands here gives the slot back.
ExpireWait(r) ==
    /\ pc[r] = "expiring"
    /\ \/ ReleaseLease(r) /\ UNCHANGED held
       \/ /\ lease' \in {lease, [lease EXCEPT ![r] = 0]}
          /\ held' \in {held, held \ {r}}
          /\ lost' = lost \cup {r}
    /\ Over(r, "expired")
    /\ UNCHANGED <<clock, keyrow, changed>>

\* The finally clause of an admitted wait; a cancellation that lands here
\* gives the slot back.
LeaveWait(r) ==
    /\ pc[r] = "leaving"
    /\ \/ /\ ReleaseLease(r)
          /\ Goto(r, "running")
          /\ UNCHANGED <<start, known, held>>
       \/ /\ lease' \in {lease, [lease EXCEPT ![r] = 0]}
          /\ held' \in {held, held \ {r}}
          /\ lost' = lost \cup {r}
          /\ Over(r, "ended")
    /\ UNCHANGED <<clock, keyrow, changed>>

\* The handler ends and releases its slot.
FinishAdmitted(r) ==
    /\ pc[r] = "running"
    /\ ReleaseSlot(r)
    /\ Over(r, "ended")
    /\ UNCHANGED <<clock, keyrow, lease, changed>>

-----------------------------------------------------------------------------
(* The process, the operator and time *)

Die(r) ==
    /\ pc[r] \notin {"idle", "ended", "expired", "dead"}
    /\ Over(r, "dead")
    /\ lost' = lost \cup {r}
    /\ UNCHANGED <<clock, keyrow, lease, held, changed>>

\* An operator suspends or activates a key.
SwitchKey(k) ==
    /\ keyrow' = [keyrow EXCEPT ![k].active = ~@]
    /\ UNCHANGED <<clock, pc, start, known, lease, held, lost, changed>>

\* An operator changes what a key may do.
ChangePolicy(k) ==
    /\ keyrow[k].policy = 0
    /\ keyrow' = [keyrow EXCEPT ![k].policy = 1]
    /\ changed' = changed \cup {r \in Waiter : KeyOf[r] = k /\ pc[r] = "waiting"}
    /\ UNCHANGED <<clock, pc, start, known, lease, held, lost>>

\* An operator lowers the token window below the estimates.
ShrinkWindow(k) ==
    /\ keyrow[k].fits
    /\ keyrow' = [keyrow EXCEPT ![k].fits = FALSE]
    /\ UNCHANGED <<clock, pc, start, known, lease, held, lost, changed>>

ClockTick ==
    /\ clock < MaxClock
    /\ clock' = clock + 1
    /\ UNCHANGED <<keyrow, pc, start, known, lease, held, lost, changed>>

\* A step of the task of a request.
Step(r) ==
    \/ FirstAttempt(r) \/ Preflight(r)
    \/ AcquireLease(r) \/ AcquireFails(r)
    \/ GiveUp(r) \/ Revalidate(r)
    \/ Try(r) \/ TryStalls(r) \/ TryFails(r) \/ Granted(r) \/ LookExpires(r)
    \/ Undo(r) \/ CloseWait(r) \/ ExpireWait(r) \/ LeaveWait(r) \/ FinishAdmitted(r)

LazyNext ==
    \/ \E r \in Waiter : Step(r) \/ Die(r)
    \/ \E k \in Key \cap Changing : SwitchKey(k) \/ ChangePolicy(k) \/ ShrinkWindow(k)
    \/ ClockTick

LazySpec == LazyInit /\ [][LazyNext /\ UNCHANGED load]_<<lazyVars, load>>

\* Every await of the loop is bounded by its budget, so a task that can move
\* does move, and time goes on.
LazyFairness ==
    /\ \A r \in DOMAIN KeyOf : WF_lazyVars(r \in Waiter /\ Step(r) /\ UNCHANGED load)
    /\ WF_lazyVars(ClockTick /\ UNCHANGED load)

-----------------------------------------------------------------------------
(* Properties *)

\* Requests that wait for a slot in accordance with the rules
Eligible == {r \in Waiter : /\ pc[r] \in {"waiting", "trying", "granted"}
                             /\ clock < Deadline(r)
                             /\ r \notin lost}

\* No more requests wait than the caps allow, though processes die, answers
\* are lost and one process purges leases by a clock that runs ahead: a lease
\* outlives the wait it stands for.
WaitersWithinCaps ==
    /\ Cardinality(Eligible) <= MaxTotal
    /\ \A k \in Key : Cardinality({r \in Eligible : KeyOf[r] = k}) <= MaxPerKey

\* A slot belongs to a request that runs or is about to, under the policy its
\* key had when it fell asleep: an admission whose answer nobody waited for, to
\* a client that left, or that is late after the look for the client, gives its
\* slot back.  There is one exception to the documented "cleaned up (slot
\* released) before the deadline error propagates": a look for the client that
\* runs out of budget ends the wait with the slot kept until its TTL.
SlotIsDue ==
    \A r \in held \ lost :
        \/ pc[r] = "undoing"
        \/ /\ pc[r] \in {"running", "granted", "leaving"} \cup {"expiring", "expired"}
           /\ r \notin changed

\* Every wait ends: the request runs or is answered, unless its process dies.
WaitEnds ==
    \A r \in DOMAIN KeyOf :
        r \in Waiter /\ pc[r] = "asking" ~>
            (r \in Waiter => pc[r] \in {"running", "ended", "expired", "dead"})

=============================================================================
