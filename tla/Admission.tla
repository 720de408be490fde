------------------------------ MODULE Admission ------------------------------
(***************************************************************************)
(* The admission of a request by Redis: the limiter itself, and the wait   *)
(* of those it denies.  The workload says which of the two is looked at.   *)
(***************************************************************************)
EXTENDS RateLimiter, LazyAdmission

AdmissionInit ==
    /\ Init
    /\ LazyInit
    /\ load # "limiter" => failClosed = ~FailOpen

AdmissionNext ==
    /\ \/ load = "limiter" /\ Next /\ UNCHANGED lazyVars
       \/ load # "limiter" /\ LazyNext /\ UNCHANGED vars
    /\ UNCHANGED load

AdmissionSpec ==
    AdmissionInit /\ [][AdmissionNext]_<<vars, lazyVars, load>> /\ LazyFairness

=============================================================================
