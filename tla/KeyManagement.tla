--------------------------- MODULE KeyManagement ---------------------------
(***************************************************************************)
(* Everything that writes key rows: the single-key operations of           *)
(* KeyLifecycle, the clones of KeyClone and the batches of KeyBatch, on    *)
(* the same rows.  The transaction of a batch holds row locks over several *)
(* steps; everybody else who writes a locked row waits.                    *)
(***************************************************************************)
EXTENDS KeyClone, KeyBatch

ASSUME ManagementConstants ==
    \A n \in DOMAIN Load : Load[n].clones \subseteq Clones /\ Load[n].batches \subseteq Batches

keyVars == <<vars, plan, receipt, answer, batch, lock>>

KeysInit == LifecycleInit /\ CloneInit /\ BatchInit

SingleStep ==
    \/ \E k \in Managed :
          \/ lock[k] = None /\ (ConsoleStep(k) \/ CommandLineStep(k) \/ GatewayStep(k))
          \/ HandOver(k)
    \/ \E t \in Tasks :
          \/ \E k \in Managed : ReadStep(t, k)
          \/ task[t] # Idle /\ lock[task[t].key] = None /\ (Submit(t) \/ Refuse(t))
    \/ "clock" \in Operations /\ Tick

KeysNext ==
    /\ UNCHANGED load
    /\ \/ SingleStep /\ UNCHANGED <<plan, receipt, answer, batch, lock>>
       \/ \E o \in Load[load].clones : CloneStep(o) /\ UNCHANGED <<batch, lock>>
       \/ \E b \in Load[load].batches : BatchStep(b) /\ UNCHANGED <<plan, receipt, answer>>

KeysSpec == KeysInit /\ [][KeysNext]_keyVars

-----------------------------------------------------------------------------
\* What operators review binds: a clone is made once, with the settings that
\* were reviewed, and a batch moves all its keys from the reviewed states to
\* the reviewed target or none (KeyCloneService.execute, KeyBatchService.apply).
KeysAsReviewed == [][CloneAsReviewed /\ AppliedAsReviewed]_keyVars
=============================================================================
