---------------------------- MODULE LedgerBudget ----------------------------
(***************************************************************************)
(* QuotaLedger as an implementation of KeyBudget: what the rows of a       *)
(* request and the counters of a key stand for.                            *)
(***************************************************************************)
EXTENDS QuotaLedger

\* What the status of a reservation says of its request
Phase(r) ==
    CASE resv[r].status = "none" -> "new"
      [] resv[r].status = "pending" -> "open"
      [] resv[r].status = "finalized" -> "charged"
      [] OTHER -> "returned"

Budget == INSTANCE KeyBudget WITH
    phase <- [r \in Request |-> Phase(r)],
    hold <- [r \in Request |-> resv[r].amount],
    cost <- [r \in Request |-> IF resv[r].status = "finalized"
                               THEN ledger[r].actual ELSE Zero],
    alone <- [r \in Request |-> resv[r].fenced],
    forgotten <- cleared,
    waived <- drift,
    Sum <- Total

\* The counters, fences and rows of the database keep the promise of a plain
\* budget: a request is admitted only if what it takes fits beside everything
\* that is open or charged, a hosted one has its key to itself, and each ends
\* once, though no transaction looks at the other requests of a key
\* (QuotaService, AccountingService, ExternalToolFenceService).
KeepsBudget == Budget!BudgetSpec

=============================================================================
