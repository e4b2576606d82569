----------------------------- MODULE JobLedger -----------------------------
(***************************************************************************)
(* What a caller of goroutine_pool may rely on, whatever the goroutines of *)
(* the pool do: a job is accepted at most once and only while the flow is  *)
(* open, an accepted job is processed at most once and is never given      *)
(* back, and the flow is closed at most once.                              *)
(***************************************************************************)
CONSTANT Jobs

VARIABLES status,   \* the life of each job as a caller sees it
          open      \* whether the flow still accepts jobs

ledgerVars == <<status, open>>

LedgerInit == /\ status = [j \in Jobs |-> "new"]
              /\ open = TRUE

Accept(j) == /\ open
             /\ status[j] = "new"
             /\ status' = [status EXCEPT ![j] = "accepted"]
             /\ open' = open

Process(j) == /\ status[j] = "accepted"
              /\ status' = [status EXCEPT ![j] = "played"]
              /\ open' = open

CloseBooks == /\ open
              /\ open' = FALSE
              /\ status' = status

LedgerNext == \/ \E j \in Jobs : Accept(j) \/ Process(j)
              \/ CloseBooks

LedgerSpec == LedgerInit /\ [][LedgerNext]_ledgerVars
=============================================================================
