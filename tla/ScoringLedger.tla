---------------------------- MODULE ScoringLedger ----------------------------
(***************************************************************************)
(* What every cohort of episodes is promised, whatever collects or scores  *)
(* it: every episode gets one authoritative record, that record is never   *)
(* replaced, the cohort is closed only when every episode has one, and     *)
(* completed only after it is closed.  Two-worker Calibration scoring,     *)
(* Locked Test collection (raw artifacts) and Locked Test scoring          *)
(* (sidecars) implement it.                                                *)
(***************************************************************************)

CONSTANTS Episodes,  \* the manifest's episode ids
          Contents,  \* the identity (digest) of a record
          None       \* no record yet

VARIABLES score,  \* score[e]: the authoritative record of episode e
          phase   \* "open", "closed" (receipt over the records) or "complete"

ledgerVars == <<score, phase>>

LedgerInit == /\ score = [e \in Episodes |-> None]
              /\ phase = "open"

\* A record becomes authoritative where there was none.
PublishScore(e, content) ==
    /\ phase = "open"
    /\ score[e] = None
    /\ score' = [score EXCEPT ![e] = content]
    /\ UNCHANGED phase

\* The cohort is closed over a full set of records.
CloseCohort ==
    /\ phase = "open"
    /\ \A e \in Episodes : score[e] # None
    /\ phase' = "closed"
    /\ UNCHANGED score

\* What is made of the closed cohort exists.
CompleteCohort ==
    /\ phase = "closed"
    /\ phase' = "complete"
    /\ UNCHANGED score

LedgerNext == \/ \E e \in Episodes, content \in Contents : PublishScore(e, content)
              \/ CloseCohort
              \/ CompleteCohort

LedgerSpec == LedgerInit /\ [][LedgerNext]_ledgerVars

=============================================================================
