---------------------------- MODULE MC_TxJob ----------------------------
(* Four transactions in a diamond: t4 spends t2 and t3, which both spend  *)
(* t1; every mix of already accepted ones, every single fault, and one    *)
(* restart of the node.                                                   *)
EXTENDS TxJob, TLC

CONSTANTS t1, t2, t3, t4

MCTxs == {t1, t2, t3, t4}
MCDeps == (t1 :> {} @@ t2 :> {t1} @@ t3 :> {t1} @@ t4 :> {t2, t3})
=============================================================================
