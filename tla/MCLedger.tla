------------------------------ MODULE MCLedger ------------------------------
(* Small instances of Ledger: two workers race on n1, a third may run on    *)
(* n2, which may keep its ledger on disk.                                   *)
EXTENDS Ledger, TLC

CONSTANTS n1, n2, w1, w2, w3, b1, k1, v1

HomeRace == w1 :> n1 @@ w2 :> n1 @@ w3 :> n2

EntriesOne == {k1 :> v1}
=============================================================================
