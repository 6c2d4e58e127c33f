---------------------------- MODULE MCRunReceipts ----------------------------
(***************************************************************************)
(* An instance of RunReceipts: a list that holds fewer receipts than there *)
(* are requests.                                                           *)
(***************************************************************************)
EXTENDS RunReceipts, TLC

CONSTANTS r1, r2, w1, w2
=============================================================================
