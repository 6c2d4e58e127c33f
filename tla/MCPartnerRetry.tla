--------------------------- MODULE MCPartnerRetry ---------------------------
(***************************************************************************)
(* Instances of PartnerRetry: one equipment command that needs an operator *)
(* and one promotion the boundary delivers at once.                        *)
(***************************************************************************)
EXTENDS PartnerRetry, TLC

CONSTANTS t1, w1, w2, promo, command

BothPayloads == {promo, command}
PromoOnly == {promo}
WorkerSymmetry == Permutations(Workers)
=============================================================================
