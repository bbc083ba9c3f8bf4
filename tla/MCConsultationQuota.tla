------------------------- MODULE MCConsultationQuota -------------------------
(* TLC instance of ConsultationQuota: requests are interchangeable.        *)
EXTENDS ConsultationQuota, TLC

Symmetry == Permutations(Requests)
=============================================================================
