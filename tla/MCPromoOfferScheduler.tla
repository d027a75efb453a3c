------------------------ MODULE MCPromoOfferScheduler ------------------------
(* Instances of PromoOfferScheduler for TLC. *)
EXTENDS PromoOfferScheduler, TLC

Symmetry == Permutations(Offers) \union Permutations(JobIds)
              \union Permutations(Requests)
==============================================================================
