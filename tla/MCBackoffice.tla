----------------------------- MODULE MCBackoffice -----------------------------
(* Instances of Backoffice for TLC. *)
EXTENDS Backoffice, TLC

CONSTANTS x, y, a1, a2, p1

\* Categories and sub-categories refer to each other, the others stand alone.
CatalogFamilies ==
    {{"category", "subCategory"}} \union
    {{k} : k \in {"brand", "tag", "type", "region", "orientation",
                  "intimateHair", "hairColor", "bodyType", "author",
                  "publisher"}}
ContentFamilies ==
    {{k} : k \in {"blog", "banner", "carousel", "profile", "coupon", "gallery",
                  "fileFolder", "discountPercent", "review", "report",
                  "verified", "division", "area", "zone", "additionalPage"}}
SingleFamilies ==
    {{k} : k \in {"type", "orientation", "intimateHair", "hairColor",
                  "bodyType"}}
AllFamilies == CatalogFamilies \union ContentFamilies

Way(serial, careful, reads, room, names) ==
    [serial |-> serial, careful |-> careful, reads |-> reads, room |-> room,
     names |-> names]
Careful == Way(TRUE, TRUE, FALSE, 4, {x})
Naming  == Way(TRUE, TRUE, FALSE, 3, Bases)
Rough   == Way(FALSE, FALSE, FALSE, 3, {x})
Paging  == Way(TRUE, FALSE, TRUE, 3, {x})
CarefulOnly == {Careful}
AllScenarios == {Careful, Naming, Rough, Paging}

Symmetry == Permutations(Admins)
===============================================================================
