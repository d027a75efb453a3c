------------------------------ MODULE Backoffice ------------------------------
(***************************************************************************)
(* The administration of the catalog, the content pages and the addresses: *)
(* the services together, the products that refer to them and a client     *)
(* that reads their lists.                                                 *)
(***************************************************************************)
EXTENDS CatalogServices, ContentServices

Next ==
    \/ \E a \in Admins : CatalogNext(a) \/ ContentNext(a) \/ Continue(a)
    \/ \E p \in Products : SaveProduct(p)

Spec == Init /\ [][Next]_vars

\* The collections whose updates make a slug of a new name and store it.
RenamingKinds == {"brand", "fileFolder"}

\* Administrators who work carefully leave no product with a category, a
\* sub-category or a brand that is gone, and no sub-category without its
\* category, once each call has answered: deleteCategoryById,
\* deleteSubCategoryById, deleteBrandById and the bulk deletes hand these
\* references over in up to five calls.  The other references of a product are
\* handed to nobody, see UsageReset.
ReferencesLive ==
    env.careful /\ env.serial /\ Quiet =>
        /\ \A p \in Products, k \in HeirKinds :
              refs[p][k] # 0 => refs[p][k] \in Of(k)
        /\ \A i \in Of("subCategory") : docs[i].parent \in Of("category")

\* A read-only default leaves the collection in an import that clears it and
\* in no other way, however calls overlap or fail: deleteCategoryById and the
\* bulk deletes check readOnly some calls before they delete.
DefaultKept ==
    [][\A i \in Ids :
          /\ Exists(i) /\ docs[i].kind \in DefaultKinds /\ docs[i].readOnly
          /\ docs'[i] = NoDoc
          => \E a \in Admins :
                 calls[a].pc = "idle" /\ calls'[a].pc = "import"]_vars

\* Without overlapping calls, a slug that findOne({slug}) did not find is still
\* free when addTag and its like save it, or updateTagById and its like set it:
\* the unique index can refuse only a slug that got a random number.  Brands
\* and folders are left out: their updates look for no slug.
RefusedByChanceOnly ==
    env.serial =>
        \A a \in Admins :
            LET c == calls[a] IN
            c.pc \in {"save", "set"} /\ c.kind \notin RenamingKinds
                /\ IndexRefuses(c.kind, c.form.slug,
                                IF c.pc = "set" THEN CHOOSE i \in c.ids : TRUE
                                                ELSE 0)
            => c.form.slug.salt # 0

\* As long as no form has a slug of its own, the slug of a brand or a folder is
\* made from its present name: updateBrandById and updateFileFolderById make a
\* new one for a new name, from a document they read one call earlier.
SlugFollowsName ==
    env.careful /\ env.serial =>
        \A i \in Ids :
            Exists(i) /\ docs[i].kind \in RenamingKinds
                => docs[i].slug.base = docs[i].name

\* "Reset Product HairColor Reference", says deleteHairColorById of what it does
\* if usage is checked, and so do the services of types, orientations, intimate
\* hair and body types: no product refers to what is gone.
UsageReset ==
    env.careful /\ env.serial /\ Quiet =>
        \A p \in Products, k \in {"type", "orientation", "intimateHair",
                                 "hairColor", "bodyType"} :
            refs[p][k] # 0 => refs[p][k] \in Of(k)

\* A client that pages through a list sees every document that was there from
\* the first page to the last, unless some document was deleted meanwhile or
\* an import gave several the same creation time.
PagingMissesNothing ==
    reader.state = "done" /\ ~reader.slip => reader.owed \subseteq reader.seen
=============================================================================
