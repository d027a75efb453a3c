----------------------------- MODULE Collections -----------------------------
(***************************************************************************)
(* What the administration services of the catalog, the content pages and  *)
(* the addresses have in common.  Each keeps one collection through the     *)
(* same few protocols: a slug is looked up and then saved, a document is    *)
(* found and then set or deleted, references to a deleted document are     *)
(* handed to the read-only default.  The protocols are the actions of this *)
(* module; the modules that extend it say which handler follows which.     *)
(*                                                                         *)
(* Each action is the code from one database call to the next.  Ids are    *)
(* numbers in the order of creation, as ObjectIds are.                     *)
(***************************************************************************)
EXTENDS Naturals, FiniteSets, Sequences

CONSTANTS
    MaxDocs,    \* documents created in one behaviour
    Bases,      \* names, and the slugs made from them
    SaltMax,    \* getRandomInt(1, SaltMax) makes a slug different (100)
    MaxBatch,   \* documents in one insertMany
    Admins, Products,
    PageSize,   \* of a list that a client pages through
    Families,   \* sets of collections that refer to each other
    Scenarios,  \* how the administrators behave, see Scenario
    NoName, NoDoc

Ids  == 1..MaxDocs
Ids0 == 0..MaxDocs      \* 0: no document
Kinds == UNION Families
Slugs == [base: Bases \union {NoName}, salt: 0..SaltMax]
Plain(b) == [base |-> b, salt |-> 0]
NoSlug == Plain(NoName)

Doc == [kind: Kinds, slug: Slugs, name: Bases \union {NoName}, parent: Ids0,
        readOnly: BOOLEAN, at: Ids]

\* The fields of a form; an update leaves NoSlug, NoName and 0 alone.
Form == [slug: Slugs, name: Bases \union {NoName}, parent: Ids0,
         readOnly: BOOLEAN]
NoForm == [slug |-> NoSlug, name |-> NoName, parent |-> 0, readOnly |-> FALSE]

\* Products refer to documents of these collections, to several of the tags of
\* which one is followed.  The first three have a default to refer to when the
\* document is deleted.
HeirKinds == {"category", "subCategory", "brand"}
RefKinds == HeirKinds \union
    {"tag", "type", "orientation", "intimateHair", "hairColor", "bodyType",
     "author", "publisher", "division", "area", "zone"}

\* Collections with a slug in their schema, all under a unique index; what a
\* handler gives the others as a slug is not stored.
UniqueSlugKinds ==
    {"category", "subCategory", "brand", "tag", "type", "region",
     "orientation", "intimateHair", "hairColor", "bodyType", "author",
     "publisher", "blog", "banner", "fileFolder", "additionalPage"}

\* A scenario says how far the environment goes; it never changes.
Scenario ==
    [serial: BOOLEAN,   \* one call at a time
     careful: BOOLEAN,  \* no call fails, usage is checked, no import clears,
                        \* no bulk update renames, a form that may rename
                        \* has no slug of its own
     reads: BOOLEAN,    \* a client pages through the list
     room: Ids,         \* bounds the documents and the names in use
     names: SUBSET Bases]

ASSUME CollectionsAssumption ==
    /\ MaxDocs \in Nat \ {0}
    /\ SaltMax \in Nat \ {0}
    /\ MaxBatch \in Nat
    /\ PageSize \in Nat \ {0}
    /\ IsFiniteSet(Admins)
    /\ \A K \in Families :
          K # {} /\ ("subCategory" \in K => "category" \in K)
    /\ Scenarios \subseteq Scenario
    /\ NoName \notin Bases
    /\ NoDoc \notin Doc

\* Collections with a default are installed with it, see Seed: categories come
\* with their sub-categories, brands refer to no other collection.
ASSUME FamilyAssumption ==
    \A K \in Families :
       /\ "category" \in K => "subCategory" \in K /\ 2 \in Ids
       /\ "brand" \in K => K = {"brand"}

VARIABLES
    live, env,  \* chosen at the start: the family and the scenario
    docs,       \* the collections: id -> document, or NoDoc
    born,       \* ids given so far
    refs,       \* product -> the documents it refers to
    calls,      \* the administrators' calls
    reader      \* a client that reads the list page by page

vars == <<live, env, docs, born, refs, calls, reader>>
world == <<live, env>>

Pcs == {"idle", "save", "import", "check", "set", "delete", "heir",
        "heirSub", "moveSubs", "reset", "pull"}
Call == [pc: Pcs, kind: Kinds \union {"none"}, form: Form, ids: SUBSET Ids,
         doomed: SUBSET Ids, next: {"idle", "heir", "pull"},
         heir: Ids0, heirSub: Ids0]
Idle == [pc |-> "idle", kind |-> "none", form |-> NoForm, ids |-> {},
         doomed |-> {}, next |-> "idle", heir |-> 0, heirSub |-> 0]

\* slip: since the client opened the list a document was removed, or two had
\* the same creation time.
Reader == [state: {"closed", "open", "done"}, kind: Kinds \union {"none"},
           page: Nat, owed: SUBSET Ids, seen: SUBSET Ids, slip: BOOLEAN]
Closed == [state |-> "closed", kind |-> "none", page |-> 0, owed |-> {},
           seen |-> {}, slip |-> FALSE]

TypeOK ==
    /\ live \in Families
    /\ env \in Scenarios
    /\ docs \in [Ids -> Doc \union {NoDoc}]
    /\ born \in Ids0
    /\ refs \in [Products -> [RefKinds -> Ids0]]
    /\ calls \in [Admins -> Call]
    /\ reader \in Reader

(***************************************************************************)
(* The collections                                                         *)
(***************************************************************************)
Singletons(S) == {{i} : i \in S}
Exists(i) == i \in Ids /\ docs[i] # NoDoc
Of(k) == {i \in Ids : Exists(i) /\ docs[i].kind = k}
Parents(k) == IF k = "subCategory" THEN Of("category") ELSE {0}
Default(k) == {i \in Of(k) : docs[i].readOnly}

Stored(k, s) == IF k \in UniqueSlugKinds THEN s ELSE NoSlug
NewDoc(k, f, at) == [kind |-> k, slug |-> Stored(k, f.slug), name |-> f.name,
                     parent |-> f.parent, readOnly |-> f.readOnly, at |-> at]

\* Collections whose schema and handlers know a read-only default.  It is in
\* the database from the start: only a sub-category's form can make another.
DefaultKinds == {"category", "subCategory", "brand", "discountPercent"}
Seed(K) ==
    LET seed(k, i, p) == [kind |-> k, slug |-> NoSlug, name |-> NoName,
                          parent |-> p, readOnly |-> TRUE, at |-> i]
    IN  [i \in Ids |->
           CASE i = 1 /\ "category" \in K -> seed("category", 1, 0)
             [] i = 2 /\ "subCategory" \in K -> seed("subCategory", 2, 1)
             [] i = 1 /\ K \subseteq {"brand", "discountPercent"} ->
                    seed(CHOOSE k \in K : TRUE, 1, 0)
             [] OTHER -> NoDoc]

Init ==
    /\ live \in Families
    /\ env \in Scenarios
    /\ docs = Seed(live)
    /\ born = Cardinality({i \in Ids : Seed(live)[i] # NoDoc})
    /\ refs = [p \in Products |-> [k \in RefKinds |-> 0]]
    /\ calls = [a \in Admins |-> Idle]
    /\ reader = Closed

SlugTaken(k, s) == \E i \in Of(k) : docs[i].slug = s

\* The unique index does not let document i of collection k have slug s.
IndexRefuses(k, s, i) ==
    /\ k \in UniqueSlugKinds
    /\ s # NoSlug
    /\ \E j \in Of(k) \ {i} : docs[j].slug = s

\* Mutant of Salted: getRandomInt reaches one number too far.
SaltedTooFar(b) == {[base |-> b, salt |-> n] : n \in 1..(SaltMax + 1)}

\* transformToSlug(s, true)
Salted(b) == {[base |-> b, salt |-> n] : n \in 1..SaltMax}

\* Mutant of FinalSlugs: the findOne is forgotten.
FinalSlugsUnchecked(k, s) == {s}

\* The slug an add or an update goes on with after findOne({slug}).
FinalSlugs(k, s) == IF SlugTaken(k, s) THEN Salted(s.base) ELSE {s}

\* A client's list is disturbed by every removal.
Disturb(S) ==
    reader' = IF reader.state = "open" /\ \E i \in S : Exists(i)
              THEN [reader EXCEPT !.owed = @ \ S, !.slip = TRUE]
              ELSE reader

Remove(S) ==
    /\ docs' = [i \in Ids |-> IF i \in S THEN NoDoc ELSE docs[i]]
    /\ Disturb(S)

\* The form's fields that are given replace those of the document.
Filled(d, f) ==
    [d EXCEPT !.slug = IF f.slug = NoSlug THEN @ ELSE Stored(d.kind, f.slug),
              !.name = IF f.name = NoName THEN @ ELSE f.name,
              !.parent = IF f.parent = 0 THEN @ ELSE f.parent]

SetFields(S, f) ==
    docs' = [i \in Ids |-> IF i \in S /\ Exists(i) THEN Filled(docs[i], f)
                           ELSE docs[i]]

(***************************************************************************)
(* Calls                                                                   *)
(***************************************************************************)
Quiet == \A a \in Admins : calls[a] = Idle

MayCall(a, k) ==
    /\ k \in live
    /\ calls[a] = Idle
    /\ env.serial => Quiet

Goto(a, c) == calls' = [calls EXCEPT ![a] = c]
Respond(a) == calls' = [calls EXCEPT ![a] = Idle]

\* Ids not yet given nor kept for a call that is about to save.
Room == env.room - born
          - Cardinality({b \in Admins : calls[b].pc = "save"})

\* The forms administrators submit: with a slug of their own, with a name the
\* slug is made from, with a name only.
SlugForm(b, p, r) ==
    [NoForm EXCEPT !.slug = Plain(b), !.parent = p, !.readOnly = r]
ReadOnlys(k) == IF k = "subCategory" THEN BOOLEAN ELSE {FALSE}
SlugForms(k) == {SlugForm(b, p, r) : b \in env.names, p \in Parents(k),
                                     r \in ReadOnlys(k)}
NamedForms == {[NoForm EXCEPT !.slug = Plain(n), !.name = n] : n \in env.names}
NameForms == {[NoForm EXCEPT !.name = n] : n \in env.names}

(***************************************************************************)
(* Adding                                                                  *)
(***************************************************************************)
\* findOne({slug}), and another slug if it is taken; the save comes later.
AddCheckingSlug(a, k) ==
    /\ MayCall(a, k)
    /\ Room > 0
    /\ \E f \in SlugForms(k) : \E s \in FinalSlugs(k, f.slug) :
          Goto(a, [Idle EXCEPT !.pc = "save", !.kind = k,
                               !.form = [f EXCEPT !.slug = s]])
    /\ UNCHANGED <<world, docs, born, refs, reader>>

\* newData.save() of form f by call a, which then answers.
SaveForm(a, k, f) ==
    /\ IF IndexRefuses(k, f.slug, 0)
         THEN UNCHANGED <<docs, born>>
         ELSE /\ born' = born + 1
              /\ docs' = [docs EXCEPT ![born + 1] = NewDoc(k, f, born + 1)]
    /\ Respond(a)
    /\ UNCHANGED <<world, refs, reader>>

SaveDocument(a) ==
    /\ calls[a].pc = "save"
    /\ SaveForm(a, calls[a].kind, calls[a].form)

\* One save, of a form that needs no look at the collection.
AddAtOnce(a, k, forms) ==
    /\ MayCall(a, k)
    /\ Room > 0
    /\ \E f \in forms : SaveForm(a, k, f)

(***************************************************************************)
(* insertMany                                                              *)
(***************************************************************************)
\* insertMany is ordered: it stops at the first document the index refuses.
Clashes(k, batch, i) ==
    \/ IndexRefuses(k, batch[i].slug, 0)
    \/ /\ k \in UniqueSlugKinds
       /\ \E j \in 1..(i - 1) : batch[j].slug = batch[i].slug
Accepted(k, batch) ==
    Cardinality({n \in DOMAIN batch : \A i \in 1..n : ~Clashes(k, batch, i)})

\* The documents of a batch get their creation time in one go.
InsertBatch(a, k, forms) ==
    /\ \E m \in 0..MaxBatch : \E batch \in [1..m -> forms] :
          LET n == Accepted(k, batch) IN
          /\ m <= Room
          /\ docs' = [i \in Ids |-> IF i \in (born + 1)..(born + n)
                                    THEN NewDoc(k, batch[i - born], born + 1)
                                    ELSE docs[i]]
          /\ born' = born + n
    /\ Respond(a)
    /\ UNCHANGED <<world, refs, reader>>

\* deleteMany({}) if the option asks for it, whatever is read-only or in use.
ClearForImport(a, k) ==
    /\ MayCall(a, k)
    /\ ~env.careful
    /\ Remove(Of(k))
    /\ Goto(a, [Idle EXCEPT !.pc = "import", !.kind = k])
    /\ UNCHANGED <<world, born, refs>>

InsertMany(a, k, forms) ==
    \/ ClearForImport(a, k)
    \/ MayCall(a, k) /\ InsertBatch(a, k, forms)
    \/ /\ calls[a].pc = "import"
       /\ calls[a].kind = k
       /\ InsertBatch(a, k, forms)

(***************************************************************************)
(* Updating                                                                *)
(***************************************************************************)
\* findById; the slug is looked up only if the form has another one.
UpdateCheckingSlug(a, k) ==
    /\ MayCall(a, k)
    /\ \E i \in Of(k), s \in {Plain(b) : b \in env.names} \union {docs[i].slug :
                                                          i \in Of(k)} :
          Goto(a, [Idle EXCEPT !.pc = IF docs[i].slug = s THEN "set"
                                                          ELSE "check",
                               !.kind = k, !.ids = {i}, !.form.slug = s])
    /\ UNCHANGED <<world, docs, born, refs, reader>>

\* findOne({slug})
CheckSlug(a) ==
    LET c == calls[a] IN
    /\ c.pc = "check"
    /\ \E s \in FinalSlugs(c.kind, c.form.slug) :
          Goto(a, [c EXCEPT !.pc = "set", !.form.slug = s])
    /\ UNCHANGED <<world, docs, born, refs, reader>>

\* Mutant of SlugAfterRename: the slug of a renamed document is kept.
SlugAfterRenameKept(d, n, own) == {own}

\* A document renamed to n gets a slug made from n; if the form has no name or
\* the same one, it gets the form's own slug, which nobody looks up.
SlugAfterRename(d, n, own) ==
    IF n \in {NoName, d.name} THEN {own} ELSE Salted(n)

\* findById; a new name makes a new slug.
UpdateRenaming(a, k) ==
    /\ MayCall(a, k)
    /\ \E i \in Of(k), n \in env.names \union {NoName},
          own \in {NoSlug} \union {Plain(b) : b \in env.names} :
          /\ env.careful => own = NoSlug
          /\ \E s \in SlugAfterRename(docs[i], n, own) :
                Goto(a, [Idle EXCEPT !.pc = "set", !.kind = k, !.ids = {i},
                                     !.form.slug = s, !.form.name = n])
    /\ UNCHANGED <<world, docs, born, refs, reader>>

\* findById, for its 404 only.
UpdateFound(a, k) ==
    /\ MayCall(a, k)
    /\ \E i \in Of(k), n \in env.names :
          Goto(a, [Idle EXCEPT !.pc = "set", !.kind = k, !.ids = {i},
                               !.form.name = n])
    /\ UNCHANGED <<world, docs, born, refs, reader>>

\* findByIdAndUpdate(id, {$set}) of what is still there.
SetDocument(a) ==
    LET c == calls[a] IN
    /\ c.pc = "set"
    /\ \/ /\ \E i \in c.ids : IndexRefuses(c.kind, c.form.slug, i)
          /\ UNCHANGED docs
       \/ /\ \A i \in c.ids : ~IndexRefuses(c.kind, c.form.slug, i)
          /\ SetFields(c.ids, c.form)
    /\ Respond(a)
    /\ UNCHANGED <<world, born, refs, reader>>

\* findByIdAndUpdate or updateOne without a look before.
UpdateAtOnce(a, k) ==
    /\ MayCall(a, k)
    /\ \E i \in Of(k), f \in NameForms : SetFields({i}, f)
    /\ UNCHANGED <<world, born, refs, calls, reader>>

\* updateMany; where the handler drops the slug it changes the name only.
UpdateManyNames(a, k) ==
    /\ MayCall(a, k)
    /\ \E S \in SUBSET Of(k), n \in env.names \union {NoName} :
          /\ env.careful => n = NoName
          /\ SetFields(S, [NoForm EXCEPT !.name = n])
    /\ UNCHANGED <<world, born, refs, calls, reader>>

\* updateMany of documents whose names are not followed here: no effect.
UpdateManyElse(a, k) ==
    /\ MayCall(a, k)
    /\ UNCHANGED vars

\* updateMany with a slug: the first document gets it, if the index lets it,
\* and the second is refused.
UpdateManySlugs(a, k) ==
    /\ MayCall(a, k)
    /\ \E S \in SUBSET Of(k), b \in env.names : \E first \in S :
          /\ \A i \in S : first <= i
          /\ IF IndexRefuses(k, Plain(b), first)
               THEN UNCHANGED docs
               ELSE SetFields({first}, [NoForm EXCEPT !.slug = Plain(b)])
    /\ UNCHANGED <<world, born, refs, calls, reader>>

(***************************************************************************)
(* Deleting                                                                *)
(***************************************************************************)
\* findById; refused if missing or, where the handler asks, read-only.  Then
\* "next" says what follows the delete: products are handed to the default
\* ("heir"), an id is taken out of the products' lists ("pull"), or nothing.
DeleteFound(a, k, guarded, next) ==
    /\ MayCall(a, k)
    /\ \E i \in Of(k), checkUsage \in BOOLEAN :
          /\ guarded => ~docs[i].readOnly
          /\ env.careful => checkUsage
          /\ Goto(a, [Idle EXCEPT !.pc = "delete", !.kind = k, !.ids = {i},
                        !.doomed = {i},
                        !.next = IF checkUsage THEN next ELSE "idle"])
    /\ UNCHANGED <<world, docs, born, refs, reader>>

\* Mutant of Deletable: the filter lets read-only documents through.
DeletableAll(S) == S

\* find({_id: mIds}), without those that are read-only.
Deletable(S) == {i \in S : ~docs[i].readOnly}

DeleteManyFound(a, k, next) ==
    /\ MayCall(a, k)
    /\ \E S \in SUBSET Of(k), checkUsage \in BOOLEAN :
          /\ env.careful => checkUsage
          /\ Goto(a, [Idle EXCEPT !.pc = "delete", !.kind = k, !.ids = S,
                        !.doomed = Deletable(S),
                        !.next = IF checkUsage THEN next ELSE "idle"])
    /\ UNCHANGED <<world, docs, born, refs, reader>>

\* findByIdAndDelete(id) or deleteMany({_id: filteredIds})
DeleteDocuments(a) ==
    LET c == calls[a] IN
    /\ c.pc = "delete"
    /\ Remove(c.doomed)
    /\ Goto(a, IF c.next = "idle" THEN Idle ELSE [c EXCEPT !.pc = c.next])
    /\ UNCHANGED <<world, born, refs>>

\* deleteMany({_id: ids}), deleteOne or findOneAndDelete with no look before;
\* S is one of sets.
DeleteAtOnce(a, k, sets, next) ==
    /\ MayCall(a, k)
    /\ \E S \in sets, checkUsage \in BOOLEAN :
          /\ env.careful => checkUsage
          /\ Remove(S)
          /\ Goto(a, IF checkUsage /\ next # "idle"
                       THEN [Idle EXCEPT !.pc = next, !.kind = k, !.ids = S]
                       ELSE Idle)
    /\ UNCHANGED <<world, born, refs>>

\* productModel.updateMany({}, {$pull: {tags: id}}).  A tag of a product is a
\* document with an id; whether an id alone takes it out of the list is up to
\* the driver.  The other services pull from types, hairColors and so on, which
\* no product has: a product has one type and one hairColor.
PullFromProducts(a) ==
    LET c == calls[a] IN
    /\ c.pc = "pull"
    /\ \/ UNCHANGED refs
       \/ /\ c.kind = "tag"
          /\ refs' = [p \in Products |->
                        IF refs[p].tag \in c.ids
                          THEN [refs[p] EXCEPT !.tag = 0] ELSE refs[p]]
    /\ Respond(a)
    /\ UNCHANGED <<world, docs, born, reader>>

\* Handing over: findOne({readOnly: true}); without a default the handler
\* throws, the documents being gone.
FindHeir(a) ==
    LET c == calls[a] IN
    /\ c.pc = "heir"
    /\ \/ Default(c.kind) = {} /\ Respond(a)
       \/ \E h \in Default(c.kind) :
             Goto(a, [c EXCEPT !.heir = h, !.pc = IF c.kind = "category"
                                                  THEN "heirSub" ELSE "reset"])
    /\ UNCHANGED <<world, docs, born, refs, reader>>

\* The default category's sub-category, any of them.
FindHeirSub(a) ==
    LET c == calls[a]
        subs == {i \in Of("subCategory") : docs[i].parent = c.heir}
    IN
    /\ c.pc = "heirSub"
    /\ \/ subs = {} /\ Respond(a)
       \/ \E h \in subs : Goto(a, [c EXCEPT !.heirSub = h, !.pc = "moveSubs"])
    /\ UNCHANGED <<world, docs, born, refs, reader>>

\* Mutant of Orphans: the sub-categories are forgotten.
OrphansForgotten(c) == {}

\* The sub-categories to move: of all requested categories, the read-only
\* ones that stay included.
Orphans(c) == {i \in Of("subCategory") : docs[i].parent \in c.ids}

MoveSubCategories(a) ==
    LET c == calls[a] IN
    /\ c.pc = "moveSubs"
    /\ SetFields(Orphans(c), [NoForm EXCEPT !.parent = c.heir])
    /\ Goto(a, [c EXCEPT !.pc = "reset"])
    /\ UNCHANGED <<world, born, refs, reader>>

\* productModel.updateMany({'<kind>._id': ids}, {$set: the default}); products
\* refer to no discount percent, so that one changes nothing.
HandedOver(c, r) ==
    IF c.kind \in HeirKinds /\ r[c.kind] \in c.ids
      THEN [r EXCEPT ![c.kind] = c.heir,
                     !["subCategory"] = IF c.kind = "category" THEN c.heirSub
                                        ELSE IF c.kind = "subCategory"
                                        THEN c.heir ELSE @]
      ELSE r

ResetProducts(a) ==
    LET c == calls[a] IN
    /\ c.pc = "reset"
    /\ refs' = [p \in Products |-> HandedOver(c, refs[p])]
    /\ Respond(a)
    /\ UNCHANGED <<world, docs, born, reader>>

\* A database call fails: the handler answers 500 and does no more.
CallFails(a) ==
    /\ ~env.careful
    /\ calls[a] # Idle
    /\ Respond(a)
    /\ UNCHANGED <<world, docs, born, refs, reader>>

\* What every handler goes on with after its first database call.
Continue(a) ==
    \/ SaveDocument(a)
    \/ CheckSlug(a)
    \/ SetDocument(a)
    \/ DeleteDocuments(a)
    \/ PullFromProducts(a)
    \/ FindHeir(a)
    \/ FindHeirSub(a)
    \/ MoveSubCategories(a)
    \/ ResetProducts(a)
    \/ CallFails(a)

(***************************************************************************)
(* Products and readers                                                    *)
(***************************************************************************)
\* A product is saved with what its form offers: documents that exist.
SaveProduct(p) ==
    /\ env.serial => Quiet
    /\ \/ \E c \in Of("category"), s \in Of("subCategory") :
             refs' = [refs EXCEPT ![p].category = c, ![p].subCategory = s]
       \/ \E k \in live \intersect (RefKinds \ {"category", "subCategory"}) :
             \E i \in Of(k) : refs' = [refs EXCEPT ![p][k] = i]
    /\ UNCHANGED <<world, docs, born, calls, reader>>

\* The list of a collection; a sub-category whose category is gone falls out
\* of the page in the $unwind of the lookup.
Listed(k) == {i \in Of(k) : k = "subCategory" => Exists(docs[i].parent)}

\* $sort {createdAt: -1}; documents created together come in any order.
Orders(S) ==
    {o \in [1..Cardinality(S) -> S] :
        \A i, j \in DOMAIN o : i < j => /\ o[i] # o[j]
                                        /\ docs[o[i]].at >= docs[o[j]].at}

\* Mutant of PageOf: the first page is number 1.
PageOfFromOne(o, n) ==
    {o[i] : i \in {j \in DOMAIN o : /\ j > PageSize * (n + 1)
                                   /\ j <= PageSize * (n + 2)}}

\* $skip pageSize * currentPage, $limit pageSize
PageOf(o, n) ==
    {o[i] : i \in {j \in DOMAIN o : /\ j > PageSize * n
                                   /\ j <= PageSize * (n + 1)}}

\* The client asks for one page after the other until the count is reached.
GetAll(k) ==
    LET first == reader.state = "closed"
        n == IF first THEN 0 ELSE reader.page
    IN
    /\ k \in live
    /\ env.reads
    /\ reader.state # "done"
    /\ \E o \in Orders(Of(k)) :
          reader' = [reader EXCEPT
              !.state = IF PageSize * (n + 1) >= Len(o) THEN "done" ELSE "open",
              !.page = n + 1,
              !.owed = IF first THEN Listed(k) ELSE @,
              !.seen = @ \union (PageOf(o, n) \intersect Listed(k)),
              !.slip = @ \/ \E i, j \in Of(k) :
                               i # j /\ docs[i].at = docs[j].at,
              !.kind = k]
    /\ IF first THEN TRUE ELSE reader.kind = k
    /\ UNCHANGED <<world, docs, born, refs, calls>>
=============================================================================
