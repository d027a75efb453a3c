--------------------------- MODULE Backoffice_proofs ---------------------------
(***************************************************************************)
(* Proofs about Backoffice, for every set of administrators, names and     *)
(* products, every number of documents and every scenario: types and       *)
(* read-only defaults, slugs that follow names, slugs that are unique,     *)
(* references that are live, pages that miss nothing.                      *)
(***************************************************************************)
EXTENDS Backoffice, FiniteSetTheorems, TLAPS

(***************************************************************************)
(* The inductive invariant                                                 *)
(***************************************************************************)
\* No document of S is a read-only default, and all of S have existed.
Spared(S) ==
    \A i \in S : /\ i <= born
                 /\ Exists(i) => ~(/\ docs[i].readOnly
                                   /\ docs[i].kind \in DefaultKinds)

\* A call that will save knows its collection; one that will delete has left
\* the defaults out.
Fits(c) ==
    /\ c.pc = "save" => c.kind \in Kinds
    /\ c.pc = "delete" => Spared(c.doomed)

CallsFit == \A a \in Admins : Fits(calls[a])

\* Ids are given in order, and each call about to save has one left.
Fresh == \A i \in Ids : i > born => docs[i] = NoDoc
Savers == {a \in Admins : calls[a].pc = "save"}
RoomLeft == born + Cardinality(Savers) <= MaxDocs

BackInv == TypeOK /\ CallsFit /\ Fresh /\ RoomLeft

\* What a step may not do to a read-only default, see DefaultKept.
KeepsDefaults ==
    \A i \in Ids :
        /\ Exists(i) /\ docs[i].kind \in DefaultKinds /\ docs[i].readOnly
        /\ docs'[i] = NoDoc
        => \E a \in Admins : calls[a].pc = "idle" /\ calls'[a].pc = "import"

Safe == BackInv' /\ KeepsDefaults

(***************************************************************************)
(* Data                                                                    *)
(***************************************************************************)
\* The empty form and the idle call.
LEMMA NoFormType == NoForm \in Form /\ NoSlug \in Slugs
BY CollectionsAssumption DEF Ids0, NoForm, Form, NoSlug, Plain, Slugs

\* A call that is none.
LEMMA IdleType == Idle \in Call /\ Idle.pc = "idle"
BY CollectionsAssumption, NoFormType DEF Idle, Call, Pcs, Ids, Ids0

\* Slugs made from names.
LEMMA SlugTypes ==
    /\ \A b \in Bases \union {NoName} : Plain(b) \in Slugs
    /\ \A b \in Bases \union {NoName} : Salted(b) \subseteq Slugs
    /\ \A k, s : s \in Slugs => FinalSlugs(k, s) \subseteq Slugs
BY CollectionsAssumption DEF Plain, Slugs, Salted, FinalSlugs

\* What SlugForms and its like offer are forms, in a scenario's names.
LEMMA FormTypes ==
    ASSUME TypeOK
    PROVE  /\ env.names \subseteq Bases
           /\ NamedForms \subseteq Form
           /\ NameForms \subseteq Form
           /\ \A k : SlugForms(k) \subseteq Form
<1>1. env.names \subseteq Bases
  BY CollectionsAssumption DEF TypeOK, Scenario
<1>2. ASSUME NEW f \in NamedForms PROVE f \in Form
  <2>1. PICK n \in env.names :
            f = [NoForm EXCEPT !.slug = Plain(n), !.name = n]
    BY DEF NamedForms
  <2>2. n \in Bases /\ Plain(n) \in Slugs
    BY <1>1, SlugTypes
  <2> QED BY <2>1, <2>2, NoFormType DEF Form
<1>3. ASSUME NEW f \in NameForms PROVE f \in Form
  <2>1. PICK n \in env.names : f = [NoForm EXCEPT !.name = n]
    BY DEF NameForms
  <2> QED BY <1>1, <2>1, NoFormType DEF Form
<1>4. ASSUME NEW k, NEW f \in SlugForms(k) PROVE f \in Form
  <2>1. PICK b \in env.names, q \in Parents(k), r \in ReadOnlys(k) :
            f = SlugForm(b, q, r)
    BY DEF SlugForms
  <2>2. r \in BOOLEAN
    BY DEF ReadOnlys
  <2>3. q \in Ids0
    BY CollectionsAssumption DEF Parents, Of, Ids0, Ids
  <2>4. Plain(b) \in Slugs
    BY <1>1, SlugTypes
  <2> QED BY <2>1, <2>2, <2>3, <2>4, NoFormType DEF SlugForm, Form
<1> QED BY <1>1, <1>2, <1>3, <1>4

\* A form and an update make documents, and an update does not touch what is
\* read-only.
LEMMA DocTypes ==
    /\ \A k \in Kinds, f \in Form, at \in Ids : NewDoc(k, f, at) \in Doc
    /\ \A d \in Doc, f \in Form : /\ Filled(d, f) \in Doc
                                  /\ Filled(d, f).kind = d.kind
                                  /\ Filled(d, f).readOnly = d.readOnly
    /\ NoDoc \notin Doc
<1>1. ASSUME NEW k \in Kinds, NEW f \in Form, NEW at \in Ids
      PROVE  NewDoc(k, f, at) \in Doc
  BY NoFormType DEF NewDoc, Stored, Doc, Form
<1>2. ASSUME NEW d \in Doc, NEW f \in Form
      PROVE  /\ Filled(d, f) \in Doc
             /\ Filled(d, f).kind = d.kind
             /\ Filled(d, f).readOnly = d.readOnly
  <2>1. Stored(d.kind, f.slug) \in Slugs
    BY NoFormType DEF Stored, Form
  <2> QED BY <2>1 DEF Doc, Form, Filled
<1>3. NoDoc \notin Doc
  BY CollectionsAssumption
<1> QED BY <1>1, <1>2, <1>3

(***************************************************************************)
(* Steps: what they leave of the invariant                                 *)
(***************************************************************************)
\* A call of a goes on as a call that fits.
CallStep(a) == \E c \in Call : Fits(c) /\ calls' = [calls EXCEPT ![a] = c]

\* Documents only go, or change what is not looked at here.
Mild ==
    \A i \in Ids :
        i <= born /\ docs'[i] # NoDoc =>
            /\ docs[i] # NoDoc
            /\ docs'[i].kind = docs[i].kind
            /\ docs'[i].readOnly = docs[i].readOnly

\* The documents after a step.
DocsStep ==
    /\ docs' \in [Ids -> Doc \union {NoDoc}]
    /\ born' \in Nat
    /\ born <= born'
    /\ Mild
    /\ \A i \in Ids : i > born' => docs'[i] = NoDoc

\* What fits a call fits it after a step of the documents.
LEMMA FitsStays ==
    ASSUME BackInv, DocsStep, NEW c \in Call, Fits(c)
    PROVE  Fits(c)'
<1>1. c.doomed \subseteq Ids
  BY DEF Call
<1>2. ASSUME Spared(c.doomed) PROVE Spared(c.doomed)'
  <2> SUFFICES ASSUME NEW i \in c.doomed
               PROVE  /\ i <= born'
                      /\ Exists(i)' => ~(docs'[i].readOnly
                                           /\ docs'[i].kind \in DefaultKinds)
    BY DEF Spared
  <2>1. i <= born /\ i \in Nat /\ born \in Nat
    BY <1>1, <1>2, CollectionsAssumption
       DEF Spared, BackInv, TypeOK, Ids, Ids0
  <2> QED BY <1>1, <1>2, <2>1 DEF Spared, DocsStep, Mild, Exists
<1> QED BY <1>2 DEF Fits

\* The number of calls that are about to save.
LEMMA SaversCount ==
    ASSUME BackInv, NEW a \in Admins, CallStep(a)
    PROVE  /\ Cardinality(Savers) \in Nat
           /\ Cardinality(Savers') \in Nat
           /\ Cardinality(Savers') <= Cardinality(Savers) + 1
           /\ calls'[a].pc # "save" =>
                  Cardinality(Savers') <= Cardinality(Savers)
           /\ calls'[a].pc # "save" /\ calls[a].pc = "save" =>
                  Cardinality(Savers') = Cardinality(Savers) - 1
<1>1. IsFiniteSet(Savers) /\ IsFiniteSet(Savers')
  BY CollectionsAssumption, FS_Subset DEF Savers
<1>2. \A b \in Admins : b # a => calls'[b] = calls[b]
  BY DEF CallStep, BackInv, TypeOK
<1>3. Cardinality(Savers) \in Nat /\ Cardinality(Savers') \in Nat
  BY <1>1, FS_CardinalityType
<1>4. Savers' \subseteq Savers \union {a}
  BY <1>2 DEF Savers
<1>5. /\ IsFiniteSet(Savers \union {a})
      /\ Cardinality(Savers \union {a}) <= Cardinality(Savers) + 1
  <2>1. /\ IsFiniteSet(Savers \union {a})
        /\ \/ Cardinality(Savers \union {a}) = Cardinality(Savers)
           \/ Cardinality(Savers \union {a}) = Cardinality(Savers) + 1
    BY <1>1, FS_AddElement
  <2> QED BY <1>3, <2>1
<1>6. Cardinality(Savers') <= Cardinality(Savers) + 1
  <2>1. Cardinality(Savers') <= Cardinality(Savers \union {a})
    BY <1>4, <1>5, FS_Subset
  <2>2. Cardinality(Savers \union {a}) \in Nat
    BY <1>5, FS_CardinalityType
  <2> QED BY <1>3, <1>5, <2>1, <2>2
<1>7. ASSUME calls'[a].pc # "save"
      PROVE  Cardinality(Savers') <= Cardinality(Savers)
  <2>1. Savers' \subseteq Savers
    BY <1>2, <1>7 DEF Savers
  <2> QED BY <1>1, <2>1, FS_Subset
<1>8. ASSUME calls'[a].pc # "save", calls[a].pc = "save"
      PROVE  Cardinality(Savers') = Cardinality(Savers) - 1
  <2>1. Savers' = Savers \ {a} /\ a \in Savers
    BY <1>2, <1>8 DEF Savers
  <2> QED BY <1>1, <2>1, FS_RemoveElement
<1> QED BY <1>3, <1>6, <1>7, <1>8

\* The parts together.
LEMMA StepKeeps ==
    ASSUME BackInv, NEW a \in Admins, CallStep(a), DocsStep,
           UNCHANGED world,
           refs' \in [Products -> [RefKinds -> Ids0]], reader' \in Reader,
           born' + Cardinality(Savers') <= MaxDocs
    PROVE  BackInv'
<1>1. PICK c \in Call : Fits(c) /\ calls' = [calls EXCEPT ![a] = c]
  BY DEF CallStep
<1>2. calls' \in [Admins -> Call]
  BY <1>1 DEF BackInv, TypeOK
<1>3. born' \in Ids0
  BY SaversCount, CollectionsAssumption DEF DocsStep, Ids0
<1>4. TypeOK'
  BY <1>2, <1>3 DEF BackInv, TypeOK, DocsStep, world
<1>5. CallsFit'
  <2> SUFFICES ASSUME NEW b \in Admins PROVE Fits(calls[b])'
    BY DEF CallsFit
  <2>1. CASE b = a
    <3>1. Fits(c)'
      BY <1>1, FitsStays
    <3>2. calls'[a] = c
      BY <1>1 DEF BackInv, TypeOK
    <3> QED BY <2>1, <3>1, <3>2 DEF Fits, Spared
  <2>2. CASE b # a
    <3>1. PICK d \in Call : d = calls[b]
      BY DEF BackInv, TypeOK
    <3>2. Fits(d)'
      BY <3>1, FitsStays DEF BackInv, CallsFit
    <3>3. calls'[b] = d
      BY <1>1, <2>2, <3>1 DEF BackInv, TypeOK
    <3> QED BY <3>2, <3>3 DEF Fits, Spared
  <2> QED BY <2>1, <2>2
<1>6. Fresh' /\ RoomLeft'
  BY DEF Fresh, RoomLeft, DocsStep, Exists
<1> QED BY <1>4, <1>5, <1>6 DEF BackInv

(***************************************************************************)
(* Steps: one lemma for each thing a handler may do                        *)
(***************************************************************************)
\* The documents stay.
LEMMA DocsStay ==
    ASSUME BackInv, UNCHANGED <<docs, born>>
    PROVE  DocsStep /\ KeepsDefaults
<1>1. born \in Nat
  BY CollectionsAssumption DEF BackInv, TypeOK, Ids0
<1>2. DocsStep
  BY <1>1 DEF BackInv, TypeOK, DocsStep, Mild, Fresh
<1>3. KeepsDefaults
  BY DEF KeepsDefaults, Exists
<1> QED BY <1>2, <1>3

\* A call goes on and nothing else changes, except what products refer to.
LEMMA TalkStep ==
    ASSUME BackInv, NEW a \in Admins, CallStep(a),
           calls'[a].pc = "save" => Room > 0,
           UNCHANGED <<world, docs, born, reader>>,
           refs' \in [Products -> [RefKinds -> Ids0]]
    PROVE  Safe
<1>1. DocsStep /\ KeepsDefaults
  BY DocsStay
<1>2. reader' \in Reader
  BY DEF BackInv, TypeOK
<1>3. born \in Nat /\ env.room \in Nat /\ env.room <= MaxDocs
  BY CollectionsAssumption
     DEF BackInv, TypeOK, Scenario, Ids, Ids0
<1>4. born' + Cardinality(Savers') <= MaxDocs
  <2>1. CASE calls'[a].pc = "save"
    <3>1. Room = env.room - born - Cardinality(Savers)
      BY DEF Room, Savers
    <3> QED BY <1>3, <2>1, <3>1, SaversCount, CollectionsAssumption
  <2>2. CASE calls'[a].pc # "save"
    BY <1>3, <2>2, SaversCount, CollectionsAssumption DEF BackInv, RoomLeft
  <2> QED BY <2>1, <2>2
<1>5. UNCHANGED world
  BY DEF world
<1> QED BY <1>1, <1>2, <1>4, <1>5, StepKeeps DEF Safe

\* No call and no document changes.
LEMMA QuietStep ==
    ASSUME BackInv, UNCHANGED <<world, docs, born, calls>>,
           refs' \in [Products -> [RefKinds -> Ids0]], reader' \in Reader
    PROVE  Safe
<1>1. TypeOK' /\ CallsFit' /\ Fresh' /\ RoomLeft'
  BY DEF BackInv, TypeOK, CallsFit, Fits, Spared, Exists, Fresh, RoomLeft,
         Savers, world
<1>2. KeepsDefaults
  BY DEF KeepsDefaults, Exists
<1> QED BY <1>1, <1>2 DEF Safe, BackInv

\* An administrator without a call may be taken to go on with none.
LEMMA NoCallStep ==
    ASSUME BackInv, NEW a \in Admins, calls[a] = Idle, UNCHANGED calls
    PROVE  CallStep(a) /\ calls'[a].pc # "save"
<1>1. Fits(Idle)
  BY IdleType DEF Fits, Idle
<1>2. calls' = [calls EXCEPT ![a] = Idle]
  BY DEF BackInv, TypeOK
<1> QED BY <1>1, <1>2, IdleType DEF CallStep

\* An answered call.
LEMMA RespondStep ==
    ASSUME BackInv, NEW a \in Admins, Respond(a)
    PROVE  CallStep(a) /\ calls'[a] = Idle /\ calls'[a].pc # "save"
<1>1. Fits(Idle)
  BY IdleType DEF Fits, Idle
<1> QED BY <1>1, IdleType DEF Respond, CallStep, BackInv, TypeOK

\* A call that goes on to c.
LEMMA GotoStep ==
    ASSUME BackInv, NEW a \in Admins, NEW c \in Call, Fits(c), Goto(a, c)
    PROVE  CallStep(a) /\ calls'[a] = c
BY DEF Goto, CallStep, BackInv, TypeOK

\* Fields are set.
LEMMA SetStep ==
    ASSUME BackInv, NEW a \in Admins, CallStep(a), calls'[a].pc # "save",
           NEW S \in SUBSET Ids, NEW f \in Form, SetFields(S, f),
           UNCHANGED <<world, born, refs, reader>>
    PROVE  Safe
<1>1. \A i \in Ids : /\ docs'[i] = NoDoc <=> docs[i] = NoDoc
                     /\ docs[i] # NoDoc =>
                            /\ docs'[i] \in Doc
                            /\ docs'[i].kind = docs[i].kind
                            /\ docs'[i].readOnly = docs[i].readOnly
  BY DocTypes DEF SetFields, Exists, BackInv, TypeOK
<1>2. docs' \in [Ids -> Doc \union {NoDoc}]
  BY <1>1 DEF SetFields
<1>3. born \in Nat
  BY CollectionsAssumption DEF BackInv, TypeOK, Ids0
<1>4. DocsStep
  BY <1>1, <1>2, <1>3 DEF DocsStep, Mild, BackInv, Fresh
<1>5. KeepsDefaults
  BY <1>1 DEF KeepsDefaults, Exists
<1>6. born' + Cardinality(Savers') <= MaxDocs
  BY <1>3, SaversCount, CollectionsAssumption DEF BackInv, RoomLeft
<1>7. /\ UNCHANGED world
      /\ refs' \in [Products -> [RefKinds -> Ids0]]
      /\ reader' \in Reader
  BY DEF world, BackInv, TypeOK
<1> QED BY <1>4, <1>5, <1>6, <1>7, StepKeeps DEF Safe

\* Documents are removed, none of them a default, or for an import.
LEMMA RemoveStep ==
    ASSUME BackInv, NEW a \in Admins, CallStep(a), calls'[a].pc # "save",
           NEW S \in SUBSET Ids, Remove(S),
           \/ Spared(S)
           \/ calls[a].pc = "idle" /\ calls'[a].pc = "import",
           UNCHANGED <<world, born, refs>>
    PROVE  Safe
<1>1. born \in Nat
  BY CollectionsAssumption DEF BackInv, TypeOK, Ids0
<1>2. docs' = [i \in Ids |-> IF i \in S THEN NoDoc ELSE docs[i]]
  BY DEF Remove
<1>3. DocsStep
  BY <1>1, <1>2 DEF DocsStep, Mild, BackInv, Fresh, TypeOK
<1>4. KeepsDefaults
  BY <1>2 DEF KeepsDefaults, Exists, Spared
<1>5. reader' \in Reader
  <2>1. reader \in Reader
    BY DEF BackInv, TypeOK
  <2>2. [reader EXCEPT !.owed = @ \ S, !.slip = TRUE] \in Reader
    BY <2>1 DEF Reader
  <2> QED BY <2>1, <2>2 DEF Remove, Disturb
<1>6. born' + Cardinality(Savers') <= MaxDocs
  BY <1>1, SaversCount, CollectionsAssumption DEF BackInv, RoomLeft
<1>7. /\ UNCHANGED world
      /\ refs' \in [Products -> [RefKinds -> Ids0]]
  BY DEF world, BackInv, TypeOK
<1> QED BY <1>3, <1>4, <1>5, <1>6, <1>7, StepKeeps DEF Safe

\* Documents get the next ids.
LEMMA NewDocs ==
    ASSUME BackInv, NEW n \in Nat, born' = born + n,
           docs' \in [Ids -> Doc \union {NoDoc}],
           \A i \in Ids : i \notin (born + 1)..(born + n) => docs'[i] = docs[i]
    PROVE  DocsStep /\ KeepsDefaults
<1>1. born \in Nat /\ \A i \in Ids : i \in Nat
  BY CollectionsAssumption DEF BackInv, TypeOK, Ids, Ids0
<1>2. \A i \in Ids : i <= born => docs'[i] = docs[i]
  BY <1>1
<1>3. \A i \in Ids : i > born' => docs'[i] = NoDoc
  BY <1>1 DEF BackInv, Fresh
<1>4. \A i \in Ids : docs[i] # NoDoc => i <= born
  BY <1>1 DEF BackInv, Fresh
<1> QED BY <1>1, <1>2, <1>3, <1>4
        DEF DocsStep, Mild, KeepsDefaults, Exists

\* The save of one document.
LEMMA SaveStep ==
    ASSUME BackInv, NEW a \in Admins, NEW k \in Kinds, NEW f \in Form,
           calls[a].pc = "save" \/ Room > 0, SaveForm(a, k, f)
    PROVE  Safe
<1>1. /\ born \in Nat /\ env.room \in Nat /\ env.room <= MaxDocs
      /\ \A i \in Ids : i \in Nat
  BY CollectionsAssumption DEF BackInv, TypeOK, Scenario, Ids, Ids0
<1>2. /\ CallStep(a) /\ calls'[a].pc # "save"
      /\ UNCHANGED world
      /\ refs' \in [Products -> [RefKinds -> Ids0]]
      /\ reader' \in Reader
  BY RespondStep DEF SaveForm, BackInv, TypeOK, world
<1>3. CASE UNCHANGED <<docs, born>>
  BY <1>1, <1>2, <1>3, DocsStay, StepKeeps, SaversCount, CollectionsAssumption
     DEF Safe, BackInv, RoomLeft
<1>4. CASE /\ born' = born + 1
           /\ docs' = [docs EXCEPT ![born + 1] = NewDoc(k, f, born + 1)]
  <2>1. born + 1 \in Ids => NewDoc(k, f, born + 1) \in Doc
    BY DocTypes
  <2>2. docs' \in [Ids -> Doc \union {NoDoc}]
    BY <1>4, <2>1 DEF BackInv, TypeOK
  <2>3. \A i \in Ids : i \notin (born + 1)..(born + 1) => docs'[i] = docs[i]
    BY <1>1, <1>4 DEF BackInv, TypeOK
  <2>4. DocsStep /\ KeepsDefaults
    BY <1>4, <2>2, <2>3, NewDocs
  <2>5. born' + Cardinality(Savers') <= MaxDocs
    <3>1. Room = env.room - born - Cardinality(Savers)
      BY DEF Room, Savers
    <3> QED BY <1>1, <1>2, <1>4, <3>1, SaversCount, CollectionsAssumption
            DEF BackInv, RoomLeft
  <2> QED BY <1>2, <2>4, <2>5, StepKeeps DEF Safe
<1> QED BY <1>3, <1>4 DEF SaveForm

\* A batch is accepted in part at most.
LEMMA AcceptedBound ==
    ASSUME NEW m \in Nat, NEW k, NEW batch, DOMAIN batch = 1..m
    PROVE  Accepted(k, batch) \in Nat /\ Accepted(k, batch) <= m
<1> DEFINE A == {n \in DOMAIN batch : \A i \in 1..n : ~Clashes(k, batch, i)}
<1>1. IsFiniteSet(1..m) /\ Cardinality(1..m) = m
  BY FS_Interval
<1>2. A \subseteq 1..m
  OBVIOUS
<1>3. IsFiniteSet(A) /\ Cardinality(A) <= Cardinality(1..m)
  BY <1>1, <1>2, FS_Subset
<1>4. Cardinality(A) \in Nat
  BY <1>3, FS_CardinalityType
<1> QED BY <1>1, <1>3, <1>4 DEF Accepted

\* An import.
LEMMA BatchStep ==
    ASSUME BackInv, NEW a \in Admins, NEW k \in Kinds, NEW forms,
           forms \subseteq Form, InsertBatch(a, k, forms)
    PROVE  Safe
<1>1. /\ born \in Nat /\ env.room \in Nat /\ env.room <= MaxDocs
      /\ \A i \in Ids : i \in Nat
  BY CollectionsAssumption DEF BackInv, TypeOK, Scenario, Ids, Ids0
<1>2. /\ CallStep(a) /\ calls'[a].pc # "save"
      /\ UNCHANGED world
      /\ refs' \in [Products -> [RefKinds -> Ids0]]
      /\ reader' \in Reader
  BY RespondStep DEF InsertBatch, BackInv, TypeOK, world
<1> DEFINE Inserted(m, b, n) ==
      /\ m <= Room
      /\ docs' = [i \in Ids |-> IF i \in (born + 1)..(born + n)
                                THEN NewDoc(k, b[i - born], born + 1)
                                ELSE docs[i]]
      /\ born' = born + n
<1>0. PICK m \in 0..MaxBatch :
          \E b \in [1..m -> forms] : Inserted(m, b, Accepted(k, b))
  BY DEF InsertBatch
<1>3. PICK batch \in [1..m -> forms] : Inserted(m, batch, Accepted(k, batch))
  BY <1>0
<1> DEFINE n == Accepted(k, batch)
<1>4. n \in Nat /\ n <= m /\ m \in Nat
  BY <1>3, AcceptedBound, CollectionsAssumption
<1> HIDE DEF n
<1>5. \A i \in Ids : i \in (born + 1)..(born + n) =>
          NewDoc(k, batch[i - born], born + 1) \in Doc
  <2> SUFFICES ASSUME NEW i \in Ids, i \in (born + 1)..(born + n)
               PROVE  NewDoc(k, batch[i - born], born + 1) \in Doc
    OBVIOUS
  <2>1. i - born \in 1..m
    BY <1>1, <1>4
  <2>2. batch[i - born] \in Form
    BY <1>3, <2>1
  <2>3. born + 1 \in Ids
    BY <1>1, <1>4, CollectionsAssumption DEF Ids
  <2> QED BY <2>2, <2>3, DocTypes
<1>6. docs' \in [Ids -> Doc \union {NoDoc}]
  BY <1>3, <1>5 DEF n, BackInv, TypeOK
<1>7. \A i \in Ids : i \notin (born + 1)..(born + n) => docs'[i] = docs[i]
  BY <1>3 DEF n
<1>8. born' = born + n /\ m <= Room
  BY <1>3 DEF n
<1>9. DocsStep /\ KeepsDefaults
  BY <1>4, <1>6, <1>7, <1>8, NewDocs
<1>10. born' + Cardinality(Savers') <= MaxDocs
  <2>1. Room = env.room - born - Cardinality(Savers)
    BY DEF Room, Savers
  <2> QED BY <1>1, <1>2, <1>4, <1>8, <2>1, SaversCount, CollectionsAssumption
          DEF BackInv, RoomLeft
<1> QED BY <1>2, <1>9, <1>10, StepKeeps DEF Safe

(***************************************************************************)
(* Protocols                                                               *)
(***************************************************************************)
\* The collections of a behaviour are collections.
LEMMA LiveKinds ==
    ASSUME TypeOK, NEW k \in live
    PROVE  k \in Kinds
BY DEF TypeOK, Kinds

\* addTag and its like: the look for the slug.
LEMMA AddCheckingSlugSafe ==
    ASSUME BackInv, NEW a \in Admins, NEW k, AddCheckingSlug(a, k)
    PROVE  Safe
<1>1. TypeOK /\ k \in Kinds
  BY LiveKinds DEF AddCheckingSlug, MayCall, BackInv
<1>2. PICK f \in SlugForms(k) : \E s \in FinalSlugs(k, f.slug) :
          Goto(a, [Idle EXCEPT !.pc = "save", !.kind = k,
                               !.form = [f EXCEPT !.slug = s]])
  BY DEF AddCheckingSlug
<1>3. PICK s \in FinalSlugs(k, f.slug) :
          Goto(a, [Idle EXCEPT !.pc = "save", !.kind = k,
                               !.form = [f EXCEPT !.slug = s]])
  BY <1>2
<1>4. f \in Form
  BY <1>1, FormTypes
<1>5. s \in Slugs
  BY <1>4, SlugTypes DEF Form
<1>6. [f EXCEPT !.slug = s] \in Form
  BY <1>4, <1>5 DEF Form
<1> DEFINE g == [f EXCEPT !.slug = s]
           c == [Idle EXCEPT !.pc = "save", !.kind = k, !.form = g]
<1> HIDE DEF g
<1>7. c \in Call /\ Fits(c)
  BY <1>1, <1>6, IdleType DEF g, Call, Pcs, Fits
<1>8. CallStep(a)
  BY <1>3, <1>7, GotoStep DEF g
<1>9. /\ Room > 0
      /\ UNCHANGED <<world, docs, born, reader>>
      /\ refs' \in [Products -> [RefKinds -> Ids0]]
  BY <1>1 DEF AddCheckingSlug, TypeOK
<1> QED BY <1>8, <1>9, TalkStep

\* A call goes on, or is answered, and nothing else changes.
LEMMA TalkOnly ==
    ASSUME BackInv, NEW a \in Admins, NEW c \in Call, Fits(c), c.pc # "save",
           Goto(a, c), UNCHANGED <<world, docs, born, refs, reader>>
    PROVE  Safe
<1>1. CallStep(a) /\ calls'[a].pc # "save"
  BY GotoStep
<1>2. /\ UNCHANGED <<world, docs, born, reader>>
      /\ refs' \in [Products -> [RefKinds -> Ids0]]
  BY DEF BackInv, TypeOK
<1> QED BY <1>1, <1>2, TalkStep

\* An answer, and nothing else.
LEMMA AnswerOnly ==
    ASSUME BackInv, NEW a \in Admins, Respond(a),
           UNCHANGED <<world, docs, born, refs, reader>>
    PROVE  Safe
<1>1. CallStep(a) /\ calls'[a].pc # "save"
  BY RespondStep
<1>2. /\ UNCHANGED <<world, docs, born, reader>>
      /\ refs' \in [Products -> [RefKinds -> Ids0]]
  BY DEF BackInv, TypeOK
<1> QED BY <1>1, <1>2, TalkStep

\* addTag and its like: the save.
LEMMA SaveDocumentSafe ==
    ASSUME BackInv, NEW a \in Admins, SaveDocument(a)
    PROVE  Safe
<1>1. calls[a].kind \in Kinds /\ calls[a].form \in Form
  BY DEF SaveDocument, BackInv, CallsFit, Fits, TypeOK, Call
<1>2. PICK k \in Kinds, f \in Form : k = calls[a].kind /\ f = calls[a].form
  BY <1>1
<1> QED BY <1>2, SaveStep DEF SaveDocument

\* addBrand and its like.
LEMMA AddAtOnceSafe ==
    ASSUME BackInv, NEW a \in Admins, NEW k, NEW forms, forms \subseteq Form,
           AddAtOnce(a, k, forms)
    PROVE  Safe
<1>1. k \in Kinds
  BY LiveKinds DEF AddAtOnce, MayCall, BackInv
<1>2. PICK f \in forms : SaveForm(a, k, f)
  BY DEF AddAtOnce
<1>3. Room > 0 /\ f \in Form
  BY DEF AddAtOnce
<1> QED BY <1>1, <1>2, <1>3, SaveStep

\* insertManyTag and its like: the deleteMany before an import.
LEMMA ClearForImportSafe ==
    ASSUME BackInv, NEW a \in Admins, NEW k, ClearForImport(a, k)
    PROVE  Safe
<1> DEFINE c == [Idle EXCEPT !.pc = "import", !.kind = k]
<1>1. k \in Kinds /\ calls[a] = Idle
  BY LiveKinds DEF ClearForImport, MayCall, BackInv
<1>2. c \in Call /\ Fits(c) /\ c.pc = "import"
  BY <1>1, IdleType DEF Call, Pcs, Fits
<1>3. CallStep(a) /\ calls'[a] = c
  BY <1>2, GotoStep DEF ClearForImport
<1>4. /\ Of(k) \subseteq Ids /\ Remove(Of(k))
      /\ UNCHANGED <<world, born, refs>>
  BY DEF ClearForImport, Of
<1>5. PICK S \in SUBSET Ids : S = Of(k)
  BY <1>4
<1>6. Remove(S)
  BY <1>4, <1>5
<1> QED BY <1>1, <1>2, <1>3, <1>4, <1>6, IdleType, RemoveStep

\* insertManyTag and its like.
LEMMA InsertManySafe ==
    ASSUME BackInv, NEW a \in Admins, NEW k, k # "none",
           NEW forms, forms \subseteq Form, InsertMany(a, k, forms)
    PROVE  Safe
<1>1. CASE ClearForImport(a, k)
  BY <1>1, ClearForImportSafe
<1>2. CASE MayCall(a, k) /\ InsertBatch(a, k, forms)
  BY <1>2, LiveKinds, BatchStep DEF MayCall, BackInv
<1>3. CASE calls[a].kind = k /\ InsertBatch(a, k, forms)
  <2>1. k \in Kinds
    BY <1>3 DEF BackInv, TypeOK, Call
  <2> QED BY <1>3, <2>1, BatchStep
<1> QED BY <1>1, <1>2, <1>3 DEF InsertMany

\* updateTagById and its like: the look for the document.
LEMMA UpdateCheckingSlugSafe ==
    ASSUME BackInv, NEW a \in Admins, NEW k, UpdateCheckingSlug(a, k)
    PROVE  Safe
<1>1. k \in Kinds /\ TypeOK
  BY LiveKinds DEF UpdateCheckingSlug, MayCall, BackInv
<1> DEFINE Given == {Plain(b) : b \in env.names}
                      \union {docs[i].slug : i \in Of(k)}
           C(i, s) == [Idle EXCEPT !.pc = IF docs[i].slug = s THEN "set"
                                                              ELSE "check",
                                   !.kind = k, !.ids = {i}, !.form.slug = s]
<1>2. PICK i \in Of(k), s \in Given : Goto(a, C(i, s))
  BY DEF UpdateCheckingSlug
<1>3. i \in Ids
  BY DEF Of
<1>4. s \in Slugs
  <2>1. \A j \in Of(k) : docs[j].slug \in Slugs
    BY <1>1 DEF Of, Exists, TypeOK, Doc
  <2> QED BY <1>1, <2>1, SlugTypes, FormTypes
<1>5. C(i, s) \in Call /\ Fits(C(i, s)) /\ C(i, s).pc # "save"
  BY <1>1, <1>3, <1>4, IdleType DEF Call, Pcs, Fits, Form
<1> HIDE DEF C
<1>6. PICK c \in Call : c = C(i, s)
  BY <1>5
<1> QED BY <1>2, <1>5, <1>6, TalkOnly DEF UpdateCheckingSlug

\* updateTagById and its like: the look for the slug.
LEMMA CheckSlugSafe ==
    ASSUME BackInv, NEW a \in Admins, CheckSlug(a)
    PROVE  Safe
<1>1. calls[a] \in Call /\ calls[a].form \in Form /\ calls[a].form.slug \in Slugs
  BY DEF BackInv, TypeOK, Call, Form
<1>2. PICK s \in FinalSlugs(calls[a].kind, calls[a].form.slug) :
          Goto(a, [calls[a] EXCEPT !.pc = "set", !.form.slug = s])
  BY DEF CheckSlug
<1>3. s \in Slugs
  BY <1>1, SlugTypes
<1>4. PICK c \in Call : c = [calls[a] EXCEPT !.pc = "set", !.form.slug = s]
  BY <1>1, <1>3 DEF Call, Pcs, Form
<1>5. c.pc = "set"
  BY <1>1, <1>4 DEF Call
<1> QED BY <1>2, <1>4, <1>5, TalkOnly DEF CheckSlug, Fits

\* What updateBrandById and its like go on to write: the slug of a new name, no
\* name and no slug, or the form's own slug if it has one.
ToRename(a, k) ==
    \E i \in Of(k), n \in Bases \union {NoName}, s \in Slugs :
       /\ Goto(a, [Idle EXCEPT !.pc = "set", !.kind = k, !.ids = {i},
                               !.form.slug = s, !.form.name = n])
       /\ env.careful =>
             \/ n = NoName /\ s = NoSlug
             \/ n \in Bases /\ (s.base = n \/ (s = NoSlug
                                              /\ docs[i].name = n))

\* updateBrandById and its like go on that way.
LEMMA RenamingForm ==
    ASSUME TypeOK, NEW a, NEW k, UpdateRenaming(a, k)
    PROVE  ToRename(a, k)
<1>1. PICK i \in Of(k), n \in env.names \union {NoName},
           own \in {NoSlug} \union {Plain(b) : b \in env.names} :
          /\ env.careful => own = NoSlug
          /\ \E s \in SlugAfterRename(docs[i], n, own) :
                Goto(a, [Idle EXCEPT !.pc = "set", !.kind = k, !.ids = {i},
                                     !.form.slug = s, !.form.name = n])
  BY DEF UpdateRenaming
<1>2. PICK s \in SlugAfterRename(docs[i], n, own) :
          Goto(a, [Idle EXCEPT !.pc = "set", !.kind = k, !.ids = {i},
                               !.form.slug = s, !.form.name = n])
  BY <1>1
<1>3. n \in Bases \union {NoName} /\ own \in Slugs
  <2>1. env.names \subseteq Bases
    BY FormTypes
  <2>2. own = NoSlug \/ \E b \in Bases : own = Plain(b)
    BY <2>1
  <2>3. NoSlug \in Slugs /\ \A b \in Bases : Plain(b) \in Slugs
    BY NoFormType, SlugTypes
  <2> QED BY <2>1, <2>2, <2>3
<1>4. CASE n \in {NoName, docs[i].name}
  <2>1. s = own
    BY <1>4 DEF SlugAfterRename
  <2> QED BY <1>1, <1>2, <1>3, <1>4, <2>1 DEF ToRename
<1>5. CASE n \notin {NoName, docs[i].name}
  <2>1. n \in Bases /\ s \in Salted(n)
    BY <1>3, <1>5 DEF SlugAfterRename
  <2>2. s \in Slugs /\ s.base = n
    BY <2>1, SlugTypes DEF Salted
  <2> QED BY <1>2, <2>1, <2>2 DEF ToRename
<1> QED BY <1>4, <1>5

\* updateBrandById and its like: the look for the document.
LEMMA UpdateRenamingSafe ==
    ASSUME BackInv, NEW a \in Admins, NEW k, UpdateRenaming(a, k)
    PROVE  Safe
<1>1. k \in Kinds /\ TypeOK
  BY LiveKinds DEF UpdateRenaming, MayCall, BackInv
<1>2. PICK i \in Of(k), n \in Bases \union {NoName}, s \in Slugs :
          Goto(a, [Idle EXCEPT !.pc = "set", !.kind = k, !.ids = {i},
                               !.form.slug = s, !.form.name = n])
  BY <1>1, RenamingForm DEF ToRename
<1>3. i \in Ids
  BY DEF Of
<1>6. PICK c \in Call :
          c = [Idle EXCEPT !.pc = "set", !.kind = k, !.ids = {i},
                           !.form.slug = s, !.form.name = n]
  BY <1>1, <1>3, IdleType DEF Call, Pcs, Form
<1>7. c.pc = "set"
  BY <1>6, IdleType DEF Call
<1> QED BY <1>2, <1>6, <1>7, TalkOnly DEF UpdateRenaming, Fits

\* updateBlogById and its like: the look for the document.
LEMMA UpdateFoundSafe ==
    ASSUME BackInv, NEW a \in Admins, NEW k, UpdateFound(a, k)
    PROVE  Safe
<1>1. k \in Kinds /\ TypeOK
  BY LiveKinds DEF UpdateFound, MayCall, BackInv
<1>2. PICK i \in Of(k), n \in env.names :
          Goto(a, [Idle EXCEPT !.pc = "set", !.kind = k, !.ids = {i},
                               !.form.name = n])
  BY DEF UpdateFound
<1>3. i \in Ids /\ n \in Bases
  BY <1>1, FormTypes DEF Of
<1>4. PICK c \in Call :
          c = [Idle EXCEPT !.pc = "set", !.kind = k, !.ids = {i},
                           !.form.name = n]
  BY <1>1, <1>3, IdleType DEF Call, Pcs, Form
<1>5. c.pc = "set"
  BY <1>4, IdleType DEF Call
<1> QED BY <1>2, <1>4, <1>5, TalkOnly DEF UpdateFound, Fits

\* updateTagById and its like: the update.
LEMMA SetDocumentSafe ==
    ASSUME BackInv, NEW a \in Admins, SetDocument(a)
    PROVE  Safe
<1>1. PICK S \in SUBSET Ids, f \in Form : S = calls[a].ids /\ f = calls[a].form
  BY DEF BackInv, TypeOK, Call
<1>2. CASE UNCHANGED docs
  BY <1>2, AnswerOnly DEF SetDocument
<1>3. CASE SetFields(calls[a].ids, calls[a].form)
  <2>1. CallStep(a) /\ calls'[a].pc # "save"
    BY RespondStep DEF SetDocument
  <2>2. SetFields(S, f) /\ UNCHANGED <<world, born, refs, reader>>
    BY <1>1, <1>3 DEF SetDocument
  <2> QED BY <2>1, <2>2, SetStep
<1> QED BY <1>2, <1>3 DEF SetDocument

\* Updates that are one write of some form.
LEMMA SetAtOnce ==
    ASSUME BackInv, NEW a \in Admins, NEW k, MayCall(a, k), NEW S \in SUBSET Ids,
           NEW f \in Form, SetFields(S, f),
           UNCHANGED <<world, born, refs, calls, reader>>
    PROVE  Safe
<1>1. CallStep(a) /\ calls'[a].pc # "save"
  BY NoCallStep DEF MayCall
<1> QED BY <1>1, SetStep

\* updateAreaById and its like.
LEMMA UpdateAtOnceSafe ==
    ASSUME BackInv, NEW a \in Admins, NEW k, UpdateAtOnce(a, k)
    PROVE  Safe
<1>1. PICK i \in Of(k), f \in NameForms : SetFields({i}, f)
  BY DEF UpdateAtOnce
<1>2. f \in Form /\ {i} \in SUBSET Ids
  BY FormTypes DEF BackInv, Of
<1> QED BY <1>1, <1>2, SetAtOnce DEF UpdateAtOnce

\* updateMultipleBlogById and its like.
LEMMA UpdateManyNamesSafe ==
    ASSUME BackInv, NEW a \in Admins, NEW k, UpdateManyNames(a, k)
    PROVE  Safe
<1>1. PICK S \in SUBSET Of(k), n \in env.names \union {NoName} :
          SetFields(S, [NoForm EXCEPT !.name = n])
  BY DEF UpdateManyNames
<1>2. n \in Bases \union {NoName}
  BY FormTypes DEF BackInv
<1>3. PICK f \in Form : f = [NoForm EXCEPT !.name = n]
  BY <1>2, NoFormType DEF Form
<1>4. S \in SUBSET Ids
  BY DEF Of
<1> QED BY <1>1, <1>3, <1>4, SetAtOnce DEF UpdateManyNames

\* updateMultipleAuthorById and its like.
LEMMA UpdateManySlugsSafe ==
    ASSUME BackInv, NEW a \in Admins, NEW k, UpdateManySlugs(a, k)
    PROVE  Safe
<1>1. PICK S \in SUBSET Of(k), b \in env.names : \E first \in S :
          IF IndexRefuses(k, Plain(b), first)
            THEN UNCHANGED docs
            ELSE SetFields({first}, [NoForm EXCEPT !.slug = Plain(b)])
  BY DEF UpdateManySlugs
<1>2. PICK first \in S :
          IF IndexRefuses(k, Plain(b), first)
            THEN UNCHANGED docs
            ELSE SetFields({first}, [NoForm EXCEPT !.slug = Plain(b)])
  BY <1>1
<1>3. Plain(b) \in Slugs /\ {first} \in SUBSET Ids
  BY FormTypes, SlugTypes DEF BackInv, Of
<1>4. PICK f \in Form : f = [NoForm EXCEPT !.slug = Plain(b)]
  BY <1>3, NoFormType DEF Form
<1>5. CASE UNCHANGED docs
  BY <1>5, QuietStep DEF UpdateManySlugs, BackInv, TypeOK
<1>6. CASE SetFields({first}, f)
  BY <1>3, <1>6, SetAtOnce DEF UpdateManySlugs
<1> QED BY <1>2, <1>4, <1>5, <1>6

\* A bulk update of what is not followed here changes nothing.
LEMMA UpdateManyElseSafe ==
    ASSUME BackInv, NEW a \in Admins, NEW k, UpdateManyElse(a, k)
    PROVE  Safe
BY QuietStep DEF UpdateManyElse, BackInv, TypeOK, vars, world

\* What the filter keeps, and what exists in a collection without defaults,
\* may go.
LEMMA MayGo ==
    ASSUME BackInv, NEW k, NEW S \in SUBSET Of(k),
           k \notin DefaultKinds \/ \A i \in S : ~docs[i].readOnly
    PROVE  Spared(S) /\ S \subseteq Ids
<1>1. born \in Nat /\ \A i \in Ids : i \in Nat
  BY CollectionsAssumption DEF BackInv, TypeOK, Ids, Ids0
<1> QED BY <1>1 DEF Spared, Of, Exists, BackInv, Fresh

\* deleteCategoryById and its like: the look before the delete.
LEMMA DeleteFoundSafe ==
    ASSUME BackInv, NEW a \in Admins, NEW k, NEW guarded \in BOOLEAN,
           NEW next \in {"idle", "heir", "pull"},
           guarded \/ k \notin DefaultKinds, DeleteFound(a, k, guarded, next)
    PROVE  Safe
<1>1. k \in Kinds
  BY LiveKinds DEF DeleteFound, MayCall, BackInv
<1>2. PICK i \in Of(k), checkUsage \in BOOLEAN :
          /\ guarded => ~docs[i].readOnly
          /\ Goto(a, [Idle EXCEPT !.pc = "delete", !.kind = k, !.ids = {i},
                        !.doomed = {i},
                        !.next = IF checkUsage THEN next ELSE "idle"])
  BY DEF DeleteFound
<1>3. Spared({i}) /\ {i} \subseteq Ids
  BY <1>2, MayGo
<1>4. PICK c \in Call :
          c = [Idle EXCEPT !.pc = "delete", !.kind = k, !.ids = {i},
                 !.doomed = {i}, !.next = IF checkUsage THEN next ELSE "idle"]
  BY <1>1, <1>3, IdleType DEF Call, Pcs
<1>5. c.pc = "delete" /\ c.doomed = {i}
  BY <1>4, IdleType DEF Call
<1> QED BY <1>2, <1>3, <1>4, <1>5, TalkOnly DEF DeleteFound, Fits

\* deleteMultipleCategoryById and its like: the filter before the delete.
LEMMA DeleteManyFoundSafe ==
    ASSUME BackInv, NEW a \in Admins, NEW k,
           NEW next \in {"idle", "heir", "pull"}, DeleteManyFound(a, k, next)
    PROVE  Safe
<1>1. k \in Kinds
  BY LiveKinds DEF DeleteManyFound, MayCall, BackInv
<1>2. PICK S \in SUBSET Of(k), checkUsage \in BOOLEAN :
          Goto(a, [Idle EXCEPT !.pc = "delete", !.kind = k, !.ids = S,
                        !.doomed = Deletable(S),
                        !.next = IF checkUsage THEN next ELSE "idle"])
  BY DEF DeleteManyFound
<1>3. /\ Deletable(S) \in SUBSET Of(k)
      /\ \A i \in Deletable(S) : ~docs[i].readOnly
  BY DEF Deletable
<1>4. PICK D \in SUBSET Ids : D = Deletable(S) /\ Spared(D)
  BY <1>3, MayGo
<1>5. S \in SUBSET Ids
  BY DEF Of
<1>6. PICK c \in Call :
          c = [Idle EXCEPT !.pc = "delete", !.kind = k, !.ids = S,
                 !.doomed = D, !.next = IF checkUsage THEN next ELSE "idle"]
  BY <1>1, <1>4, <1>5, IdleType DEF Call, Pcs
<1>7. c.pc = "delete" /\ c.doomed = D
  BY <1>6, IdleType DEF Call
<1> QED BY <1>2, <1>4, <1>6, <1>7, TalkOnly DEF DeleteManyFound, Fits

\* The delete itself.
LEMMA DeleteDocumentsSafe ==
    ASSUME BackInv, NEW a \in Admins, DeleteDocuments(a)
    PROVE  Safe
<1>1. PICK c \in Call : c = calls[a] /\ Fits(c)
  BY DEF BackInv, CallsFit, TypeOK
<1>2. c.pc = "delete" /\ c.doomed \in SUBSET Ids /\ Spared(c.doomed)
  BY <1>1 DEF DeleteDocuments, Fits, Call
<1>3. PICK d \in Call :
          d = (IF c.next = "idle" THEN Idle ELSE [c EXCEPT !.pc = c.next])
  BY IdleType DEF Call, Pcs
<1>4. d.pc \in {"idle", "heir", "pull"}
  BY <1>3, IdleType DEF Call
<1>5. CallStep(a) /\ calls'[a].pc # "save"
  BY <1>1, <1>3, <1>4, GotoStep DEF DeleteDocuments, Fits
<1>6. PICK S \in SUBSET Ids : S = c.doomed
  BY <1>2
<1> QED BY <1>1, <1>2, <1>5, <1>6, RemoveStep DEF DeleteDocuments

\* Collections without a default are deleted from with no look before.
LEMMA DeleteAtOnceSafe ==
    ASSUME BackInv, NEW a \in Admins, NEW k, k \notin DefaultKinds,
           NEW sets \in SUBSET (SUBSET Of(k)), NEW next \in {"idle", "pull"},
           DeleteAtOnce(a, k, sets, next)
    PROVE  Safe
<1>1. k \in Kinds
  BY LiveKinds DEF DeleteAtOnce, MayCall, BackInv
<1>2. PICK S \in sets, checkUsage \in BOOLEAN :
          /\ Remove(S)
          /\ Goto(a, IF checkUsage /\ next # "idle"
                       THEN [Idle EXCEPT !.pc = next, !.kind = k, !.ids = S]
                       ELSE Idle)
  BY DEF DeleteAtOnce
<1>3. Spared(S) /\ S \in SUBSET Ids
  BY MayGo
<1>4. PICK c \in Call :
          c = (IF checkUsage /\ next # "idle"
                 THEN [Idle EXCEPT !.pc = next, !.kind = k, !.ids = S]
                 ELSE Idle)
  BY <1>1, <1>3, IdleType DEF Call, Pcs
<1>5. c.pc \in {"idle", "pull"}
  BY <1>4, IdleType DEF Call
<1>6. CallStep(a) /\ calls'[a].pc # "save"
  BY <1>2, <1>4, <1>5, GotoStep DEF Fits
<1> QED BY <1>2, <1>3, <1>6, RemoveStep DEF DeleteAtOnce

(***************************************************************************)
(* Handing over                                                            *)
(***************************************************************************)
\* The products' lists of ids.
LEMMA PullFromProductsSafe ==
    ASSUME BackInv, NEW a \in Admins, PullFromProducts(a)
    PROVE  Safe
<1>1. refs' \in [Products -> [RefKinds -> Ids0]]
  <2>1. refs \in [Products -> [RefKinds -> Ids0]] /\ 0 \in Ids0
    BY CollectionsAssumption DEF BackInv, TypeOK, Ids0
  <2>2. CASE UNCHANGED refs
    BY <2>1, <2>2
  <2>3. CASE refs' = [p \in Products |->
                        IF refs[p].tag \in calls[a].ids
                          THEN [refs[p] EXCEPT !.tag = 0] ELSE refs[p]]
    BY <2>1, <2>3
  <2> QED BY <2>2, <2>3 DEF PullFromProducts
<1>2. CallStep(a) /\ calls'[a].pc # "save"
  BY RespondStep DEF PullFromProducts
<1> QED BY <1>1, <1>2, TalkStep DEF PullFromProducts

\* A database call that fails.
LEMMA CallFailsSafe ==
    ASSUME BackInv, NEW a \in Admins, CallFails(a)
    PROVE  Safe
BY AnswerOnly DEF CallFails

\* The look for the default.
LEMMA FindHeirSafe ==
    ASSUME BackInv, NEW a \in Admins, FindHeir(a)
    PROVE  Safe
<1>1. CASE Respond(a)
  BY <1>1, AnswerOnly DEF FindHeir
<1>2. ASSUME NEW h \in Default(calls[a].kind),
             Goto(a, [calls[a] EXCEPT
                        !.heir = h, !.pc = IF calls[a].kind = "category"
                                           THEN "heirSub" ELSE "reset"])
      PROVE  Safe
  <2>1. h \in Ids0
    BY CollectionsAssumption DEF Default, Of, Ids, Ids0
  <2>2. PICK c \in Call :
            c = [calls[a] EXCEPT
                   !.heir = h, !.pc = IF calls[a].kind = "category"
                                      THEN "heirSub" ELSE "reset"]
    BY <2>1 DEF Call, Pcs, BackInv, TypeOK
  <2>3. c.pc \in {"heirSub", "reset"}
    BY <2>2 DEF Call, BackInv, TypeOK
  <2> QED BY <1>2, <2>2, <2>3, TalkOnly DEF FindHeir, Fits
<1> QED BY <1>1, <1>2 DEF FindHeir

\* The look for the default's sub-category.
LEMMA FindHeirSubSafe ==
    ASSUME BackInv, NEW a \in Admins, FindHeirSub(a)
    PROVE  Safe
<1>1. CASE Respond(a)
  BY <1>1, AnswerOnly DEF FindHeirSub
<1>2. ASSUME NEW h \in Of("subCategory"),
             Goto(a, [calls[a] EXCEPT !.heirSub = h, !.pc = "moveSubs"])
      PROVE  Safe
  <2>1. h \in Ids0
    BY CollectionsAssumption DEF Of, Ids, Ids0
  <2>2. PICK c \in Call :
            c = [calls[a] EXCEPT !.heirSub = h, !.pc = "moveSubs"]
    BY <2>1 DEF Call, Pcs, BackInv, TypeOK
  <2>3. c.pc = "moveSubs"
    BY <2>2 DEF Call, BackInv, TypeOK
  <2> QED BY <1>2, <2>2, <2>3, TalkOnly DEF FindHeirSub, Fits
<1> QED BY <1>1, <1>2 DEF FindHeirSub

\* The sub-categories of a deleted category.
LEMMA MoveSubCategoriesSafe ==
    ASSUME BackInv, NEW a \in Admins, MoveSubCategories(a)
    PROVE  Safe
<1>1. calls[a] \in Call
  BY DEF BackInv, TypeOK
<1>2. PICK S \in SUBSET Ids : S = Orphans(calls[a])
  BY DEF Orphans, Of
<1>3. PICK f \in Form : f = [NoForm EXCEPT !.parent = calls[a].heir]
  BY <1>1, NoFormType DEF Form, Call
<1>4. PICK c \in Call : c = [calls[a] EXCEPT !.pc = "reset"]
  BY <1>1 DEF Call, Pcs
<1>5. c.pc = "reset"
  BY <1>1, <1>4 DEF Call
<1>6. CallStep(a) /\ calls'[a].pc # "save"
  BY <1>4, <1>5, GotoStep DEF MoveSubCategories, Fits
<1>7. SetFields(S, f) /\ UNCHANGED <<world, born, refs, reader>>
  BY <1>2, <1>3 DEF MoveSubCategories
<1> QED BY <1>6, <1>7, SetStep

\* The products of what was deleted.
LEMMA ResetProductsSafe ==
    ASSUME BackInv, NEW a \in Admins, ResetProducts(a)
    PROVE  Safe
<1>1. calls[a] \in Call
  BY DEF BackInv, TypeOK
<1>2. \A r \in [RefKinds -> Ids0] :
          HandedOver(calls[a], r) \in [RefKinds -> Ids0]
  BY <1>1 DEF HandedOver, Call
<1>3. refs' \in [Products -> [RefKinds -> Ids0]]
  BY <1>2 DEF ResetProducts, BackInv, TypeOK
<1>4. CallStep(a) /\ calls'[a].pc # "save"
  BY RespondStep DEF ResetProducts
<1> QED BY <1>3, <1>4, TalkStep DEF ResetProducts

\* The second calls of all handlers.
LEMMA ContinueSafe ==
    ASSUME BackInv, NEW a \in Admins, Continue(a)
    PROVE  Safe
BY SaveDocumentSafe, CheckSlugSafe, SetDocumentSafe, DeleteDocumentsSafe,
   PullFromProductsSafe, FindHeirSafe, FindHeirSubSafe, MoveSubCategoriesSafe,
   ResetProductsSafe, CallFailsSafe DEF Continue

(***************************************************************************)
(* Products and readers                                                    *)
(***************************************************************************)
\* A product that is saved.
LEMMA SaveProductSafe ==
    ASSUME BackInv, NEW p \in Products, SaveProduct(p)
    PROVE  Safe
<1>1. \A k : Of(k) \subseteq Ids0
  BY CollectionsAssumption DEF Of, Ids, Ids0
<1>2. refs \in [Products -> [RefKinds -> Ids0]]
  BY DEF BackInv, TypeOK
<1>3. CASE \E c \in Of("category"), s \in Of("subCategory") :
             refs' = [refs EXCEPT ![p].category = c, ![p].subCategory = s]
  <2>1. PICK c \in Ids0, s \in Ids0 :
            refs' = [refs EXCEPT ![p].category = c, ![p].subCategory = s]
    BY <1>1, <1>3
  <2>2. refs' \in [Products -> [RefKinds -> Ids0]]
    BY <1>2, <2>1 DEF RefKinds
  <2> QED BY <2>2, QuietStep DEF SaveProduct, BackInv, TypeOK
<1>4. CASE \E k \in live \intersect (RefKinds \ {"category", "subCategory"}) :
             \E i \in Of(k) : refs' = [refs EXCEPT ![p][k] = i]
  <2>1. PICK k \in RefKinds, i \in Ids0 : refs' = [refs EXCEPT ![p][k] = i]
    BY <1>1, <1>4
  <2>2. refs' \in [Products -> [RefKinds -> Ids0]]
    BY <1>2, <2>1
  <2> QED BY <2>2, QuietStep DEF SaveProduct, BackInv, TypeOK
<1> QED BY <1>3, <1>4 DEF SaveProduct

\* A page that is read.
LEMMA GetAllSafe ==
    ASSUME BackInv, NEW k, GetAll(k)
    PROVE  Safe
<1>1. k \in Kinds
  BY LiveKinds DEF GetAll, BackInv
<1>2. /\ reader.state \in {"closed", "open", "done"}
      /\ reader.kind \in Kinds \union {"none"}
      /\ reader.page \in Nat
      /\ reader.owed \in SUBSET Ids /\ reader.seen \in SUBSET Ids
      /\ reader.slip \in BOOLEAN
      /\ reader \in Reader
  BY DEF BackInv, TypeOK, Reader
<1> DEFINE n == IF reader.state = "closed" THEN 0 ELSE reader.page
           Slip == \E i, j \in Of(k) : i # j /\ docs[i].at = docs[j].at
<1>3. PICK o \in Orders(Of(k)) :
          reader' = [reader EXCEPT
              !.state = IF PageSize * (n + 1) >= Len(o) THEN "done" ELSE "open",
              !.page = n + 1,
              !.owed = IF reader.state = "closed" THEN Listed(k) ELSE @,
              !.seen = @ \union (PageOf(o, n) \intersect Listed(k)),
              !.slip = @ \/ Slip,
              !.kind = k]
  BY DEF GetAll
<1>4. PICK st \in {"closed", "open", "done"} :
          st = IF PageSize * (n + 1) >= Len(o) THEN "done" ELSE "open"
  OBVIOUS
<1>5. PICK pg \in Nat : pg = n + 1
  BY <1>2
<1>6. PICK ow \in SUBSET Ids :
          ow = IF reader.state = "closed" THEN Listed(k) ELSE reader.owed
  BY <1>2 DEF Listed, Of
<1>7. PICK sn \in SUBSET Ids :
          sn = reader.seen \union (PageOf(o, n) \intersect Listed(k))
  BY <1>2 DEF Listed, Of
<1>8. PICK sl \in BOOLEAN : sl = (reader.slip \/ Slip)
  OBVIOUS
<1>9. reader' = [reader EXCEPT !.state = st, !.page = pg, !.owed = ow,
                               !.seen = sn, !.slip = sl, !.kind = k]
  BY <1>3, <1>4, <1>5, <1>6, <1>7, <1>8
<1>10. reader' \in Reader
  BY <1>1, <1>2, <1>9 DEF Reader
<1> QED BY <1>10, QuietStep DEF GetAll, BackInv, TypeOK

(***************************************************************************)
(* Which collection follows which protocol                                 *)
(***************************************************************************)
\* Collections whose handlers look a slug up, or make one from the name, each
\* time it changes or once; and those that make none.
Checkers == {"category", "subCategory", "tag", "type", "region", "orientation",
             "intimateHair", "hairColor", "bodyType", "author", "publisher"}
Followers == {"brand", "discountPercent", "gallery", "fileFolder"}
Namers == Followers \union {"blog", "banner", "carousel", "profile", "coupon"}
Slugless == {"review", "report", "verified", "division", "area", "zone"}

Adding(a, k) ==
    \/ k \in Checkers /\ AddCheckingSlug(a, k)
    \/ k \in Namers /\ AddAtOnce(a, k, NamedForms)
    \/ k \in Slugless /\ AddAtOnce(a, k, NameForms)
    \/ k = "additionalPage" /\ AddAdditionalPage(a)

Importing(a, k) ==
    \/ k \in Checkers /\ InsertMany(a, k, SlugForms(k))
    \/ k \in Namers /\ InsertMany(a, k, NamedForms)
    \/ k \in Slugless /\ InsertMany(a, k, NameForms)

Updating(a, k) ==
    \/ k \in Checkers /\ UpdateCheckingSlug(a, k)
    \/ k \in Followers /\ UpdateRenaming(a, k)
    \/ k \in Namers \ Followers /\ UpdateFound(a, k)
    \/ k \in Slugless /\ UpdateAtOnce(a, k)
    \/ k \in Namers \union Slugless /\ UpdateManyNames(a, k)
    \/ k \in Checkers /\ UpdateManySlugs(a, k)
    \/ UpdateManyElse(a, k)

Deleting(a, k) ==
    \/ k \in DefaultKinds /\ DeleteFound(a, k, TRUE, "heir")
    \/ k \in DefaultKinds /\ DeleteManyFound(a, k, "heir")
    \/ /\ k \notin DefaultKinds
       /\ \E guarded \in BOOLEAN, next \in {"idle", "pull"} :
             DeleteFound(a, k, guarded, next)
    \/ /\ k \notin DefaultKinds
       /\ \E sets \in SUBSET (SUBSET Of(k)), next \in {"idle", "pull"} :
             DeleteAtOnce(a, k, sets, next)

Handled(a, k) ==
    \/ Adding(a, k)
    \/ Importing(a, k)
    \/ Updating(a, k)
    \/ Deleting(a, k)
    \/ GetAll(k)

\* The handlers of the catalog.
LEMMA CatalogHandled ==
    ASSUME NEW a \in Admins, CatalogNext(a)
    PROVE  \E k : Handled(a, k)
<1> USE DEF Handled, Adding, Importing, Updating, Deleting
<1>1. CASE CategoryNext(a)
  <2>1. Handled(a, "category")
    BY <1>1
       DEF CategoryNext, AddCategory, InsertManyCategory, GetAllCategories,
           UpdateCategoryById, UpdateMultipleCategoryById, DeleteCategoryById,
           DeleteMultipleCategoryById, Checkers, Namers, Followers, Slugless,
           DefaultKinds
  <2> QED BY <2>1
<1>2. CASE SubCategoryNext(a)
  <2>1. Handled(a, "subCategory")
    BY <1>2
       DEF SubCategoryNext, AddSubCategory, InsertManySubCategory,
           GetAllSubCategories, UpdateSubCategoryById,
           UpdateMultipleSubCategoryById, DeleteSubCategoryById,
           DeleteMultipleSubCategoryById, Checkers, Namers, Followers,
           Slugless, DefaultKinds
  <2> QED BY <2>1
<1>3. CASE BrandNext(a)
  <2>1. Handled(a, "brand")
    BY <1>3
       DEF BrandNext, AddBrand, InsertManyBrand, GetAllBrands, UpdateBrandById,
           UpdateMultipleBrandById, DeleteBrandById, DeleteMultipleBrandById,
           Checkers, Namers, Followers, Slugless, DefaultKinds
  <2> QED BY <2>1
<1>4. CASE TagNext(a)
  <2>1. Handled(a, "tag")
    BY <1>4
       DEF TagNext, AddTag, InsertManyTag, GetAllTags, UpdateTagById,
           UpdateMultipleTagById, DeleteTagById, DeleteMultipleTagById,
           Checkers, Namers, Followers, Slugless, DefaultKinds
  <2> QED BY <2>1
<1>5. CASE TypeNext(a)
  <2>1. Handled(a, "type")
    BY <1>5
       DEF TypeNext, AddType, InsertManyType, GetAllTypes, UpdateTypeById,
           UpdateMultipleTypeById, DeleteTypeById, DeleteMultipleTypeById,
           Checkers, Namers, Followers, Slugless, DefaultKinds
  <2> QED BY <2>1
<1>6. CASE RegionNext(a)
  <2>1. Handled(a, "region")
    BY <1>6
       DEF RegionNext, AddRegion, InsertManyRegion, GetAllRegions,
           UpdateRegionById, UpdateMultipleRegionById, DeleteRegionById,
           DeleteMultipleRegionById, Checkers, Namers, Followers, Slugless,
           DefaultKinds
  <2> QED BY <2>1
<1>7. CASE OrientationNext(a)
  <2>1. Handled(a, "orientation")
    BY <1>7
       DEF OrientationNext, AddOrientation, InsertManyOrientation,
           GetAllOrientations, UpdateOrientationById,
           UpdateMultipleOrientationById, DeleteOrientationById,
           DeleteMultipleOrientationById, Checkers, Namers, Followers,
           Slugless, DefaultKinds
  <2> QED BY <2>1
<1>8. CASE IntimateHairNext(a)
  <2>1. Handled(a, "intimateHair")
    BY <1>8
       DEF IntimateHairNext, AddIntimateHair, InsertManyIntimateHair,
           GetAllIntimateHairs, UpdateIntimateHairById,
           UpdateMultipleIntimateHairById, DeleteIntimateHairById,
           DeleteMultipleIntimateHairById, Checkers, Namers, Followers,
           Slugless, DefaultKinds
  <2> QED BY <2>1
<1>9. CASE HairColorNext(a)
  <2>1. Handled(a, "hairColor")
    BY <1>9
       DEF HairColorNext, AddHairColor, InsertManyHairColor, GetAllHairColors,
           UpdateHairColorById, UpdateMultipleHairColorById,
           DeleteHairColorById, DeleteMultipleHairColorById, Checkers, Namers,
           Followers, Slugless, DefaultKinds
  <2> QED BY <2>1
<1>10. CASE BodyTypeNext(a)
  <2>1. Handled(a, "bodyType")
    BY <1>10
       DEF BodyTypeNext, AddBodyType, InsertManyBodyType, GetAllBodyTypes,
           UpdateBodyTypeById, UpdateMultipleBodyTypeById, DeleteBodyTypeById,
           DeleteMultipleBodyTypeById, Checkers, Namers, Followers, Slugless,
           DefaultKinds
  <2> QED BY <2>1
<1>11. CASE AuthorNext(a)
  <2>1. Handled(a, "author")
    BY <1>11
       DEF AuthorNext, AddAuthor, InsertManyAuthor, GetAllAuthors,
           UpdateAuthorById, UpdateMultipleAuthorById, DeleteAuthorById,
           DeleteMultipleAuthorById, Checkers, Namers, Followers, Slugless,
           DefaultKinds
  <2> QED BY <2>1
<1>12. CASE PublisherNext(a)
  <2>1. Handled(a, "publisher")
    BY <1>12
       DEF PublisherNext, AddPublisher, InsertManyPublisher, GetAllPublishers,
           UpdatePublisherById, UpdateMultiplePublisherById,
           DeletePublisherById, DeleteMultiplePublisherById, Checkers, Namers,
           Followers, Slugless, DefaultKinds
  <2> QED BY <2>1
<1> QED BY <1>1, <1>2, <1>3, <1>4, <1>5, <1>6, <1>7, <1>8, <1>9, <1>10, <1>11,
           <1>12
        DEF CatalogNext

\* The handlers of the content pages and the addresses.
LEMMA ContentHandled ==
    ASSUME NEW a \in Admins, ContentNext(a)
    PROVE  \E k : Handled(a, k)
<1> USE DEF Handled, Adding, Importing, Updating, Deleting
<1>1. CASE BlogNext(a)
  <2>1. Handled(a, "blog")
    BY <1>1
       DEF BlogNext, AddBlog, InsertManyBlog, GetAllBlogs, UpdateBlogById,
           UpdateMultipleBlogById, DeleteBlogById, DeleteMultipleBlogById,
           Checkers, Namers, Followers, Slugless, DefaultKinds
  <2> QED BY <2>1
<1>2. CASE BannerCaroselNext(a)
  <2>1. Handled(a, "banner")
    BY <1>2
       DEF BannerCaroselNext, AddBannerCarosel, InsertManyBannerCarosel,
           GetAllBannerCarosels, UpdateBannerCaroselById,
           UpdateMultipleBannerCaroselById, DeleteBannerCaroselById,
           DeleteMultipleBannerCaroselById, Checkers, Namers, Followers,
           Slugless, DefaultKinds
  <2> QED BY <2>1
<1>3. CASE CarouselNext(a)
  <2>1. Handled(a, "carousel")
    BY <1>3
       DEF CarouselNext, AddCarousel, InsertManyCarousel, GetAllCarousels,
           UpdateCarouselById, UpdateMultipleCarouselById, DeleteCarouselById,
           DeleteMultipleCarouselById, Checkers, Namers, Followers, Slugless,
           DefaultKinds
  <2> QED BY <2>1
<1>4. CASE ProfileNext(a)
  <2>1. Handled(a, "profile")
    BY <1>4
       DEF ProfileNext, AddProfile, InsertManyProfile, GetAllProfiles,
           UpdateProfileById, UpdateMultipleProfileById, DeleteProfileById,
           DeleteMultipleProfileById, Checkers, Namers, Followers, Slugless,
           DefaultKinds
  <2> QED BY <2>1
<1>5. CASE CouponNext(a)
  <2>1. Handled(a, "coupon")
    BY <1>5
       DEF CouponNext, AddCoupon, InsertManyCoupon, GetAllCoupons,
           UpdateCouponById, UpdateMultipleCouponById, DeleteCouponById,
           DeleteMultipleCouponById, Checkers, Namers, Followers, Slugless,
           DefaultKinds
  <2> QED BY <2>1
<1>6. CASE GalleryNext(a)
  <2>1. Handled(a, "gallery")
    BY <1>6
       DEF GalleryNext, AddGallery, InsertManyGallery, GetAllGalleries,
           UpdateGalleryById, UpdateMultipleGalleryById, DeleteGalleryById,
           DeleteMultipleGalleryById, Checkers, Namers, Followers, Slugless,
           DefaultKinds
  <2> QED BY <2>1
<1>7. CASE FileFolderNext(a)
  <2>1. Handled(a, "fileFolder")
    BY <1>7
       DEF FileFolderNext, AddFileFolder, InsertManyFileFolder,
           GetAllFileFolders, UpdateFileFolderById,
           UpdateMultipleFileFolderById, DeleteFileFolderById,
           DeleteMultipleFileFolderById, Checkers, Namers, Followers, Slugless,
           DefaultKinds
  <2> QED BY <2>1
<1>8. CASE DiscountPercentNext(a)
  <2>1. Handled(a, "discountPercent")
    BY <1>8
       DEF DiscountPercentNext, AddDiscountPercent, InsertManyDiscountPercent,
           GetAllDiscountPercents, UpdateDiscountPercentById,
           UpdateMultipleDiscountPercentById, DeleteDiscountPercentById,
           DeleteMultipleDiscountPercentById, Checkers, Namers, Followers,
           Slugless, DefaultKinds
  <2> QED BY <2>1
<1>9. CASE ReviewNext(a)
  <2>1. Handled(a, "review")
    BY <1>9
       DEF ReviewNext, AddReview, AddReviewByAdmin, GetAllReviewsByQuery,
           UpdateReviewById, DeleteReviewById, DeleteMultipleReviewById,
           Checkers, Namers, Followers, Slugless, DefaultKinds, Singletons
  <2> QED BY <2>1
<1>10. CASE ReportNext(a)
  <2>1. Handled(a, "report")
    BY <1>10
       DEF ReportNext, AddReport, AddReportByAdmin, GetAllReportsByQuery,
           UpdateReportById, DeleteReportById, DeleteMultipleReportById,
           Checkers, Namers, Followers, Slugless, DefaultKinds, Singletons
  <2> QED BY <2>1
<1>11. CASE VerifiedNext(a)
  <2>1. Handled(a, "verified")
    BY <1>11
       DEF VerifiedNext, AddVerified, AddVerifiedByAdmin,
           GetAllVerifiedsByQuery, UpdateVerifiedById, DeleteVerifiedById,
           DeleteMultipleVerifiedById, Checkers, Namers, Followers, Slugless,
           DefaultKinds, Singletons
  <2> QED BY <2>1
<1>12. CASE DivisionNext(a)
  <2>1. Handled(a, "division")
    BY <1>12
       DEF DivisionNext, AddDivision, InsertManyDivision, GetAllDivisions,
           UpdateDivisionById, UpdateMultipleDivisionById, DeleteDivisionById,
           DeleteMultipleDivisionById, Checkers, Namers, Followers, Slugless,
           DefaultKinds
  <2> QED BY <2>1
<1>13. CASE AreaNext(a)
  <2>1. Handled(a, "area")
    BY <1>13
       DEF AreaNext, AddArea, InsertManyArea, GetAllAreas, UpdateAreaById,
           UpdateMultipleAreaById, DeleteAreaById, DeleteMultipleAreaById,
           Checkers, Namers, Followers, Slugless, DefaultKinds
  <2> QED BY <2>1
<1>14. CASE ZoneNext(a)
  <2>1. Handled(a, "zone")
    BY <1>14
       DEF ZoneNext, AddZone, InsertManyZone, GetAllZones, UpdateZoneById,
           UpdateMultipleZoneById, DeleteZoneById, DeleteMultipleZoneById,
           Checkers, Namers, Followers, Slugless, DefaultKinds
  <2> QED BY <2>1
<1>15. CASE AdditionalPageNext(a)
  <2>1. Handled(a, "additionalPage")
    BY <1>15
       DEF AdditionalPageNext, DeleteAdditionalPageBySlug, Checkers, Namers,
           Followers, Slugless, DefaultKinds, Singletons
  <2> QED BY <2>1
<1> QED BY <1>1, <1>2, <1>3, <1>4, <1>5, <1>6, <1>7, <1>8, <1>9, <1>10, <1>11,
           <1>12, <1>13, <1>14, <1>15
        DEF ContentNext

\* A page that is found is left as it is, a page that is not is saved later.
LEMMA AddAdditionalPageSafe ==
    ASSUME BackInv, NEW a \in Admins, AddAdditionalPage(a)
    PROVE  Safe
<1>1. TypeOK /\ "additionalPage" \in Kinds
  BY LiveKinds DEF AddAdditionalPage, MayCall, BackInv
<1>2. PICK f \in SlugForms("additionalPage") :
          IF SlugTaken("additionalPage", f.slug)
            THEN UNCHANGED calls
            ELSE Goto(a, [Idle EXCEPT !.pc = "save", !.form = f,
                                      !.kind = "additionalPage"])
  BY DEF AddAdditionalPage
<1>3. CASE UNCHANGED calls
  BY <1>3, QuietStep DEF AddAdditionalPage, BackInv, TypeOK
<1>4. CASE Goto(a, [Idle EXCEPT !.pc = "save", !.form = f,
                                !.kind = "additionalPage"])
  <2>1. f \in Form
    BY <1>1, FormTypes
  <2>2. PICK c \in Call : c = [Idle EXCEPT !.pc = "save", !.form = f,
                                          !.kind = "additionalPage"]
    BY <1>1, <2>1, IdleType DEF Call, Pcs
  <2>3. Fits(c)
    BY <1>1, <2>2, IdleType DEF Fits, Call
  <2>4. CallStep(a)
    BY <1>4, <2>2, <2>3, GotoStep
  <2>5. /\ Room > 0
        /\ UNCHANGED <<world, docs, born, reader>>
        /\ refs' \in [Products -> [RefKinds -> Ids0]]
    BY <1>1 DEF AddAdditionalPage, TypeOK
  <2> QED BY <2>4, <2>5, TalkStep
<1> QED BY <1>2, <1>3, <1>4

\* Every handler of every service keeps the invariant.
LEMMA HandledSafe ==
    ASSUME BackInv, NEW a \in Admins, NEW k, Handled(a, k)
    PROVE  Safe
<1>1. /\ SlugForms(k) \subseteq Form
      /\ NamedForms \subseteq Form /\ NameForms \subseteq Form
  BY FormTypes DEF BackInv
<1>2. CASE Adding(a, k)
  BY <1>1, <1>2, AddCheckingSlugSafe, AddAtOnceSafe, AddAdditionalPageSafe
     DEF Adding
<1>3. CASE Importing(a, k)
  <2>1. k # "none"
    BY <1>3 DEF Importing, Checkers, Namers, Followers, Slugless
  <2> QED BY <1>1, <1>3, <2>1, InsertManySafe DEF Importing
<1>4. CASE Updating(a, k)
  BY <1>4, UpdateCheckingSlugSafe, UpdateRenamingSafe, UpdateFoundSafe,
     UpdateAtOnceSafe, UpdateManyNamesSafe, UpdateManySlugsSafe,
     UpdateManyElseSafe DEF Updating
<1>5. CASE Deleting(a, k)
  <2>1. CASE k \in DefaultKinds /\ DeleteFound(a, k, TRUE, "heir")
    BY <2>1, DeleteFoundSafe
  <2>2. CASE k \in DefaultKinds /\ DeleteManyFound(a, k, "heir")
    BY <2>2, DeleteManyFoundSafe
  <2>3. ASSUME k \notin DefaultKinds, NEW guarded \in BOOLEAN,
               NEW next \in {"idle", "pull"}, DeleteFound(a, k, guarded, next)
        PROVE  Safe
    BY <2>3, DeleteFoundSafe
  <2>4. ASSUME k \notin DefaultKinds, NEW sets \in SUBSET (SUBSET Of(k)),
               NEW next \in {"idle", "pull"}, DeleteAtOnce(a, k, sets, next)
        PROVE  Safe
    BY <2>4, DeleteAtOnceSafe
  <2> QED BY <1>5, <2>1, <2>2, <2>3, <2>4 DEF Deleting
<1>6. CASE GetAll(k)
  BY <1>6, GetAllSafe
<1> QED BY <1>2, <1>3, <1>4, <1>5, <1>6 DEF Handled

(***************************************************************************)
(* Types and defaults                                                      *)
(***************************************************************************)
\* The defaults that are in the database from the start have the first ids.
LEMMA SeedIds ==
    ASSUME NEW K \in Families
    PROVE  /\ Seed(K) \in [Ids -> Doc \union {NoDoc}]
           /\ LET S == {i \in Ids : Seed(K)[i] # NoDoc}
              IN  /\ IsFiniteSet(S) /\ Cardinality(S) \in Ids0
                  /\ \A i \in Ids : i > Cardinality(S) => i \notin S
<1> DEFINE S == {i \in Ids : Seed(K)[i] # NoDoc}
           kk == CHOOSE k \in K : TRUE
           sd(k, i, p) == [kind |-> k, slug |-> NoSlug, name |-> NoName,
                           parent |-> p, readOnly |-> TRUE, at |-> i]
           c1 == sd("category", 1, 0)
           s2 == sd("subCategory", 2, 1)
           k1 == sd(kk, 1, 0)
<1>1. /\ MaxDocs \in Nat /\ 1 \in Ids /\ NoDoc \notin Doc
      /\ "subCategory" \in K => "category" \in K
      /\ kk \in K
  BY CollectionsAssumption DEF Ids
<1>2. ASSUME NEW k \in K, NEW i \in Ids, NEW p \in Ids0
      PROVE  sd(k, i, p) \in Doc
  <2>1. k \in Kinds
    BY DEF Kinds
  <2> QED BY <2>1, NoFormType DEF Doc
<1>0. 0 \in Ids0 /\ 1 \in Ids0
  BY <1>1, CollectionsAssumption DEF Ids0, Ids
<1>10. /\ "category" \in K => c1 \in Doc
       /\ "subCategory" \in K /\ 2 \in Ids => s2 \in Doc
       /\ k1 \in Doc
  BY <1>0, <1>1, <1>2
<1>11. Seed(K) = [i \in Ids |->
          CASE i = 1 /\ "category" \in K -> c1
            [] i = 2 /\ "subCategory" \in K -> s2
            [] i = 1 /\ K \subseteq {"brand", "discountPercent"} -> k1
            [] OTHER -> NoDoc]
  BY DEF Seed
<1> HIDE DEF c1, s2, k1, kk, sd
<1> DEFINE Third == K \subseteq {"brand", "discountPercent"}
<1> HIDE DEF Third
<1>3. /\ Seed(K) = [i \in Ids |-> Seed(K)[i]]
      /\ \A i \in Ids :
            /\ i = 1 /\ "category" \in K => Seed(K)[i] = c1
            /\ i = 2 /\ "subCategory" \in K => Seed(K)[i] = s2
            /\ i = 1 /\ "category" \notin K => Seed(K)[i] \in {k1, NoDoc}
            /\ i = 2 /\ "subCategory" \notin K => Seed(K)[i] = NoDoc
            /\ i \notin {1, 2} => Seed(K)[i] = NoDoc
  BY <1>11
<1>4. \A i \in Ids : i \notin {1, 2} => Seed(K)[i] = NoDoc
  BY <1>3
<1>5. Seed(K) \in [Ids -> Doc \union {NoDoc}]
  <2>1. \A i \in Ids : Seed(K)[i] \in Doc \union {NoDoc}
    BY <1>3, <1>10
  <2> QED BY <1>3, <2>1
<1>6. \/ S = {}
      \/ S = {1}
      \/ S = {1, 2} /\ 2 \in Ids
  <2>1. S \subseteq {1, 2} /\ S \subseteq Ids
    BY <1>4
  <2>2. ASSUME 2 \in S PROVE 1 \in S
    <3>1. "subCategory" \in K /\ "category" \in K
      BY <1>1, <1>3, <2>2
    <3>2. c1 # NoDoc
      BY <1>1, <1>10, <3>1
    <3> QED BY <1>1, <1>3, <3>1, <3>2
  <2> QED BY <2>1, <2>2
<1> DEFINE Counted == /\ IsFiniteSet(S) /\ Cardinality(S) \in Ids0
                      /\ \A i \in Ids : i > Cardinality(S) => i \notin S
<1> HIDE DEF S
<1>7. ASSUME S = {} PROVE Counted
  BY <1>0, <1>7, FS_EmptySet
<1>8. ASSUME S = {1} PROVE Counted
  <2>1. IsFiniteSet({1}) /\ Cardinality({1}) = 1
    BY FS_Singleton
  <2> QED BY <1>0, <1>8, <2>1
<1>9. ASSUME S = {1, 2}, 2 \in Ids PROVE Counted
  <2>0. IsFiniteSet({1}) /\ Cardinality({1}) = 1
    BY FS_Singleton
  <2>1. IsFiniteSet({1}) /\ Cardinality({1}) = 1 /\ 2 \notin {1}
    BY <2>0
  <2>2. IsFiniteSet({1} \union {2}) /\ Cardinality({1} \union {2}) = 2
    BY <2>1, FS_AddElement
  <2>3. S = {1} \union {2}
    BY <1>9
  <2>4. 2 \in Ids0 /\ \A i \in Ids : ~(i > 2 /\ i \in {1, 2})
    BY <1>1, <1>9 DEF Ids, Ids0
  <2> QED BY <1>9, <2>2, <2>3, <2>4
<1>12. Counted
  BY <1>6, <1>7, <1>8, <1>9
<1> QED BY <1>5, <1>12 DEF S

\* The start.
LEMMA InitSafe == Init => BackInv
<1> SUFFICES ASSUME Init PROVE BackInv
  OBVIOUS
<1>1. /\ live \in Families /\ env \in Scenarios /\ docs = Seed(live)
      /\ born = Cardinality({i \in Ids : Seed(live)[i] # NoDoc})
      /\ reader = Closed
  BY DEF Init
<1>2. /\ docs \in [Ids -> Doc \union {NoDoc}]
      /\ born \in Ids0
      /\ Fresh
  BY <1>1, SeedIds DEF Fresh
<1>3. refs \in [Products -> [RefKinds -> Ids0]]
  BY CollectionsAssumption DEF Init, Ids0
<1>4. calls \in [Admins -> Call] /\ \A a \in Admins : calls[a] = Idle
  BY IdleType DEF Init
<1>5. reader \in Reader
  BY <1>1 DEF Closed, Reader
<1>6. CallsFit
  BY <1>4, IdleType DEF CallsFit, Fits
<1>7. RoomLeft
  <2>1. Savers = {}
    BY <1>4, IdleType DEF Savers
  <2>2. Cardinality(Savers) = 0
    BY <2>1, FS_EmptySet
  <2> QED BY <1>2, <2>2, CollectionsAssumption DEF RoomLeft, Ids0
<1> QED BY <1>1, <1>2, <1>3, <1>4, <1>5, <1>6, <1>7 DEF BackInv, TypeOK

\* Every step.
LEMMA NextSafe ==
    ASSUME BackInv, [Next]_vars
    PROVE  Safe
<1>1. CASE Next
  <2>1. ASSUME NEW a \in Admins,
               CatalogNext(a) \/ ContentNext(a) \/ Continue(a)
        PROVE  Safe
    BY <2>1, CatalogHandled, ContentHandled, HandledSafe, ContinueSafe
  <2>2. ASSUME NEW p \in Products, SaveProduct(p)
        PROVE  Safe
    BY <2>2, SaveProductSafe
  <2> QED BY <1>1, <2>1, <2>2 DEF Next
<1>2. CASE UNCHANGED vars
  BY <1>2, QuietStep DEF vars, world, BackInv, TypeOK
<1> QED BY <1>1, <1>2

\* The invariant holds throughout.
LEMMA BackInvAlways == Spec => []BackInv
<1>1. BackInv /\ [Next]_vars => BackInv'
  BY NextSafe DEF Safe
<1> QED BY <1>1, InitSafe, PTL DEF Spec

\* Every collection, every call of every service of the back office and every
\* reader has its type in every state, with any number of administrators.
THEOREM TypeCorrect == Spec => []TypeOK
<1>1. BackInv => TypeOK
  BY DEF BackInv
<1> QED BY <1>1, BackInvAlways, PTL

\* A read-only default leaves its collection in an import that clears it and in
\* no other way: the look at readOnly in deleteCategoryById, deleteBrandById
\* and the bulk deletes still holds when the delete comes, however many
\* administrators' calls run between the two.
THEOREM DefaultKeptAlways == Spec => DefaultKept
<1>1. BackInv /\ [Next]_vars => KeepsDefaults
  BY NextSafe DEF Safe
<1>2. BackInv /\ [Next]_vars =>
        [\A i \in Ids :
          /\ Exists(i) /\ docs[i].kind \in DefaultKinds /\ docs[i].readOnly
          /\ docs'[i] = NoDoc
          => \E a \in Admins :
                 calls[a].pc = "idle" /\ calls'[a].pc = "import"]_vars
  BY <1>1 DEF KeepsDefaults
<1> QED BY <1>2, BackInvAlways, PTL DEF Spec, DefaultKept

(***************************************************************************)
(* One call at a time                                                      *)
(***************************************************************************)
\* In a serial scenario at most one call is in progress.
Solo ==
    env.serial => \A a, b \in Admins :
                      calls[a] # Idle /\ calls[b] # Idle => a = b

\* All other calls than the one of a are none, and stay.
Alone(a) ==
    \A b \in Admins \ {a} : /\ calls'[b] = calls[b]
                            /\ env.serial => calls[b] = Idle

\* A handler begins with a call that may begin, or goes on with an import, or
\* reads a page.
LEMMA Begins ==
    ASSUME NEW a \in Admins, NEW k, Handled(a, k)
    PROVE  GetAll(k) \/ MayCall(a, k) \/ calls[a].pc = "import"
<1>1. CASE Adding(a, k)
  BY <1>1 DEF Adding, AddCheckingSlug, AddAtOnce, AddAdditionalPage
<1>2. CASE Importing(a, k)
  BY <1>2 DEF Importing, InsertMany, ClearForImport
<1>3. CASE Updating(a, k)
  BY <1>3 DEF Updating, UpdateCheckingSlug, UpdateRenaming, UpdateFound,
              UpdateAtOnce, UpdateManyNames, UpdateManySlugs, UpdateManyElse
<1>4. CASE Deleting(a, k)
  BY <1>4 DEF Deleting, DeleteFound, DeleteManyFound, DeleteAtOnce
<1> QED BY <1>1, <1>2, <1>3, <1>4 DEF Handled

\* A step of a handler changes its own call only, and neither the scenario nor
\* the family.
LEMMA OwnCall ==
    ASSUME BackInv, NEW a \in Admins, (\E k : Handled(a, k)) \/ Continue(a)
    PROVE  /\ \A b \in Admins \ {a} : calls'[b] = calls[b]
           /\ UNCHANGED world
<1>1. \A c : Goto(a, c) => \A b \in Admins \ {a} : calls'[b] = calls[b]
  BY DEF Goto, BackInv, TypeOK
<1>2. Respond(a) => \A b \in Admins \ {a} : calls'[b] = calls[b]
  BY DEF Respond, BackInv, TypeOK
<1>3. ASSUME NEW k, Adding(a, k)
      PROVE  /\ \A b \in Admins \ {a} : calls'[b] = calls[b]
             /\ UNCHANGED world
  BY <1>1, <1>2, <1>3 DEF Adding, AddCheckingSlug, AddAtOnce, SaveForm,
                          AddAdditionalPage
<1>4. ASSUME NEW k, Importing(a, k)
      PROVE  /\ \A b \in Admins \ {a} : calls'[b] = calls[b]
             /\ UNCHANGED world
  BY <1>1, <1>2, <1>4 DEF Importing, InsertMany, ClearForImport, InsertBatch
<1>5. ASSUME NEW k, Updating(a, k)
      PROVE  /\ \A b \in Admins \ {a} : calls'[b] = calls[b]
             /\ UNCHANGED world
  BY <1>1, <1>2, <1>5
     DEF Updating, UpdateCheckingSlug, UpdateRenaming, UpdateFound,
         UpdateAtOnce, UpdateManyNames, UpdateManySlugs, UpdateManyElse,
         vars, world
<1>6. ASSUME NEW k, Deleting(a, k)
      PROVE  /\ \A b \in Admins \ {a} : calls'[b] = calls[b]
             /\ UNCHANGED world
  BY <1>1, <1>2, <1>6 DEF Deleting, DeleteFound, DeleteManyFound, DeleteAtOnce
<1>7. ASSUME NEW k, GetAll(k)
      PROVE  /\ \A b \in Admins \ {a} : calls'[b] = calls[b]
             /\ UNCHANGED world
  BY <1>7 DEF GetAll
<1>8. CASE Continue(a)
  BY <1>1, <1>2, <1>8
     DEF Continue, SaveDocument, SaveForm, CheckSlug, SetDocument,
         DeleteDocuments, PullFromProducts, FindHeir, FindHeirSub,
         MoveSubCategories, ResetProducts, CallFails
<1> QED BY <1>3, <1>4, <1>5, <1>6, <1>7, <1>8 DEF Handled

\* In a serial scenario whoever does more than read is alone.
LEMMA StepAlone ==
    ASSUME BackInv, Solo, NEW a \in Admins, (\E k : Handled(a, k)) \/ Continue(a)
    PROVE  Alone(a) \/ \E k : GetAll(k)
<1>1. ASSUME calls[a] # Idle PROVE Alone(a)
  BY <1>1, OwnCall DEF Solo, Alone
<1>2. ASSUME NEW k, MayCall(a, k) PROVE Alone(a)
  BY <1>2, OwnCall DEF MayCall, Quiet, Alone
<1>3. calls[a].pc # "idle" => calls[a] # Idle
  BY IdleType
<1>4. CASE Continue(a)
  BY <1>1, <1>3, <1>4
     DEF Continue, SaveDocument, CheckSlug, SetDocument, DeleteDocuments,
         PullFromProducts, FindHeir, FindHeirSub, MoveSubCategories,
         ResetProducts, CallFails
<1> QED BY <1>1, <1>2, <1>3, <1>4, Begins

\* Calls stay one at a time.
LEMMA SoloNext == BackInv /\ Solo /\ [Next]_vars => Solo'
<1> SUFFICES ASSUME BackInv, Solo, [Next]_vars PROVE Solo'
  OBVIOUS
<1>1. CASE UNCHANGED <<world, calls>>
  BY <1>1 DEF Solo, world
<1>2. ASSUME NEW a \in Admins, (\E k : Handled(a, k)) \/ Continue(a)
      PROVE  Solo'
  <2>1. CASE Alone(a)
    BY <1>2, <2>1, OwnCall DEF Solo, Alone, world
  <2>2. CASE \E k : GetAll(k)
    BY <1>1, <2>2 DEF GetAll
  <2> QED BY <1>2, <2>1, <2>2, StepAlone
<1> QED BY <1>1, <1>2, CatalogHandled, ContentHandled
        DEF Next, SaveProduct, vars, world

(***************************************************************************)
(* What steps do to the documents                                          *)
(***************************************************************************)
\* Documents d2 are documents d and some of new ids, each made of a form.
Grown(d, d2, k, forms) ==
    \A i \in Ids : \/ d2[i] = d[i]
                   \/ /\ i > born
                      /\ \E f \in forms : d2[i] = NewDoc(k, f, born + 1)

\* The save of a document.
LEMMA SaveGrows ==
    ASSUME BackInv, NEW a \in Admins, NEW k, NEW f, SaveForm(a, k, f)
    PROVE  Grown(docs, docs', k, {f}) /\ calls'[a] = Idle
<1>1. born \in Nat
  BY CollectionsAssumption DEF BackInv, TypeOK, Ids0
<1>2. calls'[a] = Idle
  BY RespondStep DEF SaveForm
<1> QED BY <1>1, <1>2 DEF SaveForm, Grown, BackInv, TypeOK

\* An import.
LEMMA BatchGrows ==
    ASSUME BackInv, NEW a \in Admins, NEW k, NEW forms,
           InsertBatch(a, k, forms)
    PROVE  Grown(docs, docs', k, forms) /\ calls'[a] = Idle
<1>1. born \in Nat /\ \A i \in Ids : i \in Nat
  BY CollectionsAssumption DEF BackInv, TypeOK, Ids, Ids0
<1>2. calls'[a] = Idle
  BY RespondStep DEF InsertBatch
<1> DEFINE Inserted(m, b, n) ==
      docs' = [i \in Ids |-> IF i \in (born + 1)..(born + n)
                             THEN NewDoc(k, b[i - born], born + 1)
                             ELSE docs[i]]
<1>3. PICK m \in 0..MaxBatch :
          \E b \in [1..m -> forms] : Inserted(m, b, Accepted(k, b))
  BY DEF InsertBatch
<1>4. PICK batch \in [1..m -> forms] : Inserted(m, batch, Accepted(k, batch))
  BY <1>3
<1> DEFINE n == Accepted(k, batch)
<1>5. n \in Nat /\ n <= m /\ m \in Nat
  BY AcceptedBound, CollectionsAssumption
<1> HIDE DEF n
<1>6. docs' = [i \in Ids |-> IF i \in (born + 1)..(born + n)
                             THEN NewDoc(k, batch[i - born], born + 1)
                             ELSE docs[i]]
  BY <1>4 DEF n
<1>7. ASSUME NEW i \in Ids
      PROVE  \/ docs'[i] = docs[i]
             \/ /\ i > born
                /\ \E f \in forms : docs'[i] = NewDoc(k, f, born + 1)
  <2>1. CASE i \in (born + 1)..(born + n)
    <3>1. i - born \in 1..m /\ i > born
      BY <1>1, <1>5, <2>1
    <3>2. batch[i - born] \in forms
      BY <3>1
    <3> QED BY <1>6, <2>1, <3>1, <3>2
  <2>2. CASE i \notin (born + 1)..(born + n)
    BY <1>6, <2>2
  <2> QED BY <2>1, <2>2
<1> QED BY <1>2, <1>7 DEF Grown

\* Documents d2 are documents d, without some of S.
Thinned(d, d2, S) ==
    \A i \in Ids : \/ d2[i] = d[i]
                   \/ i \in S /\ d2[i] = NoDoc

\* A removal.
LEMMA RemoveThins ==
    ASSUME NEW S, Remove(S)
    PROVE  Thinned(docs, docs', S)
BY DEF Remove, Thinned

\* Documents d2 are documents d, with the fields of f in some of S.
Reset(d, d2, S, f) ==
    \A i \in Ids : \/ d2[i] = d[i]
                   \/ i \in S /\ d[i] # NoDoc /\ d2[i] = Filled(d[i], f)

\* An update.
LEMMA SetResets ==
    ASSUME NEW S, NEW f, SetFields(S, f)
    PROVE  Reset(docs, docs', S, f)
BY DEF SetFields, Reset, Exists

(***************************************************************************)
(* Slugs follow names                                                      *)
(***************************************************************************)
Follows(d) ==
    \A i \in Ids : d[i] # NoDoc /\ d[i].kind \in RenamingKinds
                   => d[i].slug.base = d[i].name

\* A form that keeps documents S of d what they should be.
Renames(d, S, f) ==
    \/ f.slug = NoSlug /\ f.name = NoName
    \/ /\ f.name \in Bases
       /\ \/ f.slug.base = f.name
          \/ /\ f.slug = NoSlug
             /\ \A i \in S : d[i] # NoDoc => d[i].name = f.name

FollowFits(d, c) ==
    /\ c.pc \in {"save", "check"} => c.kind \notin RenamingKinds
    /\ c.pc \in {"check", "set"} =>
          \A i \in c.ids : d[i] # NoDoc => d[i].kind = c.kind
    /\ c.pc = "set" /\ c.kind \in RenamingKinds => Renames(d, c.ids, c.form)

FollowInv ==
    env.careful /\ env.serial =>
        Follows(docs) /\ \A a \in Admins : FollowFits(docs, calls[a])

\* New documents.
LEMMA FollowGrown ==
    ASSUME NEW d, NEW d2, NEW k, NEW forms, Follows(d), Grown(d, d2, k, forms),
           k \in RenamingKinds => \A f \in forms : f.slug.base = f.name
    PROVE  Follows(d2)
<1> SUFFICES ASSUME NEW i \in Ids, d2[i] # NoDoc, d2[i].kind \in RenamingKinds
             PROVE  d2[i].slug.base = d2[i].name
  BY DEF Follows
<1>1. CASE d2[i] = d[i]
  BY <1>1 DEF Follows
<1>2. ASSUME NEW f \in forms, d2[i] = NewDoc(k, f, born + 1)
      PROVE  d2[i].slug.base = d2[i].name
  <2>1. d2[i].kind = k /\ d2[i].name = f.name
    BY <1>2 DEF NewDoc
  <2>2. d2[i].slug = f.slug
    BY <1>2, <2>1 DEF NewDoc, Stored, RenamingKinds, UniqueSlugKinds
  <2> QED BY <2>1, <2>2
<1> QED BY <1>1, <1>2 DEF Grown

\* Fewer documents.
LEMMA FollowThinned ==
    ASSUME NEW d, NEW d2, NEW S, Follows(d), Thinned(d, d2, S)
    PROVE  Follows(d2)
BY DEF Follows, Thinned

\* Documents with other fields.
LEMMA FollowReset ==
    ASSUME NEW d \in [Ids -> Doc \union {NoDoc}], NEW d2, NEW S, NEW f \in Form,
           Follows(d), Reset(d, d2, S, f),
           \A i \in S : d[i] # NoDoc /\ d[i].kind \in RenamingKinds =>
               (f.slug = NoSlug /\ f.name = NoName) \/ Renames(d, S, f)
    PROVE  Follows(d2)
<1> SUFFICES ASSUME NEW i \in Ids, d2[i] # NoDoc, d2[i].kind \in RenamingKinds
             PROVE  d2[i].slug.base = d2[i].name
  BY DEF Follows
<1>1. CASE d2[i] = d[i]
  BY <1>1 DEF Follows
<1>2. CASE i \in S /\ d[i] # NoDoc /\ d2[i] = Filled(d[i], f)
  <2>1. d[i] \in Doc
    BY <1>2
  <2>2. d[i].kind \in RenamingKinds /\ d[i].slug.base = d[i].name
    BY <1>2, <2>1, DocTypes DEF Follows
  <2>3. /\ d2[i].slug = IF f.slug = NoSlug THEN d[i].slug ELSE f.slug
        /\ d2[i].name = IF f.name = NoName THEN d[i].name ELSE f.name
    BY <1>2, <2>1, <2>2 DEF Filled, Stored, Doc, RenamingKinds, UniqueSlugKinds
  <2>4. f.name \in Bases => f.name # NoName
    BY CollectionsAssumption
  <2>5. NoSlug.base = NoName
    BY DEF NoSlug, Plain
  <2> QED BY <1>2, <2>2, <2>3, <2>4, <2>5 DEF Renames
<1> QED BY <1>1, <1>2 DEF Reset

\* The fields of the forms that administrators submit.
LEMMA FormFields ==
    /\ NoForm.slug = NoSlug /\ NoForm.name = NoName /\ NoForm.parent = 0
    /\ NoForm.readOnly = FALSE
    /\ \A n : Plain(n).base = n /\ Plain(n).salt = 0
    /\ \A f \in NamedForms :
          \E n \in env.names : /\ f.slug = Plain(n) /\ f.name = n
                               /\ f.parent = 0 /\ f.readOnly = FALSE
    /\ \A f \in NameForms :
          \E n \in env.names : /\ f.slug = NoSlug /\ f.name = n
                               /\ f.parent = 0 /\ f.readOnly = FALSE
    /\ \A k : \A f \in SlugForms(k) :
          \E b \in env.names : /\ f.slug = Plain(b) /\ f.name = NoName
                               /\ f.parent \in Parents(k)
                               /\ f.readOnly \in ReadOnlys(k)
<1>1. /\ NoForm.slug = NoSlug /\ NoForm.name = NoName /\ NoForm.parent = 0
      /\ NoForm.readOnly = FALSE
  BY DEF NoForm
<1>2. NoForm \in Form
  BY NoFormType
<1>3. ASSUME NEW f \in NamedForms
      PROVE  \E n \in env.names : /\ f.slug = Plain(n) /\ f.name = n
                                  /\ f.parent = 0 /\ f.readOnly = FALSE
  <2>1. PICK n \in env.names :
            f = [NoForm EXCEPT !.slug = Plain(n), !.name = n]
    BY DEF NamedForms
  <2>2. f.slug = Plain(n) /\ f.name = n /\ f.parent = 0 /\ f.readOnly = FALSE
    BY <1>1, <1>2, <2>1 DEF Form
  <2> QED BY <2>2
<1>4. ASSUME NEW f \in NameForms
      PROVE  \E n \in env.names : /\ f.slug = NoSlug /\ f.name = n
                                  /\ f.parent = 0 /\ f.readOnly = FALSE
  <2>1. PICK n \in env.names : f = [NoForm EXCEPT !.name = n]
    BY DEF NameForms
  <2>2. f.slug = NoSlug /\ f.name = n /\ f.parent = 0 /\ f.readOnly = FALSE
    BY <1>1, <1>2, <2>1 DEF Form
  <2> QED BY <2>2
<1>5. ASSUME NEW k, NEW f \in SlugForms(k)
      PROVE  \E b \in env.names : /\ f.slug = Plain(b) /\ f.name = NoName
                                  /\ f.parent \in Parents(k)
                                  /\ f.readOnly \in ReadOnlys(k)
  <2>1. PICK b \in env.names, q \in Parents(k), r \in ReadOnlys(k) :
            f = SlugForm(b, q, r)
    BY DEF SlugForms
  <2>2. f.slug = Plain(b) /\ f.name = NoName /\ f.parent = q /\ f.readOnly = r
    BY <1>1, <1>2, <2>1 DEF SlugForm, Form
  <2> QED BY <2>2
<1>6. \A n : Plain(n).base = n /\ Plain(n).salt = 0
  BY DEF Plain
<1> QED BY <1>1, <1>3, <1>4, <1>5, <1>6

\* Calls at other places say nothing of slugs.
LEMMA FollowElse ==
    \A d, c : c.pc \notin {"save", "check", "set"} => FollowFits(d, c)
BY DEF FollowFits

\* The parts of a state that the handlers look at.
LEMMA Parts ==
    ASSUME BackInv, NEW a \in Admins
    PROVE  /\ calls[a] \in Call
           /\ calls[a].form \in Form /\ calls[a].form.slug \in Slugs
           /\ calls[a].ids \in SUBSET Ids /\ calls[a].doomed \in SUBSET Ids
           /\ calls[a].heir \in Ids0 /\ calls[a].heirSub \in Ids0
           /\ docs \in [Ids -> Doc \union {NoDoc}]
           /\ \A c : Goto(a, c) => calls'[a] = c
           /\ Respond(a) => calls'[a] = Idle
BY DEF BackInv, TypeOK, Call, Form, Goto, Respond

\* The handlers that add.
LEMMA FollowAdding ==
    ASSUME BackInv, Follows(docs), NEW a \in Admins, NEW k,
           Adding(a, k), FollowFits(docs, calls[a])
    PROVE  Follows(docs') /\ FollowFits(docs', calls'[a])
<1>1. CASE k \in Checkers /\ AddCheckingSlug(a, k)
  <2>1. PICK f : calls'[a] = [Idle EXCEPT !.pc = "save", !.kind = k,
                                          !.form = f]
    BY <1>1, Parts DEF AddCheckingSlug
  <2>2. calls'[a].pc = "save" /\ calls'[a].kind = k
    BY <2>1 DEF Idle
  <2> QED BY <1>1, <2>2
          DEF AddCheckingSlug, FollowFits, Checkers, RenamingKinds
<1>2. CASE k \in Namers /\ AddAtOnce(a, k, NamedForms)
  <2>1. PICK f \in NamedForms : SaveForm(a, k, f)
    BY <1>2 DEF AddAtOnce
  <2>2. f.slug.base = f.name
    BY FormFields
  <2>3. Grown(docs, docs', k, {f}) /\ calls'[a] = Idle
    BY <2>1, SaveGrows
  <2> QED BY <2>2, <2>3, FollowGrown, FollowElse, IdleType
<1>3. CASE k \in Slugless /\ AddAtOnce(a, k, NameForms)
  <2>1. PICK f \in NameForms : SaveForm(a, k, f)
    BY <1>3 DEF AddAtOnce
  <2>2. Grown(docs, docs', k, {f}) /\ calls'[a] = Idle
    BY <2>1, SaveGrows
  <2>3. k \notin RenamingKinds
    BY <1>3 DEF Slugless, RenamingKinds
  <2> QED BY <2>2, <2>3, FollowGrown, FollowElse, IdleType
<1>4. CASE k = "additionalPage" /\ AddAdditionalPage(a)
  <2>1. PICK f \in SlugForms("additionalPage") :
            \/ UNCHANGED calls
            \/ calls'[a] = [Idle EXCEPT !.pc = "save", !.form = f,
                                        !.kind = "additionalPage"]
    BY <1>4, Parts DEF AddAdditionalPage
  <2>2. calls'[a] = calls[a] \/ /\ calls'[a].pc = "save"
                                /\ calls'[a].kind = "additionalPage"
    BY <2>1 DEF Idle
  <2> QED BY <1>4, <2>2 DEF AddAdditionalPage, FollowFits, RenamingKinds
<1> QED BY <1>1, <1>2, <1>3, <1>4 DEF Adding

\* The handlers that import.
LEMMA FollowImporting ==
    ASSUME BackInv, env.careful, Follows(docs), NEW a \in Admins, NEW k,
           Importing(a, k)
    PROVE  Follows(docs') /\ FollowFits(docs', calls'[a])
<1>1. ~ClearForImport(a, k)
  BY DEF ClearForImport
<1>2. ASSUME NEW forms, InsertMany(a, k, forms),
             k \in RenamingKinds => \A f \in forms : f.slug.base = f.name
      PROVE  Follows(docs') /\ FollowFits(docs', calls'[a])
  <2>1. Grown(docs, docs', k, forms) /\ calls'[a] = Idle
    BY <1>1, <1>2, BatchGrows DEF InsertMany
  <2> QED BY <1>2, <2>1, FollowGrown, FollowElse, IdleType
<1>3. \A f \in NamedForms : f.slug.base = f.name
  BY FormFields
<1>4. k \in Checkers \union Slugless => k \notin RenamingKinds
  BY DEF Checkers, Slugless, RenamingKinds
<1> QED BY <1>2, <1>3, <1>4 DEF Importing

\* Updates that are one write.
LEMMA FollowWrite ==
    ASSUME BackInv, Follows(docs), NEW a \in Admins, UNCHANGED calls,
           calls[a] = Idle, NEW S, NEW f \in Form, SetFields(S, f),
           \A i \in S : docs[i] # NoDoc /\ docs[i].kind \in RenamingKinds =>
               f.slug = NoSlug /\ f.name = NoName
    PROVE  Follows(docs') /\ FollowFits(docs', calls'[a])
<1>1. Reset(docs, docs', S, f)
  BY SetResets
<1>2. Follows(docs')
  BY <1>1, Parts, FollowReset
<1> QED BY <1>2, FollowElse, IdleType

\* The handlers that update.
LEMMA FollowUpdating ==
    ASSUME BackInv, env.careful, Follows(docs), NEW a \in Admins, NEW k,
           Updating(a, k)
    PROVE  Follows(docs') /\ FollowFits(docs', calls'[a])
<1>0. k \in Checkers \union Slugless => k \notin RenamingKinds
  BY DEF Checkers, Slugless, RenamingKinds
<1>1. CASE k \in Checkers /\ UpdateCheckingSlug(a, k)
  <2>1. PICK i \in Of(k), s \in {Plain(b) : b \in env.names}
                                  \union {docs[j].slug : j \in Of(k)} :
            calls'[a] = [Idle EXCEPT !.pc = IF docs[i].slug = s THEN "set"
                                                                ELSE "check",
                                     !.kind = k, !.ids = {i}, !.form.slug = s]
    BY <1>1, Parts DEF UpdateCheckingSlug
  <2>2. /\ calls'[a].pc \in {"check", "set"} /\ calls'[a].kind = k
        /\ calls'[a].ids = {i} /\ docs[i].kind = k
    BY <2>1 DEF Idle, Of
  <2> QED BY <1>0, <1>1, <2>2 DEF UpdateCheckingSlug, FollowFits
<1>2. CASE k \in Followers /\ UpdateRenaming(a, k)
  <2>0. ToRename(a, k)
    <3>1. TypeOK /\ UpdateRenaming(a, k)
      BY <1>2 DEF BackInv
    <3> QED BY <3>1, RenamingForm
  <2>1. PICK i \in Of(k), n \in Bases \union {NoName}, s \in Slugs :
            /\ Goto(a, [Idle EXCEPT !.pc = "set", !.kind = k, !.ids = {i},
                                    !.form.slug = s, !.form.name = n])
            /\ \/ n = NoName /\ s = NoSlug
               \/ n \in Bases /\ (s.base = n \/ (s = NoSlug
                                                /\ docs[i].name = n))
    BY <2>0 DEF ToRename
  <2>2. calls'[a] = [Idle EXCEPT !.pc = "set", !.kind = k, !.ids = {i},
                                 !.form.slug = s, !.form.name = n]
    BY <2>1, Parts
  <2>3. /\ calls'[a].pc = "set" /\ calls'[a].kind = k
        /\ calls'[a].ids = {i} /\ docs[i].kind = k
    BY <2>2, IdleType DEF Of, Call
  <2>6. calls'[a].form = [NoForm EXCEPT !.slug = s, !.name = n]
    BY <2>2 DEF Idle
  <2>7. calls'[a].form.slug = s /\ calls'[a].form.name = n
    BY <2>6, NoFormType DEF Form
  <2> QED BY <1>2, <2>1, <2>3, <2>7 DEF UpdateRenaming, FollowFits, Renames
<1>3. CASE k \in Namers \ Followers /\ UpdateFound(a, k)
  <2>1. PICK i \in Of(k), n \in env.names :
            calls'[a] = [Idle EXCEPT !.pc = "set", !.kind = k, !.ids = {i},
                                     !.form.name = n]
    BY <1>3, Parts DEF UpdateFound
  <2>2. /\ calls'[a].pc = "set" /\ calls'[a].kind = k
        /\ calls'[a].ids = {i} /\ docs[i].kind = k
    BY <2>1 DEF Idle, Of
  <2> QED BY <1>3, <2>2 DEF UpdateFound, FollowFits, Followers, RenamingKinds
<1>4. CASE k \in Slugless /\ UpdateAtOnce(a, k)
  <2>1. PICK i \in Of(k), f \in NameForms : SetFields({i}, f)
    BY <1>4 DEF UpdateAtOnce
  <2>2. f \in Form /\ docs[i].kind = k
    BY FormTypes DEF BackInv, Of
  <2> QED BY <1>0, <1>4, <2>1, <2>2, FollowWrite DEF UpdateAtOnce, MayCall
<1>5. CASE UpdateManyNames(a, k)
  <2>1. PICK S \in SUBSET Of(k) : SetFields(S, [NoForm EXCEPT !.name = NoName])
    BY <1>5 DEF UpdateManyNames
  <2>2. PICK f \in Form : f = [NoForm EXCEPT !.name = NoName]
    BY NoFormType DEF Form
  <2>3. f.slug = NoSlug /\ f.name = NoName
    BY <2>2, NoFormType, FormFields DEF Form
  <2> QED BY <1>5, <2>1, <2>2, <2>3, FollowWrite DEF UpdateManyNames, MayCall
<1>6. CASE k \in Checkers /\ UpdateManySlugs(a, k)
  <2>1. PICK S \in SUBSET Of(k), b \in env.names : \E first \in S :
            UNCHANGED docs \/ SetFields({first}, [NoForm EXCEPT !.slug = Plain(b)])
    BY <1>6 DEF UpdateManySlugs
  <2>2. PICK first \in S :
            UNCHANGED docs \/ SetFields({first}, [NoForm EXCEPT !.slug = Plain(b)])
    BY <2>1
  <2>3. [NoForm EXCEPT !.slug = Plain(b)] \in Form
    BY NoFormType, SlugTypes, FormTypes DEF BackInv, Form
  <2>4. docs[first].kind = k /\ calls[a] = Idle /\ UNCHANGED calls
    BY <1>6 DEF Of, UpdateManySlugs, MayCall
  <2>5. CASE SetFields({first}, [NoForm EXCEPT !.slug = Plain(b)])
    BY <1>0, <1>6, <2>3, <2>4, <2>5, FollowWrite
  <2> QED BY <2>2, <2>4, <2>5, FollowElse, IdleType
<1>7. CASE UpdateManyElse(a, k)
  BY <1>7, FollowElse, IdleType DEF UpdateManyElse, MayCall, vars
<1> QED BY <1>1, <1>2, <1>3, <1>4, <1>5, <1>6, <1>7 DEF Updating

\* What handlers go on with.
LEMMA FollowContinue ==
    ASSUME BackInv, Follows(docs), NEW a \in Admins, Continue(a),
           FollowFits(docs, calls[a])
    PROVE  Follows(docs') /\ FollowFits(docs', calls'[a])
<1>0. FollowFits(docs', Idle)
  BY FollowElse, IdleType
<1>1. CASE SaveDocument(a)
  <2>1. /\ Grown(docs, docs', calls[a].kind, {calls[a].form})
        /\ calls'[a] = Idle
    BY <1>1, SaveGrows DEF SaveDocument
  <2>2. calls[a].kind \notin RenamingKinds
    BY <1>1 DEF SaveDocument, FollowFits
  <2> QED BY <1>0, <2>1, <2>2, FollowGrown
<1>2. CASE CheckSlug(a)
  <2>1. PICK s : calls'[a] = [calls[a] EXCEPT !.pc = "set", !.form.slug = s]
    BY <1>2, Parts DEF CheckSlug
  <2>2. /\ calls'[a].pc = "set" /\ calls'[a].kind = calls[a].kind
        /\ calls'[a].ids = calls[a].ids
    BY <2>1, Parts DEF Call
  <2> QED BY <1>2, <2>2 DEF CheckSlug, FollowFits
<1>3. CASE SetDocument(a)
  <2>1. calls'[a] = Idle
    BY <1>3, Parts DEF SetDocument
  <2>2. CASE UNCHANGED docs
    BY <1>0, <2>1, <2>2
  <2>3. CASE SetFields(calls[a].ids, calls[a].form)
    <3>1. Reset(docs, docs', calls[a].ids, calls[a].form)
      BY <2>3, SetResets
    <3>2. \A i \in calls[a].ids :
              docs[i] # NoDoc /\ docs[i].kind \in RenamingKinds =>
                  Renames(docs, calls[a].ids, calls[a].form)
      BY <1>3 DEF SetDocument, FollowFits
    <3>3. Follows(docs')
      BY <3>1, <3>2, Parts, FollowReset
    <3> QED BY <1>0, <2>1, <3>3
  <2> QED BY <1>3, <2>2, <2>3 DEF SetDocument
<1>4. CASE DeleteDocuments(a)
  <2>1. Follows(docs')
    BY <1>4, RemoveThins, FollowThinned DEF DeleteDocuments
  <2>2. calls'[a] = IF calls[a].next = "idle" THEN Idle
                    ELSE [calls[a] EXCEPT !.pc = calls[a].next]
    BY <1>4, Parts DEF DeleteDocuments
  <2>3. calls'[a].pc \in {"idle", "heir", "pull"}
    BY <2>2, Parts, IdleType DEF Call
  <2> QED BY <2>1, <2>3, FollowElse
<1>5. CASE MoveSubCategories(a)
  <2>1. calls'[a] = [calls[a] EXCEPT !.pc = "reset"]
    BY <1>5, Parts DEF MoveSubCategories
  <2>2. calls'[a].pc = "reset"
    BY <2>1, Parts DEF Call
  <2>3. PICK f \in Form : f = [NoForm EXCEPT !.parent = calls[a].heir]
    BY Parts, NoFormType DEF Form
  <2>4. f.slug = NoSlug /\ f.name = NoName
    BY <2>3, NoFormType, FormFields DEF Form
  <2>5. Reset(docs, docs', Orphans(calls[a]), f)
    BY <1>5, <2>3, SetResets DEF MoveSubCategories
  <2>6. Follows(docs')
    BY <2>4, <2>5, Parts, FollowReset
  <2> QED BY <2>2, <2>6, FollowElse
<1>6. CASE FindHeir(a)
  <2>1. ASSUME NEW h, calls'[a] = [calls[a] EXCEPT !.heir = h, !.pc =
                       IF calls[a].kind = "category" THEN "heirSub" ELSE "reset"]
        PROVE  calls'[a].pc \in {"heirSub", "reset"}
    BY <2>1, Parts DEF Call
  <2> QED BY <1>0, <1>6, <2>1, Parts, FollowElse DEF FindHeir
<1>7. CASE FindHeirSub(a)
  <2>1. ASSUME NEW h,
               calls'[a] = [calls[a] EXCEPT !.heirSub = h, !.pc = "moveSubs"]
        PROVE  calls'[a].pc = "moveSubs"
    BY <2>1, Parts DEF Call
  <2> QED BY <1>0, <1>7, <2>1, Parts, FollowElse DEF FindHeirSub
<1>8. CASE PullFromProducts(a) \/ ResetProducts(a) \/ CallFails(a)
  BY <1>0, <1>8, Parts DEF PullFromProducts, ResetProducts, CallFails
<1> QED BY <1>1, <1>2, <1>3, <1>4, <1>5, <1>6, <1>7, <1>8 DEF Continue

\* The handlers that delete.
LEMMA FollowDeleting ==
    ASSUME BackInv, Follows(docs), NEW a \in Admins, NEW k, Deleting(a, k)
    PROVE  Follows(docs') /\ FollowFits(docs', calls'[a])
<1>1. ASSUME calls'[a].pc = "delete", UNCHANGED docs
      PROVE  Follows(docs') /\ FollowFits(docs', calls'[a])
  BY <1>1, FollowElse
<1>2. ASSUME NEW guarded, NEW next, DeleteFound(a, k, guarded, next)
      PROVE  Follows(docs') /\ FollowFits(docs', calls'[a])
  <2>1. PICK i, n : calls'[a] = [Idle EXCEPT !.pc = "delete", !.kind = k,
                                   !.ids = {i}, !.doomed = {i}, !.next = n]
    BY <1>2, Parts DEF DeleteFound
  <2>2. calls'[a].pc = "delete"
    BY <2>1 DEF Idle
  <2> QED BY <1>1, <1>2, <2>2 DEF DeleteFound
<1>3. ASSUME NEW next, DeleteManyFound(a, k, next)
      PROVE  Follows(docs') /\ FollowFits(docs', calls'[a])
  <2>1. PICK S, n : calls'[a] = [Idle EXCEPT !.pc = "delete", !.kind = k,
                         !.ids = S, !.doomed = Deletable(S), !.next = n]
    BY <1>3, Parts DEF DeleteManyFound
  <2>2. calls'[a].pc = "delete"
    BY <2>1 DEF Idle
  <2> QED BY <1>1, <1>3, <2>2 DEF DeleteManyFound
<1>4. ASSUME NEW sets, NEW next \in {"idle", "pull"},
             DeleteAtOnce(a, k, sets, next)
      PROVE  Follows(docs') /\ FollowFits(docs', calls'[a])
  <2>1. Follows(docs')
    BY <1>4, RemoveThins, FollowThinned DEF DeleteAtOnce
  <2>2. \/ calls'[a] = Idle
        \/ \E S : calls'[a] = [Idle EXCEPT !.pc = next, !.kind = k, !.ids = S]
    BY <1>4, Parts DEF DeleteAtOnce
  <2>3. calls'[a].pc \in {"idle", "pull"}
    BY <2>2, IdleType DEF Idle
  <2> QED BY <2>1, <2>3, FollowElse
<1> QED BY <1>2, <1>3, <1>4 DEF Deleting

\* Every step.
LEMMA FollowNext == BackInv /\ Solo /\ FollowInv /\ [Next]_vars => FollowInv'
<1> SUFFICES ASSUME BackInv, Solo, FollowInv, [Next]_vars,
                    env'.careful, env'.serial
             PROVE  /\ Follows(docs')
                    /\ \A a \in Admins : FollowFits(docs', calls'[a])
  BY DEF FollowInv
<1>1. CASE UNCHANGED <<world, docs, calls>>
  BY <1>1 DEF FollowInv, world
<1>2. ASSUME NEW a \in Admins, (\E k : Handled(a, k)) \/ Continue(a)
      PROVE  /\ Follows(docs')
             /\ \A b \in Admins : FollowFits(docs', calls'[b])
  <2>1. env.careful /\ env.serial
    BY <1>2, OwnCall DEF world
  <2>2. CASE Alone(a) /\ ~\E k : GetAll(k)
    <3>1. Follows(docs') /\ FollowFits(docs', calls'[a])
      BY <1>2, <2>1, <2>2, FollowAdding, FollowImporting, FollowUpdating,
         FollowDeleting, FollowContinue DEF Handled, FollowInv
    <3>2. ASSUME NEW b \in Admins \ {a} PROVE FollowFits(docs', calls'[b])
      BY <2>1, <2>2, FollowElse, IdleType DEF Alone
    <3> QED BY <3>1, <3>2
  <2>3. CASE \E k : GetAll(k)
    BY <1>1, <2>3 DEF GetAll
  <2> QED BY <1>2, <2>2, <2>3, StepAlone
<1> QED BY <1>1, <1>2, CatalogHandled, ContentHandled
        DEF Next, SaveProduct, vars, world

\* The start.
LEMMA SeedFields ==
    ASSUME NEW K, NEW i \in Ids, Seed(K)[i] # NoDoc
    PROVE  /\ Seed(K)[i].slug = NoSlug /\ Seed(K)[i].name = NoName
           /\ Seed(K)[i].readOnly /\ Seed(K)[i].at = i
BY DEF Seed

\* In the order of the handlers: no call and the documents of the start.
LEMMA FollowInit == Init => FollowInv /\ Solo
<1> SUFFICES ASSUME Init PROVE FollowInv /\ Solo
  OBVIOUS
<1>1. docs = Seed(live) /\ \A a \in Admins : calls[a] = Idle
  BY DEF Init
<1>2. NoSlug.base = NoName
  BY DEF NoSlug, Plain
<1>3. Follows(docs)
  BY <1>1, <1>2, SeedFields DEF Follows
<1>4. \A a \in Admins : FollowFits(docs, calls[a])
  BY <1>1, FollowElse, IdleType
<1> QED BY <1>1, <1>3, <1>4 DEF FollowInv, Solo

\* One call at a time, always.
LEMMA SoloAlways == Spec => []Solo
<1> QED BY FollowInit, SoloNext, BackInvAlways, PTL DEF Spec

\* As long as forms have no slug of their own, the slug of a brand or a folder
\* is made from its present name: what updateBrandById and updateFileFolderById
\* read of the document still holds when they write, while calls come one at a
\* time.
THEOREM SlugFollowsNameAlways == Spec => []SlugFollowsName
<1>1. FollowInv => SlugFollowsName
  BY DEF FollowInv, Follows, SlugFollowsName, RenamingKinds, Exists
<1> QED BY <1>1, FollowInit, FollowNext, SoloAlways, BackInvAlways, PTL DEF Spec

(***************************************************************************)
(* Slugs are unique                                                        *)
(***************************************************************************)
\* In documents d nobody but i has slug s, where the index looks.
Free(d, k, s, i) ==
    k \in UniqueSlugKinds /\ s # NoSlug =>
        \A j \in Ids \ {i} : d[j] # NoDoc /\ d[j].kind = k => d[j].slug # s
Distinct(d) == \A i \in Ids : d[i] # NoDoc => Free(d, d[i].kind, d[i].slug, i)

\* A call at work on one document of its collection has a slug for it that is
\* free, or that got a random number.
Aims(d, c) ==
    \E i \in Ids : /\ c.ids = {i}
                   /\ d[i] # NoDoc => d[i].kind = c.kind
                   /\ /\ c.pc = "set" /\ c.form.slug.salt = 0
                      /\ c.kind \notin RenamingKinds
                      => Free(d, c.kind, c.form.slug, i)
ChanceFits(d, c) ==
    /\ c.pc = "save" /\ c.form.slug.salt = 0 => Free(d, c.kind, c.form.slug, 0)
    /\ c.pc \in {"check", "set"} => Aims(d, c)

ChanceInv ==
    env.serial =>
        Distinct(docs) /\ \A a \in Admins : ChanceFits(docs, calls[a])

\* The index refuses what is not free.
LEMMA RefusedNotFree ==
    \A k, s, i : ~IndexRefuses(k, s, i) <=> Free(docs, k, s, i)
BY DEF IndexRefuses, Free, Of, Exists

\* Calls at other places have no slug.
LEMMA ChanceElse ==
    \A d, c : c.pc \notin {"save", "check", "set"} => ChanceFits(d, c)
BY DEF ChanceFits

\* Documents go or keep their slugs.
LEMMA DistinctKept ==
    ASSUME NEW d, NEW d2, Distinct(d),
           \A i \in Ids : d2[i] # NoDoc =>
               /\ d[i] # NoDoc
               /\ d2[i].kind = d[i].kind /\ d2[i].slug = d[i].slug
    PROVE  Distinct(d2)
BY DEF Distinct, Free

\* One document gets a slug that is free.
LEMMA DistinctOne ==
    ASSUME NEW d, NEW d2, NEW i \in Ids, Distinct(d),
           \A j \in Ids \ {i} : d2[j] = d[j],
           d2[i] # NoDoc, Free(d, d2[i].kind, d2[i].slug, i)
    PROVE  Distinct(d2)
<1> SUFFICES ASSUME NEW j \in Ids, d2[j] # NoDoc,
                    d2[j].kind \in UniqueSlugKinds, d2[j].slug # NoSlug,
                    NEW l \in Ids \ {j}, d2[l] # NoDoc, d2[l].kind = d2[j].kind
             PROVE  d2[l].slug # d2[j].slug
  BY DEF Distinct, Free
<1>1. CASE j = i
  BY <1>1 DEF Free
<1>2. CASE l = i
  BY <1>2 DEF Free
<1>3. CASE j # i /\ l # i
  BY <1>3 DEF Distinct, Free
<1> QED BY <1>1, <1>2, <1>3

\* The save of a document.
LEMMA DistinctSave ==
    ASSUME BackInv, Distinct(docs), NEW a \in Admins, NEW k, NEW f,
           SaveForm(a, k, f)
    PROVE  Distinct(docs')
<1>1. CASE UNCHANGED docs
  BY <1>1
<1>2. CASE /\ ~IndexRefuses(k, f.slug, 0)
           /\ docs' = [docs EXCEPT ![born + 1] = NewDoc(k, f, born + 1)]
  <2>1. CASE born + 1 \in Ids
    <3>1. Free(docs, k, f.slug, 0)
      BY <1>2, RefusedNotFree
    <3>2. 0 \notin Ids
      BY DEF Ids
    <3>3. Free(docs, k, Stored(k, f.slug), born + 1)
      BY <3>1, <3>2 DEF Free, Stored
    <3>4. /\ docs'[born + 1] = NewDoc(k, f, born + 1)
          /\ \A j \in Ids \ {born + 1} : docs'[j] = docs[j]
      BY <1>2, <2>1, Parts
    <3>5. /\ docs'[born + 1].kind = k
          /\ docs'[born + 1].slug = Stored(k, f.slug)
      BY <3>4 DEF NewDoc
    <3>6. PICK i \in Ids : i = born + 1
      BY <2>1
    <3>7. CASE docs'[i] = NoDoc
      <4>1. \A j \in Ids : docs'[j] # NoDoc => docs'[j] = docs[j]
        BY <3>4, <3>6, <3>7
      <4> QED BY <4>1, DistinctKept
    <3>8. CASE docs'[i] # NoDoc
      BY <3>3, <3>4, <3>5, <3>6, <3>8, DistinctOne
    <3> QED BY <3>7, <3>8
  <2>2. CASE born + 1 \notin Ids
    <3>1. docs' = docs
      BY <1>2, <2>2, Parts
    <3> QED BY <3>1
  <2> QED BY <2>1, <2>2
<1> QED BY <1>1, <1>2 DEF SaveForm

\* A set of numbers without a gap has as many as its largest.
LEMMA Prefix ==
    ASSUME NEW m \in Nat, NEW A \in SUBSET (1..m),
           \A n \in A : \A i \in 1..n : i \in A,
           NEW p \in 1..Cardinality(A)
    PROVE  p \in A
<1>1. IsFiniteSet(1..m)
  BY FS_Interval
<1>2. IsFiniteSet(A) /\ Cardinality(A) \in Nat
  BY <1>1, FS_Subset, FS_CardinalityType
<1>3. p \in Nat \ {0}
  BY <1>2
<1>4. SUFFICES ASSUME p \notin A PROVE FALSE
  OBVIOUS
<1>5. A \subseteq 1..(p - 1)
  <2> SUFFICES ASSUME NEW n \in A PROVE n \in 1..(p - 1)
    OBVIOUS
  <2>1. n \in Nat /\ n >= 1
    OBVIOUS
  <2>2. ~(p <= n)
    BY <1>3, <1>4, <2>1
  <2> QED BY <1>3, <2>1, <2>2
<1>6. IsFiniteSet(1..(p - 1)) /\ Cardinality(1..(p - 1)) = p - 1
  BY <1>3, FS_Interval
<1>7. Cardinality(A) <= p - 1
  BY <1>5, <1>6, FS_Subset
<1> QED BY <1>2, <1>3, <1>7

\* The accepted documents of a batch clash with nothing.
LEMMA AcceptedClean ==
    ASSUME NEW m \in Nat, NEW k, NEW batch, DOMAIN batch = 1..m,
           NEW p \in 1..Accepted(k, batch)
    PROVE  ~Clashes(k, batch, p)
<1> DEFINE A == {n \in 1..m : \A i \in 1..n : ~Clashes(k, batch, i)}
<1>1. Accepted(k, batch) = Cardinality(A)
  BY DEF Accepted
<1>2. \A n \in A : \A i \in 1..n : i \in A
  <2> SUFFICES ASSUME NEW n \in A, NEW i \in 1..n PROVE i \in A
    OBVIOUS
  <2>1. n \in 1..m /\ \A j \in 1..n : ~Clashes(k, batch, j)
    OBVIOUS
  <2>2. i \in 1..m /\ \A j \in 1..i : j \in 1..n
    BY <2>1
  <2> QED BY <2>1, <2>2
<1>3. A \in SUBSET (1..m)
  OBVIOUS
<1> HIDE DEF A
<1>4. p \in A
  BY <1>1, <1>2, <1>3, Prefix
<1>5. p \in 1..p
  BY <1>3, <1>4
<1> QED BY <1>4, <1>5 DEF A

\* An import.
LEMMA DistinctBatch ==
    ASSUME BackInv, Distinct(docs), NEW a \in Admins, NEW k, NEW forms,
           InsertBatch(a, k, forms)
    PROVE  Distinct(docs')
<1>1. born \in Nat /\ \A i \in Ids : i \in Nat
  BY CollectionsAssumption DEF BackInv, TypeOK, Ids, Ids0
<1> DEFINE Inserted(m, b, n) ==
      docs' = [i \in Ids |-> IF i \in (born + 1)..(born + n)
                             THEN NewDoc(k, b[i - born], born + 1)
                             ELSE docs[i]]
<1>2. PICK m \in 0..MaxBatch :
          \E b \in [1..m -> forms] : Inserted(m, b, Accepted(k, b))
  BY DEF InsertBatch
<1>3. PICK batch \in [1..m -> forms] : Inserted(m, batch, Accepted(k, batch))
  BY <1>2
<1> DEFINE n == Accepted(k, batch)
<1>4. n \in Nat /\ n <= m /\ m \in Nat
  BY AcceptedBound, CollectionsAssumption
<1>5. ASSUME NEW p \in 1..n
      PROVE  /\ Free(docs, k, batch[p].slug, 0)
             /\ k \in UniqueSlugKinds => \A q \in 1..(p - 1) :
                                            batch[q].slug # batch[p].slug
  <2>1. ~Clashes(k, batch, p)
    BY <1>4, AcceptedClean
  <2> QED BY <2>1, RefusedNotFree DEF Clashes
<1> HIDE DEF n
<1>6. docs' = [i \in Ids |-> IF i \in (born + 1)..(born + n)
                             THEN NewDoc(k, batch[i - born], born + 1)
                             ELSE docs[i]]
  BY <1>3 DEF n
<1> DEFINE New(i) == i \in (born + 1)..(born + n)
<1>7. ASSUME NEW i \in Ids, New(i)
      PROVE  /\ i - born \in 1..n
             /\ docs'[i].kind = k
             /\ k \in UniqueSlugKinds => docs'[i].slug = batch[i - born].slug
  <2>1. i - born \in 1..n
    BY <1>1, <1>4, <1>7
  <2>2. docs'[i] = NewDoc(k, batch[i - born], born + 1)
    BY <1>6, <1>7
  <2> QED BY <2>1, <2>2 DEF NewDoc, Stored
<1>8. ASSUME NEW i \in Ids, ~New(i)
      PROVE  docs'[i] = docs[i]
  BY <1>6, <1>8
<1> HIDE DEF New
<1> SUFFICES ASSUME NEW i \in Ids, docs'[i] # NoDoc,
                    docs'[i].kind \in UniqueSlugKinds, docs'[i].slug # NoSlug,
                    NEW j \in Ids, j # i, docs'[j] # NoDoc,
                    docs'[j].kind = docs'[i].kind, docs'[j].slug = docs'[i].slug
             PROVE  FALSE
  BY DEF Distinct, Free
<1>9. ASSUME NEW x \in Ids, NEW y \in Ids, New(x), ~New(y), docs'[y] # NoDoc,
             docs'[x].kind = docs'[y].kind, docs'[x].slug = docs'[y].slug,
             docs'[x].kind \in UniqueSlugKinds, docs'[x].slug # NoSlug
      PROVE  FALSE
  <2>1. 0 \notin Ids
    BY DEF Ids
  <2>2. docs[y] = docs'[y]
    BY <1>8, <1>9
  <2>3. PICK p \in 1..n : p = x - born
    BY <1>7, <1>9
  <2>4. Free(docs, k, batch[p].slug, 0)
    BY <1>5
  <2>5. docs'[x].kind = k /\ docs'[x].slug = batch[p].slug
    BY <1>7, <1>9, <2>3
  <2> QED BY <1>9, <2>1, <2>2, <2>4, <2>5 DEF Free
<1>10. ASSUME NEW x \in Ids, NEW y \in Ids, New(x), New(y), x < y,
              docs'[x].slug = docs'[y].slug, docs'[y].kind \in UniqueSlugKinds
       PROVE  FALSE
  <2>1. x - born \in 1..n /\ y - born \in 1..n
    BY <1>7, <1>10
  <2>2. PICK p \in 1..n : p = y - born
    BY <2>1
  <2>3. PICK q \in 1..(p - 1) : q = x - born
    BY <1>1, <1>10, <2>1, <2>2
  <2>4. docs'[y].kind = k
    BY <1>7, <1>10
  <2>5. batch[q].slug = batch[p].slug
    BY <1>7, <1>10, <2>2, <2>3, <2>4
  <2> QED BY <1>5, <1>10, <2>4, <2>5
<1>11. i < j \/ j < i
  BY <1>1
<1>12. CASE New(i) /\ New(j)
  BY <1>10, <1>11, <1>12
<1>13. CASE New(i) /\ ~New(j)
  BY <1>9, <1>13
<1>14. CASE ~New(i) /\ New(j)
  BY <1>9, <1>14
<1>15. CASE ~New(i) /\ ~New(j)
  <2>1. docs'[i] = docs[i] /\ docs'[j] = docs[j]
    BY <1>8, <1>15
  <2> QED BY <2>1 DEF Distinct, Free
<1> QED BY <1>12, <1>13, <1>14, <1>15

\* The slug an add or an update goes on with.
LEMMA FinalFree ==
    ASSUME NEW k, NEW t, NEW s \in FinalSlugs(k, t), s.salt = 0, NEW i
    PROVE  Free(docs, k, s, i)
<1>1. CASE SlugTaken(k, t)
  <2>1. s \in Salted(t.base)
    BY <1>1 DEF FinalSlugs
  <2>2. PICK n \in 1..SaltMax : s = [base |-> t.base, salt |-> n]
    BY <2>1 DEF Salted
  <2>3. s.salt = n /\ n # 0
    BY <2>2, CollectionsAssumption
  <2> QED BY <2>3
<1>2. CASE ~SlugTaken(k, t)
  <2>1. s = t
    BY <1>2 DEF FinalSlugs
  <2> QED BY <1>2, <2>1 DEF SlugTaken, Free, Of, Exists
<1> QED BY <1>1, <1>2

\* The handlers that add.
LEMMA ChanceAdding ==
    ASSUME BackInv, Distinct(docs), NEW a \in Admins, NEW k, Adding(a, k),
           ChanceFits(docs, calls[a])
    PROVE  Distinct(docs') /\ ChanceFits(docs', calls'[a])
<1>0. ChanceFits(docs', Idle)
  BY ChanceElse, IdleType
<1>1. CASE AddCheckingSlug(a, k)
  <2>1. PICK f \in SlugForms(k) : \E s \in FinalSlugs(k, f.slug) :
            Goto(a, [Idle EXCEPT !.pc = "save", !.kind = k,
                                 !.form = [f EXCEPT !.slug = s]])
    BY <1>1 DEF AddCheckingSlug
  <2>2. PICK s \in FinalSlugs(k, f.slug) :
            calls'[a] = [Idle EXCEPT !.pc = "save", !.kind = k,
                                     !.form = [f EXCEPT !.slug = s]]
    BY <2>1, Parts
  <2>3. f \in Form
    BY FormTypes DEF BackInv
  <2>4. /\ calls'[a].pc = "save" /\ calls'[a].kind = k
        /\ calls'[a].form = [f EXCEPT !.slug = s]
    BY <2>2 DEF Idle
  <2>5. calls'[a].form.slug = s
    BY <2>3, <2>4 DEF Form
  <2>6. s.salt = 0 => Free(docs, k, s, 0)
    BY FinalFree
  <2> QED BY <1>1, <2>4, <2>5, <2>6 DEF AddCheckingSlug, ChanceFits
<1>2. ASSUME NEW forms, AddAtOnce(a, k, forms)
      PROVE  Distinct(docs') /\ ChanceFits(docs', calls'[a])
  <2>1. PICK f \in forms : SaveForm(a, k, f)
    BY <1>2 DEF AddAtOnce
  <2>2. calls'[a] = Idle
    BY <2>1, SaveGrows
  <2> QED BY <1>0, <2>1, <2>2, DistinctSave
<1>3. CASE AddAdditionalPage(a)
  <2>1. PICK f \in SlugForms("additionalPage") :
            \/ UNCHANGED calls
            \/ /\ ~SlugTaken("additionalPage", f.slug)
               /\ calls'[a] = [Idle EXCEPT !.pc = "save", !.form = f,
                                           !.kind = "additionalPage"]
    BY <1>3, Parts DEF AddAdditionalPage
  <2>2. CASE UNCHANGED calls
    BY <1>3, <2>2 DEF AddAdditionalPage
  <2>3. CASE /\ ~SlugTaken("additionalPage", f.slug)
             /\ calls'[a] = [Idle EXCEPT !.pc = "save", !.form = f,
                                         !.kind = "additionalPage"]
    <3>1. /\ calls'[a].pc = "save" /\ calls'[a].kind = "additionalPage"
          /\ calls'[a].form = f
      BY <2>3 DEF Idle
    <3>2. Free(docs, "additionalPage", f.slug, 0)
      BY <2>3 DEF SlugTaken, Free, Of, Exists
    <3> QED BY <1>3, <3>1, <3>2 DEF AddAdditionalPage, ChanceFits
  <2> QED BY <2>1, <2>2, <2>3
<1> QED BY <1>1, <1>2, <1>3 DEF Adding

\* The handlers that import.
LEMMA ChanceImporting ==
    ASSUME BackInv, Distinct(docs), NEW a \in Admins, NEW k, Importing(a, k)
    PROVE  Distinct(docs') /\ ChanceFits(docs', calls'[a])
<1>1. CASE ClearForImport(a, k)
  <2>1. Distinct(docs')
    BY <1>1, DistinctKept DEF ClearForImport, Remove
  <2>2. calls'[a] = [Idle EXCEPT !.pc = "import", !.kind = k]
    BY <1>1, Parts DEF ClearForImport
  <2>3. calls'[a].pc = "import"
    BY <2>2 DEF Idle
  <2> QED BY <2>1, <2>3, ChanceElse
<1>2. ASSUME NEW forms, InsertMany(a, k, forms)
      PROVE  Distinct(docs') /\ ChanceFits(docs', calls'[a])
  <2>1. CASE InsertBatch(a, k, forms)
    <3>1. calls'[a] = Idle
      BY <2>1, BatchGrows
    <3>2. Distinct(docs')
      BY <2>1, DistinctBatch
    <3> QED BY <3>1, <3>2, ChanceElse, IdleType
  <2> QED BY <1>1, <1>2, <2>1 DEF InsertMany
<1> QED BY <1>2 DEF Importing

\* Fields other than the slug.
LEMMA DistinctFields ==
    ASSUME BackInv, Distinct(docs), NEW S, NEW f \in Form, f.slug = NoSlug,
           SetFields(S, f)
    PROVE  Distinct(docs')
<1>1. Reset(docs, docs', S, f)
  BY SetResets
<1>2. ASSUME NEW i \in Ids, docs'[i] # NoDoc
      PROVE  /\ docs[i] # NoDoc
             /\ docs'[i].kind = docs[i].kind /\ docs'[i].slug = docs[i].slug
  <2>1. CASE docs'[i] = docs[i]
    BY <1>2, <2>1
  <2>2. CASE docs[i] # NoDoc /\ docs'[i] = Filled(docs[i], f)
    <3>1. docs[i] \in Doc
      BY <2>2 DEF BackInv, TypeOK
    <3> QED BY <2>2, <3>1 DEF Filled, Stored, Doc
  <2> QED BY <1>1, <2>1, <2>2 DEF Reset
<1> QED BY <1>2, DistinctKept

\* A slug for one document.
LEMMA DistinctField ==
    ASSUME BackInv, Distinct(docs), NEW i \in Ids, NEW f \in Form,
           docs[i] # NoDoc => ~IndexRefuses(docs[i].kind, f.slug, i),
           SetFields({i}, f)
    PROVE  Distinct(docs')
<1>1. CASE f.slug = NoSlug
  BY <1>1, DistinctFields
<1>2. CASE f.slug # NoSlug
  <2>1. Reset(docs, docs', {i}, f)
    BY SetResets
  <2>2. \A j \in Ids \ {i} : docs'[j] = docs[j]
    BY <2>1 DEF Reset
  <2>3. CASE docs'[i] = docs[i]
    BY <2>2, <2>3, DistinctKept
  <2>4. CASE docs[i] # NoDoc /\ docs'[i] = Filled(docs[i], f)
    <3>1. docs[i] \in Doc
      BY <2>4 DEF BackInv, TypeOK
    <3>2. /\ docs'[i].kind = docs[i].kind
          /\ docs'[i].slug = Stored(docs[i].kind, f.slug)
          /\ docs'[i] # NoDoc
      <4>1. docs'[i] \in Doc
        BY <2>4, <3>1, DocTypes
      <4> QED BY <1>2, <2>4, <3>1, <4>1, DocTypes DEF Filled, Doc
    <3>3. Free(docs, docs[i].kind, Stored(docs[i].kind, f.slug), i)
      <4>1. Free(docs, docs[i].kind, f.slug, i)
        BY <2>4, RefusedNotFree
      <4> QED BY <4>1 DEF Free, Stored
    <3> QED BY <2>2, <3>2, <3>3, DistinctOne
  <2> QED BY <2>1, <2>3, <2>4 DEF Reset
<1> QED BY <1>1, <1>2

\* The handlers that update.
LEMMA ChanceUpdating ==
    ASSUME BackInv, Distinct(docs), NEW a \in Admins, NEW k, Updating(a, k)
    PROVE  Distinct(docs') /\ ChanceFits(docs', calls'[a])
<1>0. ChanceFits(docs', Idle)
  BY ChanceElse, IdleType
<1>1. CASE UpdateCheckingSlug(a, k)
  <2>1. PICK i \in Of(k), s \in {Plain(b) : b \in env.names}
                                  \union {docs[j].slug : j \in Of(k)} :
            calls'[a] = [Idle EXCEPT !.pc = IF docs[i].slug = s THEN "set"
                                                                ELSE "check",
                                     !.kind = k, !.ids = {i}, !.form.slug = s]
    BY <1>1, Parts DEF UpdateCheckingSlug
  <2>2. /\ calls'[a].pc = IF docs[i].slug = s THEN "set" ELSE "check"
        /\ calls'[a].kind = k /\ calls'[a].ids = {i}
        /\ calls'[a].form = [NoForm EXCEPT !.slug = s]
        /\ i \in Ids /\ docs[i] # NoDoc /\ docs[i].kind = k
    BY <2>1 DEF Idle, Of, Exists
  <2>3. calls'[a].form.slug = s
    BY <2>2, NoFormType DEF Form
  <2>4. docs[i].slug = s => Free(docs, k, s, i)
    BY <2>2 DEF Distinct
  <2>5. UNCHANGED docs
    BY <1>1 DEF UpdateCheckingSlug
  <2>6. calls'[a].pc = "set" => docs[i].slug = s
    BY <2>2
  <2>7. Aims(docs, calls'[a])
    BY <2>2, <2>3, <2>4, <2>6 DEF Aims
  <2>8. calls'[a].pc # "save"
    BY <2>2
  <2> QED BY <2>5, <2>7, <2>8 DEF ChanceFits
<1>2. CASE k \in Followers /\ UpdateRenaming(a, k)
  <2>0. ToRename(a, k)
    <3>1. TypeOK /\ UpdateRenaming(a, k)
      BY <1>2 DEF BackInv
    <3> QED BY <3>1, RenamingForm
  <2>1. PICK i \in Of(k), n \in Bases \union {NoName}, s \in Slugs :
            calls'[a] = [Idle EXCEPT !.pc = "set", !.kind = k, !.ids = {i},
                                     !.form.slug = s, !.form.name = n]
    BY <2>0, Parts DEF ToRename
  <2>2. /\ calls'[a].pc = "set" /\ calls'[a].kind = k /\ calls'[a].ids = {i}
        /\ i \in Ids /\ docs[i].kind = k
    BY <2>1 DEF Idle, Of, Exists
  <2>3. k \in RenamingKinds \/ k \notin UniqueSlugKinds
    BY <1>2 DEF Followers, RenamingKinds, UniqueSlugKinds
  <2>4. Aims(docs, calls'[a])
    BY <2>2, <2>3 DEF Aims, Free
  <2> QED BY <1>2, <2>2, <2>4 DEF ChanceFits, UpdateRenaming
<1>3. CASE UpdateFound(a, k)
  <2>1. PICK i \in Of(k), n \in env.names :
            calls'[a] = [Idle EXCEPT !.pc = "set", !.kind = k, !.ids = {i},
                                     !.form.name = n]
    BY <1>3, Parts DEF UpdateFound
  <2>2. /\ calls'[a].pc = "set" /\ calls'[a].kind = k /\ calls'[a].ids = {i}
        /\ calls'[a].form = [NoForm EXCEPT !.name = n]
        /\ i \in Ids /\ docs[i].kind = k
    BY <2>1 DEF Idle, Of, Exists
  <2>3. calls'[a].form.slug = NoSlug
    BY <2>2, NoFormType, FormFields DEF Form
  <2>4. Free(docs, k, NoSlug, i)
    BY DEF Free
  <2>5. Aims(docs, calls'[a])
    BY <2>2, <2>3, <2>4 DEF Aims
  <2> QED BY <1>3, <2>2, <2>5 DEF ChanceFits, UpdateFound
<1>4. CASE UpdateAtOnce(a, k)
  <2>1. PICK i \in Of(k), f \in NameForms : SetFields({i}, f)
    BY <1>4 DEF UpdateAtOnce
  <2>2. f \in Form /\ f.slug = NoSlug
    BY FormTypes, FormFields DEF BackInv
  <2>3. Distinct(docs')
    BY <2>1, <2>2, DistinctFields
  <2> QED BY <1>0, <1>4, <2>3 DEF UpdateAtOnce, MayCall
<1>5. CASE UpdateManyNames(a, k)
  <2>1. PICK S \in SUBSET Of(k), n \in env.names \union {NoName} :
            SetFields(S, [NoForm EXCEPT !.name = n])
    BY <1>5 DEF UpdateManyNames
  <2>2. PICK f \in Form : f = [NoForm EXCEPT !.name = n]
    BY NoFormType, FormTypes DEF Form, BackInv
  <2>3. f.slug = NoSlug
    BY <2>2, NoFormType, FormFields DEF Form
  <2>4. Distinct(docs')
    BY <2>1, <2>2, <2>3, DistinctFields
  <2> QED BY <1>0, <1>5, <2>4 DEF UpdateManyNames, MayCall
<1>6. CASE UpdateManySlugs(a, k)
  <2>1. PICK S \in SUBSET Of(k), b \in env.names : \E first \in S :
            IF IndexRefuses(k, Plain(b), first)
              THEN UNCHANGED docs
              ELSE SetFields({first}, [NoForm EXCEPT !.slug = Plain(b)])
    BY <1>6 DEF UpdateManySlugs
  <2>2. PICK first \in S :
            IF IndexRefuses(k, Plain(b), first)
              THEN UNCHANGED docs
              ELSE SetFields({first}, [NoForm EXCEPT !.slug = Plain(b)])
    BY <2>1
  <2>3. PICK f \in Form : f = [NoForm EXCEPT !.slug = Plain(b)]
    BY NoFormType, SlugTypes, FormTypes DEF BackInv, Form
  <2>4. f.slug = Plain(b)
    BY <2>3, NoFormType DEF Form
  <2>5. first \in Ids /\ docs[first].kind = k
    BY DEF Of
  <2>6. Distinct(docs')
    BY <2>2, <2>3, <2>4, <2>5, DistinctField
  <2> QED BY <1>0, <1>6, <2>6 DEF UpdateManySlugs, MayCall
<1>7. CASE UpdateManyElse(a, k)
  BY <1>0, <1>7 DEF UpdateManyElse, MayCall, vars
<1> QED BY <1>1, <1>2, <1>3, <1>4, <1>5, <1>6, <1>7 DEF Updating

\* The handlers that delete.
LEMMA ChanceDeleting ==
    ASSUME BackInv, Distinct(docs), NEW a \in Admins, NEW k, Deleting(a, k)
    PROVE  Distinct(docs') /\ ChanceFits(docs', calls'[a])
<1>1. ASSUME calls'[a].pc = "delete", UNCHANGED docs
      PROVE  Distinct(docs') /\ ChanceFits(docs', calls'[a])
  BY <1>1, ChanceElse
<1>2. ASSUME NEW guarded, NEW next, DeleteFound(a, k, guarded, next)
      PROVE  Distinct(docs') /\ ChanceFits(docs', calls'[a])
  <2>1. PICK i, n : calls'[a] = [Idle EXCEPT !.pc = "delete", !.kind = k,
                                   !.ids = {i}, !.doomed = {i}, !.next = n]
    BY <1>2, Parts DEF DeleteFound
  <2>2. calls'[a].pc = "delete"
    BY <2>1 DEF Idle
  <2> QED BY <1>1, <1>2, <2>2 DEF DeleteFound
<1>3. ASSUME NEW next, DeleteManyFound(a, k, next)
      PROVE  Distinct(docs') /\ ChanceFits(docs', calls'[a])
  <2>1. PICK S, n : calls'[a] = [Idle EXCEPT !.pc = "delete", !.kind = k,
                         !.ids = S, !.doomed = Deletable(S), !.next = n]
    BY <1>3, Parts DEF DeleteManyFound
  <2>2. calls'[a].pc = "delete"
    BY <2>1 DEF Idle
  <2> QED BY <1>1, <1>3, <2>2 DEF DeleteManyFound
<1>4. ASSUME NEW sets, NEW next \in {"idle", "pull"},
             DeleteAtOnce(a, k, sets, next)
      PROVE  Distinct(docs') /\ ChanceFits(docs', calls'[a])
  <2>1. Distinct(docs')
    BY <1>4, DistinctKept DEF DeleteAtOnce, Remove
  <2>2. \/ calls'[a] = Idle
        \/ \E S : calls'[a] = [Idle EXCEPT !.pc = next, !.kind = k, !.ids = S]
    BY <1>4, Parts DEF DeleteAtOnce
  <2>3. calls'[a].pc \in {"idle", "pull"}
    BY <2>2, IdleType DEF Idle
  <2> QED BY <2>1, <2>3, ChanceElse
<1> QED BY <1>2, <1>3, <1>4 DEF Deleting

\* What handlers go on with.
LEMMA ChanceContinue ==
    ASSUME BackInv, Distinct(docs), NEW a \in Admins, Continue(a),
           ChanceFits(docs, calls[a])
    PROVE  Distinct(docs') /\ ChanceFits(docs', calls'[a])
<1>0. ChanceFits(docs', Idle)
  BY ChanceElse, IdleType
<1>1. CASE SaveDocument(a)
  <2>1. calls'[a] = Idle
    BY <1>1, SaveGrows DEF SaveDocument
  <2>2. Distinct(docs')
    BY <1>1, DistinctSave DEF SaveDocument
  <2> QED BY <1>0, <2>1, <2>2
<1>2. CASE CheckSlug(a)
  <2>1. PICK s \in FinalSlugs(calls[a].kind, calls[a].form.slug) :
            calls'[a] = [calls[a] EXCEPT !.pc = "set", !.form.slug = s]
    BY <1>2, Parts DEF CheckSlug
  <2>2. /\ calls'[a].pc = "set" /\ calls'[a].kind = calls[a].kind
        /\ calls'[a].ids = calls[a].ids
        /\ calls'[a].form = [calls[a].form EXCEPT !.slug = s]
    BY <2>1, Parts DEF Call
  <2>3. calls'[a].form.slug = s
    BY <2>2, Parts DEF Form
  <2>4. PICK i \in Ids : /\ calls[a].ids = {i}
                         /\ docs[i] # NoDoc => docs[i].kind = calls[a].kind
    BY <1>2 DEF CheckSlug, ChanceFits, Aims
  <2>5. s.salt = 0 => Free(docs, calls[a].kind, s, i)
    BY FinalFree
  <2>6. Aims(docs, calls'[a])
    BY <2>2, <2>3, <2>4, <2>5 DEF Aims
  <2> QED BY <1>2, <2>2, <2>6 DEF CheckSlug, ChanceFits
<1>3. CASE SetDocument(a)
  <2>1. calls'[a] = Idle
    BY <1>3, Parts DEF SetDocument
  <2>2. PICK i \in Ids : /\ calls[a].ids = {i}
                         /\ docs[i] # NoDoc => docs[i].kind = calls[a].kind
    BY <1>3 DEF SetDocument, ChanceFits, Aims
  <2>3. CASE UNCHANGED docs
    BY <1>0, <2>1, <2>3
  <2>4. CASE /\ \A j \in calls[a].ids :
                    ~IndexRefuses(calls[a].kind, calls[a].form.slug, j)
             /\ SetFields(calls[a].ids, calls[a].form)
    <3>1. docs[i] # NoDoc => ~IndexRefuses(docs[i].kind, calls[a].form.slug, i)
      BY <2>2, <2>4
    <3>2. calls[a].form \in Form
      BY Parts
    <3>3. SetFields({i}, calls[a].form)
      BY <2>2, <2>4
    <3>4. Distinct(docs')
      BY <3>1, <3>2, <3>3, DistinctField
    <3> QED BY <1>0, <2>1, <3>4
  <2> QED BY <1>3, <2>3, <2>4 DEF SetDocument
<1>4. CASE DeleteDocuments(a)
  <2>1. Distinct(docs')
    BY <1>4, DistinctKept DEF DeleteDocuments, Remove
  <2>2. calls'[a] = IF calls[a].next = "idle" THEN Idle
                    ELSE [calls[a] EXCEPT !.pc = calls[a].next]
    BY <1>4, Parts DEF DeleteDocuments
  <2>3. calls'[a].pc \in {"idle", "heir", "pull"}
    BY <2>2, Parts, IdleType DEF Call
  <2> QED BY <2>1, <2>3, ChanceElse
<1>5. CASE MoveSubCategories(a)
  <2>1. calls'[a] = [calls[a] EXCEPT !.pc = "reset"]
    BY <1>5, Parts DEF MoveSubCategories
  <2>2. calls'[a].pc = "reset"
    BY <2>1, Parts DEF Call
  <2>3. PICK f \in Form : f = [NoForm EXCEPT !.parent = calls[a].heir]
    BY Parts, NoFormType DEF Form
  <2>4. f.slug = NoSlug
    BY <2>3, NoFormType, FormFields DEF Form
  <2>5. SetFields(Orphans(calls[a]), f)
    BY <1>5, <2>3 DEF MoveSubCategories
  <2>6. Distinct(docs')
    BY <2>4, <2>5, DistinctFields
  <2> QED BY <2>2, <2>6, ChanceElse
<1>6. CASE FindHeir(a)
  <2>1. ASSUME NEW h, calls'[a] = [calls[a] EXCEPT !.heir = h, !.pc =
                       IF calls[a].kind = "category" THEN "heirSub" ELSE "reset"]
        PROVE  calls'[a].pc \in {"heirSub", "reset"}
    BY <2>1, Parts DEF Call
  <2> QED BY <1>0, <1>6, <2>1, Parts, ChanceElse DEF FindHeir
<1>7. CASE FindHeirSub(a)
  <2>1. ASSUME NEW h,
               calls'[a] = [calls[a] EXCEPT !.heirSub = h, !.pc = "moveSubs"]
        PROVE  calls'[a].pc = "moveSubs"
    BY <2>1, Parts DEF Call
  <2> QED BY <1>0, <1>7, <2>1, Parts, ChanceElse DEF FindHeirSub
<1>8. CASE PullFromProducts(a) \/ ResetProducts(a) \/ CallFails(a)
  BY <1>0, <1>8, Parts DEF PullFromProducts, ResetProducts, CallFails
<1> QED BY <1>1, <1>2, <1>3, <1>4, <1>5, <1>6, <1>7, <1>8 DEF Continue

\* Every step.
LEMMA ChanceNext == BackInv /\ Solo /\ ChanceInv /\ [Next]_vars => ChanceInv'
<1> SUFFICES ASSUME BackInv, Solo, ChanceInv, [Next]_vars, env'.serial
             PROVE  /\ Distinct(docs')
                    /\ \A a \in Admins : ChanceFits(docs', calls'[a])
  BY DEF ChanceInv
<1>1. CASE UNCHANGED <<world, docs, calls>>
  BY <1>1 DEF ChanceInv, world
<1>2. ASSUME NEW a \in Admins, (\E k : Handled(a, k)) \/ Continue(a)
      PROVE  /\ Distinct(docs')
             /\ \A b \in Admins : ChanceFits(docs', calls'[b])
  <2>1. env.serial
    BY <1>2, OwnCall DEF world
  <2>2. CASE Alone(a) /\ ~\E k : GetAll(k)
    <3>1. Distinct(docs') /\ ChanceFits(docs', calls'[a])
      BY <1>2, <2>1, <2>2, ChanceAdding, ChanceImporting, ChanceUpdating,
         ChanceDeleting, ChanceContinue DEF Handled, ChanceInv
    <3>2. ASSUME NEW b \in Admins \ {a} PROVE ChanceFits(docs', calls'[b])
      BY <2>1, <2>2, ChanceElse, IdleType DEF Alone
    <3> QED BY <3>1, <3>2
  <2>3. CASE \E k : GetAll(k)
    BY <1>1, <2>3 DEF GetAll
  <2> QED BY <1>2, <2>2, <2>3, StepAlone
<1> QED BY <1>1, <1>2, CatalogHandled, ContentHandled
        DEF Next, SaveProduct, vars, world

\* The start: the documents have no slug yet.
LEMMA ChanceInit == Init => ChanceInv
<1> SUFFICES ASSUME Init PROVE ChanceInv
  OBVIOUS
<1>1. docs = Seed(live) /\ \A a \in Admins : calls[a] = Idle
  BY DEF Init
<1>2. Distinct(docs)
  BY <1>1, SeedFields DEF Distinct, Free
<1>3. \A a \in Admins : ChanceFits(docs, calls[a])
  BY <1>1, ChanceElse, IdleType
<1> QED BY <1>2, <1>3 DEF ChanceInv

\* What findOne({slug}) did not find in addTag, updateTagById and their like is
\* still free when they write, while calls come one at a time: but for brands
\* and folders, the unique index refuses a slug only if its number was drawn.
THEOREM RefusedByChanceOnlyAlways == Spec => []RefusedByChanceOnly
<1>1. ChanceInv => RefusedByChanceOnly
  <2> SUFFICES ASSUME ChanceInv, env.serial, NEW a \in Admins,
                      calls[a].pc \in {"save", "set"},
                      calls[a].form.slug.salt = 0,
                      calls[a].kind \notin RenamingKinds,
                      IndexRefuses(calls[a].kind, calls[a].form.slug,
                                   IF calls[a].pc = "set"
                                   THEN CHOOSE i \in calls[a].ids : TRUE
                                   ELSE 0)
               PROVE  FALSE
    BY DEF RefusedByChanceOnly
  <2>1. ChanceFits(docs, calls[a])
    BY DEF ChanceInv
  <2>2. CASE calls[a].pc = "save"
    BY <2>1, <2>2, RefusedNotFree DEF ChanceFits
  <2>3. CASE calls[a].pc = "set"
    <3>1. PICK i \in Ids : /\ calls[a].ids = {i}
                           /\ Free(docs, calls[a].kind, calls[a].form.slug, i)
      BY <2>1, <2>3 DEF ChanceFits, Aims
    <3>2. (CHOOSE j \in calls[a].ids : TRUE) = i
      BY <3>1
    <3> QED BY <2>3, <3>1, <3>2, RefusedNotFree
  <2> QED BY <2>2, <2>3
<1> QED BY <1>1, ChanceInit, ChanceNext, SoloAlways, BackInvAlways, PTL DEF Spec

(***************************************************************************)
(* References                                                              *)
(***************************************************************************)
ThereIs(d, k, i) == i \in Ids /\ d[i] # NoDoc /\ d[i].kind = k

\* The defaults are there; of the categories only the first is read-only.
Defaults(K, d) ==
    /\ "category" \in K =>
          /\ ThereIs(d, "category", 1) /\ d[1].readOnly
          /\ ThereIs(d, "subCategory", 2) /\ d[2].readOnly /\ d[2].parent = 1
    /\ "brand" \in K => ThereIs(d, "brand", 1) /\ d[1].readOnly
    /\ \A i \in Ids : ThereIs(d, "category", i) /\ d[i].readOnly => i = 1

\* What a call carries from one step to the next.
Handing == {"heir", "heirSub", "moveSubs", "reset"}
RefFits(K, d, c) ==
    /\ c.pc = "save" /\ c.kind = "subCategory" =>
          ThereIs(d, "category", c.form.parent)
    /\ c.pc = "save" /\ c.kind = "category" => ~c.form.readOnly
    /\ c.pc \in {"check", "set"} => c.form.parent = 0
    /\ c.pc = "delete" =>
          /\ c.kind \in K
          /\ \A i \in c.doomed : i \in c.ids /\ ThereIs(d, c.kind, i)
          /\ c.kind \in HeirKinds =>
                c.next = "heir" /\ \A i \in c.doomed : ~d[i].readOnly
    /\ c.pc \in Handing => c.kind \in K
    /\ c.pc \in {"heirSub", "moveSubs"} => c.kind = "category" /\ c.heir = 1
    /\ c.pc = "moveSubs" => ThereIs(d, "subCategory", c.heirSub)
    /\ c.pc = "reset" =>
          /\ c.kind \in HeirKinds => ThereIs(d, c.kind, c.heir)
          /\ c.kind = "category" => ThereIs(d, "subCategory", c.heirSub)

\* What products and sub-categories may refer to until a call has handed over.
MayDangle(c, k) == IF c.pc \in Handing /\ c.kind = k THEN c.ids ELSE {}
MayBeOrphan(c) ==
    IF c.pc \in Handing \ {"reset"} /\ c.kind = "category" THEN c.ids ELSE {}

\* All references are to documents, or to some that call c is handing over.
Refers(d, r, c) ==
    /\ \A p \in Products, k \in HeirKinds :
          r[p][k] # 0 => ThereIs(d, k, r[p][k]) \/ r[p][k] \in MayDangle(c, k)
    /\ \A i \in Ids :
          ThereIs(d, "subCategory", i) =>
              \/ ThereIs(d, "category", d[i].parent)
              \/ d[i].parent \in MayBeOrphan(c)

Sound(d, r, c) == Defaults(live, d) /\ RefFits(live, d, c) /\ Refers(d, r, c)

Lone(cs, a) == \A b \in Admins \ {a} : cs[b] = Idle
Still(cs) == \A a \in Admins : cs[a] = Idle
AllSound(K, d, r, cs) ==
    /\ Defaults(K, d)
    /\ \A a \in Admins : RefFits(K, d, cs[a])
    /\ \A a \in Admins : Lone(cs, a) => Refers(d, r, cs[a])
    /\ Still(cs) => Refers(d, r, Idle)

RefInv == env.careful /\ env.serial => AllSound(live, docs, refs, calls)

\* Documents d2 have those of d that others refer to, and some new ones.
Keeps(d, d2) ==
    \A i \in Ids :
        /\ d[i] # NoDoc /\ d[i].kind \in HeirKinds =>
              /\ d2[i] # NoDoc /\ d2[i].kind = d[i].kind
              /\ d2[i].readOnly = d[i].readOnly /\ d2[i].parent = d[i].parent
        /\ d2[i] # NoDoc /\ d2[i].kind \in HeirKinds =>
              \/ d[i] # NoDoc /\ d[i].kind \in HeirKinds
              \/ /\ d2[i].kind = "category" => ~d2[i].readOnly
                 /\ d2[i].kind = "subCategory" =>
                        ThereIs(d, "category", d2[i].parent)

\* The idle call.
LEMMA IdleFits ==
    ASSUME NEW d
    PROVE  /\ RefFits(live, d, Idle)
           /\ \A k : MayDangle(Idle, k) = {}
           /\ MayBeOrphan(Idle) = {}
<1>1. Idle.pc = "idle"
  BY IdleType
<1> QED BY <1>1 DEF RefFits, MayDangle, MayBeOrphan, Handing

\* A call that hands nothing over lets no reference dangle.
LEMMA RefersLoose ==
    ASSUME NEW d, NEW r, NEW c, NEW c2, c.pc \notin Handing, Refers(d, r, c)
    PROVE  Refers(d, r, c2)
<1>1. \A k : MayDangle(c, k) = {}
  BY DEF MayDangle
<1>2. MayBeOrphan(c) = {}
  BY DEF MayBeOrphan
<1> QED BY <1>1, <1>2 DEF Refers

\* Documents that others refer to stay.
LEMMA ThereStays ==
    ASSUME NEW d, NEW d2, Keeps(d, d2), NEW k \in HeirKinds, NEW i,
           ThereIs(d, k, i)
    PROVE  /\ ThereIs(d2, k, i)
           /\ d2[i].readOnly = d[i].readOnly /\ d2[i].parent = d[i].parent
BY DEF Keeps, ThereIs

\* The defaults among them.
LEMMA DefaultsStay ==
    ASSUME NEW d, NEW d2, Keeps(d, d2), Defaults(live, d)
    PROVE  Defaults(live, d2)
<1>1. {"category", "subCategory", "brand"} \subseteq HeirKinds
  BY DEF HeirKinds
<1>2. ASSUME "category" \in live
      PROVE  /\ ThereIs(d2, "category", 1) /\ d2[1].readOnly
             /\ ThereIs(d2, "subCategory", 2) /\ d2[2].readOnly
             /\ d2[2].parent = 1
  BY <1>1, <1>2, ThereStays DEF Defaults
<1>3. ASSUME "brand" \in live
      PROVE  ThereIs(d2, "brand", 1) /\ d2[1].readOnly
  BY <1>1, <1>3, ThereStays DEF Defaults
<1>4. ASSUME NEW i \in Ids, ThereIs(d2, "category", i), d2[i].readOnly
      PROVE  i = 1
  <2>1. d[i] # NoDoc /\ d[i].kind \in HeirKinds
    BY <1>1, <1>4 DEF Keeps, ThereIs
  <2>2. d[i].kind = "category" /\ d[i].readOnly
    BY <1>4, <2>1 DEF Keeps, ThereIs
  <2> QED BY <2>1, <2>2 DEF Defaults, ThereIs
<1> QED BY <1>2, <1>3, <1>4 DEF Defaults

\* What a call that hands nothing over does to documents nobody refers to.
LEMMA SoundKept ==
    ASSUME NEW d, NEW d2, NEW r, NEW c, NEW c2, Sound(d, r, c), Keeps(d, d2),
           c.pc \notin Handing, RefFits(live, d2, c2)
    PROVE  Sound(d2, r, c2)
<1>1. "category" \in HeirKinds /\ "subCategory" \in HeirKinds
  BY DEF HeirKinds
<1>2. Refers(d, r, Idle)
  BY RefersLoose DEF Sound
<1>3. ASSUME NEW p \in Products, NEW k \in HeirKinds, r[p][k] # 0
      PROVE  ThereIs(d2, k, r[p][k])
  BY <1>2, <1>3, IdleFits, ThereStays DEF Refers
<1>4. ASSUME NEW i \in Ids, ThereIs(d2, "subCategory", i)
      PROVE  ThereIs(d2, "category", d2[i].parent)
  <2>1. CASE d[i] # NoDoc /\ d[i].kind \in HeirKinds
    <3>1. ThereIs(d, "subCategory", i) /\ d2[i].parent = d[i].parent
      BY <1>4, <2>1 DEF Keeps, ThereIs
    <3>2. ThereIs(d, "category", d[i].parent)
      BY <1>2, <3>1, IdleFits DEF Refers
    <3> QED BY <1>1, <3>1, <3>2, ThereStays
  <2>2. CASE ThereIs(d, "category", d2[i].parent)
    BY <1>1, <2>2, ThereStays
  <2> QED BY <1>1, <1>4, <2>1, <2>2 DEF Keeps, ThereIs
<1>5. Defaults(live, d2)
  BY DefaultsStay DEF Sound
<1> QED BY <1>3, <1>4, <1>5 DEF Sound, Refers

\* Nothing changes.
LEMMA KeepsSame == \A d : Keeps(d, d)
BY DEF Keeps

\* New documents.
LEMMA KeepsGrown ==
    ASSUME BackInv, NEW d2, NEW k, NEW forms, Grown(docs, d2, k, forms),
           \A f \in forms :
               /\ k = "category" => ~f.readOnly
               /\ k = "subCategory" => ThereIs(docs, "category", f.parent)
    PROVE  Keeps(docs, d2)
<1> SUFFICES ASSUME NEW i \in Ids, d2[i] # docs[i]
             PROVE  /\ docs[i] = NoDoc
                    /\ d2[i].kind = "category" => ~d2[i].readOnly
                    /\ d2[i].kind = "subCategory" =>
                          ThereIs(docs, "category", d2[i].parent)
  BY DEF Keeps
<1>1. docs[i] = NoDoc
  BY DEF Grown, BackInv, Fresh
<1>2. PICK f \in forms : d2[i] = NewDoc(k, f, born + 1)
  BY DEF Grown
<1>3. /\ d2[i].kind = k /\ d2[i].readOnly = f.readOnly
      /\ d2[i].parent = f.parent
  BY <1>2 DEF NewDoc, Stored
<1> QED BY <1>1, <1>3

\* Other fields than the parent.
LEMMA KeepsReset ==
    ASSUME NEW d \in [Ids -> Doc \union {NoDoc}], NEW d2, NEW S, NEW f \in Form,
           f.parent = 0, Reset(d, d2, S, f)
    PROVE  Keeps(d, d2)
<1> SUFFICES ASSUME NEW i \in Ids, d2[i] # d[i]
             PROVE  /\ d[i] # NoDoc /\ d2[i] # NoDoc /\ d2[i].kind = d[i].kind
                    /\ d2[i].readOnly = d[i].readOnly
                    /\ d2[i].parent = d[i].parent
  BY DEF Keeps
<1>1. d[i] \in Doc /\ d2[i] = Filled(d[i], f)
  BY DEF Reset
<1>2. d2[i] \in Doc
  BY <1>1, DocTypes
<1>3. /\ d2[i].kind = d[i].kind /\ d2[i].readOnly = d[i].readOnly
      /\ d2[i].parent = d[i].parent
  BY <1>1 DEF Filled, Stored, Doc
<1>4. NoDoc \notin Doc
  BY CollectionsAssumption
<1> QED BY <1>1, <1>2, <1>3, <1>4

\* Documents of other collections go.
LEMMA KeepsThinned ==
    ASSUME NEW d, NEW d2, NEW S, Thinned(d, d2, S),
           \A i \in S : d[i].kind \notin HeirKinds
    PROVE  Keeps(d, d2)
BY DEF Keeps, Thinned

\* Handlers begin without anything to hand over, and leave the products alone.
LEMMA HandledRefs ==
    ASSUME NEW a \in Admins, NEW k, Handled(a, k), ~GetAll(k)
    PROVE  /\ calls[a].pc \notin Handing
           /\ UNCHANGED refs
<1>1. calls[a].pc \notin Handing
  BY Begins, IdleType DEF MayCall, Handing
<1>2. CASE Adding(a, k)
  BY <1>1, <1>2
     DEF Adding, AddCheckingSlug, AddAtOnce, SaveForm, AddAdditionalPage
<1>3. CASE Importing(a, k)
  BY <1>1, <1>3 DEF Importing, InsertMany, ClearForImport, InsertBatch
<1>4. CASE Updating(a, k)
  BY <1>1, <1>4
     DEF Updating, UpdateCheckingSlug, UpdateRenaming, UpdateFound,
         UpdateAtOnce, UpdateManyNames, UpdateManySlugs, UpdateManyElse, vars
<1>5. CASE Deleting(a, k)
  BY <1>1, <1>5 DEF Deleting, DeleteFound, DeleteManyFound, DeleteAtOnce
<1> QED BY <1>1, <1>2, <1>3, <1>4, <1>5 DEF Handled

\* Forms refer to a category that is there, and make no default category.
LEMMA FormsRefer ==
    ASSUME NEW k, NEW f \in SlugForms(k)
    PROVE  /\ k = "category" => ~f.readOnly
           /\ k = "subCategory" => ThereIs(docs, "category", f.parent)
<1>1. f.parent \in Parents(k) /\ f.readOnly \in ReadOnlys(k)
  BY FormFields
<1> QED BY <1>1 DEF Parents, ReadOnlys, Of, Exists, ThereIs

\* Calls that only go on, with nothing to refer to.
LEMMA FitsElse ==
    ASSUME NEW d, NEW c, c.pc \in {"idle", "pull", "import"}
    PROVE  RefFits(live, d, c)
BY DEF RefFits, Handing

\* The handlers that add.
LEMMA RefsAdding ==
    ASSUME BackInv, NEW a \in Admins, NEW k, Adding(a, k),
           RefFits(live, docs, calls[a])
    PROVE  Keeps(docs, docs') /\ RefFits(live, docs', calls'[a])
<1>1. CASE AddCheckingSlug(a, k)
  <2>1. PICK f \in SlugForms(k) : \E s : Goto(a,
            [Idle EXCEPT !.pc = "save", !.kind = k,
                         !.form = [f EXCEPT !.slug = s]])
    BY <1>1 DEF AddCheckingSlug
  <2>2. PICK s : calls'[a] = [Idle EXCEPT !.pc = "save", !.kind = k,
                                          !.form = [f EXCEPT !.slug = s]]
    BY <2>1, Parts
  <2>3. f \in Form
    BY FormTypes DEF BackInv
  <2>4. /\ calls'[a].pc = "save" /\ calls'[a].kind = k
        /\ calls'[a].form = [f EXCEPT !.slug = s]
    BY <2>2 DEF Idle
  <2>5. calls'[a].form.parent = f.parent /\ calls'[a].form.readOnly = f.readOnly
    BY <2>3, <2>4 DEF Form
  <2>6. UNCHANGED docs
    BY <1>1 DEF AddCheckingSlug
  <2>7. RefFits(live, docs', calls'[a])
    BY <2>4, <2>5, <2>6, FormsRefer DEF RefFits, Handing
  <2> QED BY <2>6, <2>7, KeepsSame
<1>2. ASSUME NEW forms, AddAtOnce(a, k, forms), k \in Namers \union Slugless
      PROVE  Keeps(docs, docs') /\ RefFits(live, docs', calls'[a])
  <2>1. PICK f \in forms : SaveForm(a, k, f)
    BY <1>2 DEF AddAtOnce
  <2>2. calls'[a] = Idle /\ Grown(docs, docs', k, {f})
    BY <2>1, SaveGrows
  <2>3. k \notin {"category", "subCategory"}
    BY <1>2 DEF Namers, Followers, Slugless
  <2> QED BY <2>2, <2>3, KeepsGrown, IdleFits
<1>3. CASE AddAdditionalPage(a)
  <2>1. PICK f \in SlugForms("additionalPage") :
            \/ UNCHANGED calls
            \/ calls'[a] = [Idle EXCEPT !.pc = "save", !.form = f,
                                        !.kind = "additionalPage"]
    BY <1>3, Parts DEF AddAdditionalPage
  <2>2. UNCHANGED docs
    BY <1>3 DEF AddAdditionalPage
  <2>3. CASE UNCHANGED calls
    BY <2>2, <2>3, KeepsSame
  <2>4. CASE calls'[a] = [Idle EXCEPT !.pc = "save", !.form = f,
                                      !.kind = "additionalPage"]
    <3>1. calls'[a].pc = "save" /\ calls'[a].kind = "additionalPage"
      BY <2>4 DEF Idle
    <3>2. RefFits(live, docs', calls'[a])
      BY <3>1 DEF RefFits, Handing
    <3> QED BY <2>2, <3>2, KeepsSame
  <2> QED BY <2>1, <2>3, <2>4
<1> QED BY <1>1, <1>2, <1>3 DEF Adding

\* The handlers that import.
LEMMA RefsImporting ==
    ASSUME BackInv, env.careful, NEW a \in Admins, NEW k, Importing(a, k)
    PROVE  Keeps(docs, docs') /\ RefFits(live, docs', calls'[a])
<1>1. ~ClearForImport(a, k)
  BY DEF ClearForImport
<1>2. ASSUME NEW forms, InsertMany(a, k, forms),
             \A f \in forms :
                 /\ k = "category" => ~f.readOnly
                 /\ k = "subCategory" => ThereIs(docs, "category", f.parent)
      PROVE  Keeps(docs, docs') /\ RefFits(live, docs', calls'[a])
  <2>1. InsertBatch(a, k, forms)
    BY <1>1, <1>2 DEF InsertMany
  <2>2. Grown(docs, docs', k, forms) /\ calls'[a] = Idle
    BY <2>1, BatchGrows
  <2>3. Keeps(docs, docs')
    BY <1>2, <2>2, KeepsGrown
  <2> QED BY <2>2, <2>3, IdleFits
<1>3. CASE InsertMany(a, k, SlugForms(k))
  BY <1>2, <1>3, FormsRefer
<1>4. k \in Namers \union Slugless => k \notin {"category", "subCategory"}
  BY DEF Namers, Followers, Slugless
<1> QED BY <1>2, <1>3, <1>4 DEF Importing

\* An update looks up a slug or a name and changes nothing yet, or it is one
\* write; it never moves a document to another parent.
Looked(a) ==
    /\ UNCHANGED <<docs, born, reader>>
    /\ calls'[a].pc \in {"check", "set"} /\ calls'[a].form.parent = 0
Written(a) ==
    /\ UNCHANGED <<born, calls, reader>> /\ calls[a] = Idle
    /\ \/ UNCHANGED docs
       \/ \E S, f : f \in Form /\ f.parent = 0 /\ SetFields(S, f)

\* The handlers that update are of these two kinds.
LEMMA UpdateShape ==
    ASSUME BackInv, NEW a \in Admins, NEW k, Updating(a, k)
    PROVE  Looked(a) \/ Written(a)
<1>1. CASE UpdateCheckingSlug(a, k)
  <2>1. PICK i, s : calls'[a] = [Idle EXCEPT
            !.pc = IF docs[i].slug = s THEN "set" ELSE "check",
            !.kind = k, !.ids = {i}, !.form.slug = s]
    BY <1>1, Parts DEF UpdateCheckingSlug
  <2>2. /\ calls'[a].pc \in {"check", "set"}
        /\ calls'[a].form = [NoForm EXCEPT !.slug = s]
    BY <2>1 DEF Idle
  <2>3. calls'[a].form.parent = 0
    BY <2>2, NoFormType, FormFields DEF Form
  <2> QED BY <1>1, <2>2, <2>3 DEF Looked, UpdateCheckingSlug
<1>2. CASE UpdateRenaming(a, k)
  <2>1. ToRename(a, k)
    <3>1. TypeOK /\ UpdateRenaming(a, k)
      BY <1>2 DEF BackInv
    <3> QED BY <3>1, RenamingForm
  <2>2. PICK i, n, s :
            calls'[a] = [Idle EXCEPT !.pc = "set", !.kind = k, !.ids = {i},
                                     !.form.slug = s, !.form.name = n]
    BY <2>1, Parts DEF ToRename
  <2>3. /\ calls'[a].pc = "set"
        /\ calls'[a].form = [NoForm EXCEPT !.slug = s, !.name = n]
    BY <2>2 DEF Idle
  <2>4. calls'[a].form.parent = 0
    BY <2>3, NoFormType, FormFields DEF Form
  <2> QED BY <1>2, <2>3, <2>4 DEF Looked, UpdateRenaming
<1>3. CASE UpdateFound(a, k)
  <2>1. PICK i, n : calls'[a] = [Idle EXCEPT !.pc = "set", !.kind = k,
                                             !.ids = {i}, !.form.name = n]
    BY <1>3, Parts DEF UpdateFound
  <2>2. /\ calls'[a].pc = "set"
        /\ calls'[a].form = [NoForm EXCEPT !.name = n]
    BY <2>1 DEF Idle
  <2>3. calls'[a].form.parent = 0
    BY <2>2, NoFormType, FormFields DEF Form
  <2> QED BY <1>3, <2>2, <2>3 DEF Looked, UpdateFound
<1>4. CASE UpdateAtOnce(a, k)
  <2>1. PICK i \in Of(k), f \in NameForms : SetFields({i}, f)
    BY <1>4 DEF UpdateAtOnce
  <2>2. f \in Form /\ f.parent = 0
    BY FormTypes, FormFields DEF BackInv
  <2> QED BY <1>4, <2>1, <2>2 DEF Written, UpdateAtOnce, MayCall
<1>5. CASE UpdateManyNames(a, k)
  <2>1. PICK S \in SUBSET Of(k), n \in env.names \union {NoName} :
            SetFields(S, [NoForm EXCEPT !.name = n])
    BY <1>5 DEF UpdateManyNames
  <2>2. PICK f \in Form : f = [NoForm EXCEPT !.name = n]
    BY NoFormType, FormTypes DEF Form, BackInv
  <2>3. f.parent = 0
    BY <2>2, NoFormType, FormFields DEF Form
  <2> QED BY <1>5, <2>1, <2>2, <2>3
     DEF Written, UpdateManyNames, MayCall
<1>6. CASE UpdateManySlugs(a, k)
  <2>1. PICK S \in SUBSET Of(k), b \in env.names : \E first \in S :
            \/ UNCHANGED docs
            \/ SetFields({first}, [NoForm EXCEPT !.slug = Plain(b)])
    BY <1>6 DEF UpdateManySlugs
  <2>2. PICK first \in S :
            \/ UNCHANGED docs
            \/ SetFields({first}, [NoForm EXCEPT !.slug = Plain(b)])
    BY <2>1
  <2>3. PICK f \in Form : f = [NoForm EXCEPT !.slug = Plain(b)]
    BY NoFormType, SlugTypes, FormTypes DEF BackInv, Form
  <2>4. f.parent = 0
    BY <2>3, NoFormType, FormFields DEF Form
  <2>5. calls[a] = Idle /\ UNCHANGED <<born, calls, reader>>
    BY <1>6 DEF UpdateManySlugs, MayCall
  <2> QED BY <2>2, <2>3, <2>4, <2>5 DEF Written
<1>7. CASE UpdateManyElse(a, k)
  BY <1>7 DEF Written, UpdateManyElse, MayCall, vars
<1> QED BY <1>1, <1>2, <1>3, <1>4, <1>5, <1>6, <1>7 DEF Updating

\* The handlers that update.
LEMMA RefsUpdating ==
    ASSUME BackInv, NEW a \in Admins, NEW k, Updating(a, k)
    PROVE  Keeps(docs, docs') /\ RefFits(live, docs', calls'[a])
<1>1. CASE Looked(a)
  <2>1. RefFits(live, docs', calls'[a])
    BY <1>1 DEF Looked, RefFits, Handing
  <2> QED BY <1>1, <2>1, KeepsSame DEF Looked
<1>2. CASE Written(a)
  <2>1. RefFits(live, docs', calls'[a])
    BY <1>2, IdleFits DEF Written
  <2>2. CASE UNCHANGED docs
    BY <2>1, <2>2, KeepsSame
  <2>3. CASE \E S, f : f \in Form /\ f.parent = 0 /\ SetFields(S, f)
    <3>1. PICK S, f : f \in Form /\ f.parent = 0 /\ SetFields(S, f)
      BY <2>3
    <3>2. Reset(docs, docs', S, f)
      BY <3>1, SetResets
    <3>3. docs \in [Ids -> Doc \union {NoDoc}]
      BY DEF BackInv, TypeOK
    <3> QED BY <2>1, <3>1, <3>2, <3>3, KeepsReset
  <2> QED BY <1>2, <2>2, <2>3 DEF Written
<1> QED BY <1>1, <1>2, UpdateShape

\* A delete that will come.
LEMMA RefsDoomed ==
    ASSUME NEW k, NEW S, NEW c, c.pc = "delete", c.kind = k, c.ids = S,
           k \in live, S \subseteq Of(k), c.doomed \subseteq S,
           k \in HeirKinds =>
               c.next = "heir" /\ \A i \in c.doomed : ~docs[i].readOnly
    PROVE  RefFits(live, docs, c)
<1>1. \A i \in c.doomed : i \in c.ids /\ ThereIs(docs, c.kind, i)
  BY DEF Of, Exists, ThereIs
<1> QED BY <1>1 DEF RefFits, Handing

\* The handlers that delete.
LEMMA RefsDeleting ==
    ASSUME BackInv, env.careful, NEW a \in Admins, NEW k, Deleting(a, k)
    PROVE  Keeps(docs, docs') /\ RefFits(live, docs', calls'[a])
<1>0. k \notin DefaultKinds => k \notin HeirKinds
  BY DEF DefaultKinds, HeirKinds
<1>1. ASSUME NEW guarded \in BOOLEAN, NEW next,
             DeleteFound(a, k, guarded, next),
             k \in HeirKinds => guarded /\ next = "heir"
      PROVE  Keeps(docs, docs') /\ RefFits(live, docs', calls'[a])
  <2>1. PICK i \in Of(k) :
            /\ guarded => ~docs[i].readOnly
            /\ calls'[a] = [Idle EXCEPT !.pc = "delete", !.kind = k,
                              !.ids = {i}, !.doomed = {i}, !.next = next]
    BY <1>1, Parts DEF DeleteFound
  <2>2. /\ calls'[a].pc = "delete" /\ calls'[a].kind = k
        /\ calls'[a].ids = {i} /\ calls'[a].doomed = {i}
        /\ calls'[a].next = next
    BY <2>1 DEF Idle
  <2>3. k \in live /\ UNCHANGED docs
    BY <1>1 DEF DeleteFound, MayCall
  <2>4. k \in HeirKinds => /\ calls'[a].next = "heir"
                          /\ \A j \in calls'[a].doomed : ~docs[j].readOnly
    BY <1>1, <2>1, <2>2
  <2>5. {i} \subseteq Of(k)
    OBVIOUS
  <2>6. RefFits(live, docs, calls'[a])
    BY <2>2, <2>3, <2>4, <2>5, RefsDoomed
  <2> QED BY <2>3, <2>6, KeepsSame
<1>2. ASSUME DeleteManyFound(a, k, "heir")
      PROVE  Keeps(docs, docs') /\ RefFits(live, docs', calls'[a])
  <2>1. PICK S \in SUBSET Of(k) :
            calls'[a] = [Idle EXCEPT !.pc = "delete", !.kind = k,
                           !.ids = S, !.doomed = Deletable(S), !.next = "heir"]
    BY <1>2, Parts DEF DeleteManyFound
  <2>2. /\ calls'[a].pc = "delete" /\ calls'[a].kind = k
        /\ calls'[a].ids = S /\ calls'[a].doomed = Deletable(S)
        /\ calls'[a].next = "heir"
    BY <2>1 DEF Idle
  <2>3. k \in live /\ UNCHANGED docs
    BY <1>2 DEF DeleteManyFound, MayCall
  <2>4. /\ Deletable(S) \subseteq S
        /\ \A j \in Deletable(S) : ~docs[j].readOnly
    BY DEF Deletable
  <2>5. RefFits(live, docs, calls'[a])
    BY <2>2, <2>3, <2>4, RefsDoomed
  <2> QED BY <2>3, <2>5, KeepsSame
<1>3. ASSUME NEW sets \in SUBSET (SUBSET Of(k)), NEW next \in {"idle", "pull"},
             DeleteAtOnce(a, k, sets, next), k \notin DefaultKinds
      PROVE  Keeps(docs, docs') /\ RefFits(live, docs', calls'[a])
  <2>1. PICK S \in sets : Remove(S)
    BY <1>3 DEF DeleteAtOnce
  <2>2. \A i \in S : docs[i].kind \notin HeirKinds
    BY <1>0, <1>3, <2>1 DEF Of
  <2>3. Keeps(docs, docs')
    BY <2>1, <2>2, RemoveThins, KeepsThinned
  <2>4. \/ calls'[a] = Idle
        \/ \E T : calls'[a] = [Idle EXCEPT !.pc = next, !.kind = k, !.ids = T]
    BY <1>3, Parts DEF DeleteAtOnce
  <2>5. calls'[a].pc \in {"idle", "pull", "import"}
    BY <2>4, IdleType DEF Idle
  <2> QED BY <2>3, <2>5, FitsElse
<1> QED BY <1>0, <1>1, <1>2, <1>3 DEF Deleting

\* A delete whose call will hand over what referred to the documents.
LEMMA SoundDelete ==
    ASSUME BackInv, NEW a \in Admins, Sound(docs, refs, calls[a]),
           calls[a].kind \in HeirKinds, DeleteDocuments(a)
    PROVE  Sound(docs', refs', calls'[a])
<1> DEFINE c == calls[a]
           c2 == calls'[a]
<1>1. /\ c.kind \in live /\ c.next = "heir"
      /\ \A i \in c.doomed : /\ i \in c.ids /\ ThereIs(docs, c.kind, i)
                             /\ ~docs[i].readOnly
  BY DEF DeleteDocuments, Sound, RefFits
<1>2. c2 = [c EXCEPT !.pc = "heir"]
  BY <1>1, Parts DEF DeleteDocuments
<1>3. c2.pc = "heir" /\ c2.kind = c.kind /\ c2.ids = c.ids
  BY <1>2, Parts DEF Call
<1>4. UNCHANGED <<refs, live>>
  BY DEF DeleteDocuments, world
<1>5. ASSUME NEW i \in Ids, docs'[i] # NoDoc PROVE docs'[i] = docs[i]
  BY <1>5 DEF DeleteDocuments, Remove
<1>6. ASSUME NEW i \in Ids, docs[i] # NoDoc, docs'[i] # docs[i]
      PROVE  i \in c.ids /\ docs[i].kind = c.kind /\ ~docs[i].readOnly
  BY <1>1, <1>6 DEF DeleteDocuments, Remove, ThereIs
<1> HIDE DEF c, c2
<1>7. Defaults(live, docs')
  <2>1. Defaults(live, docs)
    BY DEF Sound
  <2>2. ASSUME NEW k, NEW i, ThereIs(docs, k, i), docs[i].readOnly
        PROVE  ThereIs(docs', k, i) /\ docs'[i] = docs[i]
    BY <1>6, <2>2 DEF ThereIs
  <2>3. ASSUME "category" \in live
        PROVE  /\ ThereIs(docs', "category", 1) /\ docs'[1].readOnly
               /\ ThereIs(docs', "subCategory", 2) /\ docs'[2].readOnly
               /\ docs'[2].parent = 1
    BY <2>1, <2>2, <2>3 DEF Defaults
  <2>4. ASSUME "brand" \in live
        PROVE  ThereIs(docs', "brand", 1) /\ docs'[1].readOnly
    BY <2>1, <2>2, <2>4 DEF Defaults
  <2>5. ASSUME NEW i \in Ids, ThereIs(docs', "category", i), docs'[i].readOnly
        PROVE  i = 1
    BY <1>5, <2>1, <2>5 DEF Defaults, ThereIs
  <2> QED BY <1>4, <2>3, <2>4, <2>5 DEF Defaults
<1>8. RefFits(live, docs', c2)
  BY <1>1, <1>3, <1>4 DEF RefFits, Handing
<1>9. c.pc = "delete" /\ Refers(docs, refs, c)
  BY DEF DeleteDocuments, Sound, c
<1>10. /\ \A k : MayDangle(c, k) = {}
       /\ MayBeOrphan(c) = {}
       /\ MayDangle(c2, c.kind) = c.ids
       /\ c.kind = "category" => MayBeOrphan(c2) = c.ids
  BY <1>3, <1>9 DEF MayDangle, MayBeOrphan, Handing
<1>11. ASSUME NEW k, NEW i, ThereIs(docs, k, i), ~ThereIs(docs', k, i)
       PROVE  k = c.kind /\ i \in c.ids
  BY <1>6, <1>11 DEF ThereIs
<1>12. ASSUME NEW p \in Products, NEW k \in HeirKinds, refs[p][k] # 0
       PROVE  \/ ThereIs(docs', k, refs[p][k])
              \/ refs[p][k] \in MayDangle(c2, k)
  BY <1>9, <1>10, <1>11, <1>12 DEF Refers
<1>13. ASSUME NEW i \in Ids, ThereIs(docs', "subCategory", i)
       PROVE  \/ ThereIs(docs', "category", docs'[i].parent)
              \/ docs'[i].parent \in MayBeOrphan(c2)
  <2>1. ThereIs(docs, "subCategory", i) /\ docs'[i] = docs[i]
    BY <1>5, <1>13 DEF ThereIs
  <2> QED BY <1>9, <1>10, <1>11, <2>1 DEF Refers
<1>14. Refers(docs', refs', c2)
  BY <1>4, <1>12, <1>13 DEF Refers
<1> QED BY <1>7, <1>8, <1>14 DEF Sound, c2

\* The default that takes over.
LEMMA SoundHeir ==
    ASSUME BackInv, NEW a \in Admins, Sound(docs, refs, calls[a]), FindHeir(a)
    PROVE  Sound(docs', refs', calls'[a])
<1> DEFINE c == calls[a]
           c2 == calls'[a]
<1>1. c.pc = "heir" /\ c.kind \in live /\ UNCHANGED <<docs, refs, live>>
  BY DEF FindHeir, Sound, RefFits, Handing, world
<1>2. Defaults(live, docs) /\ Refers(docs, refs, c)
  BY DEF Sound
<1>3. CASE Default(c.kind) = {} /\ Respond(a)
  <2>1. c.kind \notin HeirKinds
    <3>1. "subCategory" \in live => "category" \in live
      BY CollectionsAssumption DEF BackInv, TypeOK
    <3>2. c.kind \in HeirKinds => \E i \in {1, 2} : ThereIs(docs, c.kind, i)
                                                 /\ docs[i].readOnly
      BY <1>1, <1>2, <3>1 DEF Defaults, HeirKinds
    <3> QED BY <1>3, <3>2 DEF Default, Of, Exists, ThereIs
  <2>2. /\ \A k \in HeirKinds : MayDangle(c, k) = {}
        /\ MayBeOrphan(c) = {}
    BY <2>1 DEF MayDangle, MayBeOrphan, HeirKinds
  <2>3. Refers(docs, refs, Idle)
    BY <1>2, <2>2 DEF Refers
  <2>4. c2 = Idle
    BY <1>3, Parts
  <2> QED BY <1>1, <1>2, <2>3, <2>4, IdleFits DEF Sound
<1>4. ASSUME NEW h \in Default(c.kind),
             Goto(a, [c EXCEPT !.heir = h, !.pc = IF c.kind = "category"
                                                  THEN "heirSub" ELSE "reset"])
      PROVE  Sound(docs', refs', c2)
  <2>1. c2 = [c EXCEPT !.heir = h, !.pc = IF c.kind = "category"
                                          THEN "heirSub" ELSE "reset"]
    BY <1>4, Parts
  <2>2. /\ c2.pc = IF c.kind = "category" THEN "heirSub" ELSE "reset"
        /\ c2.kind = c.kind /\ c2.ids = c.ids /\ c2.heir = h
    BY <2>1, Parts DEF Call
  <2> HIDE DEF c, c2
  <2>3. /\ ThereIs(docs, c.kind, h) /\ docs[h].readOnly
        /\ c.kind = "category" => h = 1
    BY <1>2, <1>4 DEF Default, Of, Exists, ThereIs, Defaults
  <2>4. RefFits(live, docs, c2)
    BY <1>1, <2>2, <2>3 DEF RefFits, Handing
  <2>5. /\ \A k : MayDangle(c2, k) = MayDangle(c, k)
        /\ MayBeOrphan(c2) = MayBeOrphan(c)
    BY <1>1, <2>2 DEF MayDangle, MayBeOrphan, Handing
  <2>6. Refers(docs, refs, c2)
    BY <1>2, <2>5 DEF Refers
  <2> QED BY <1>1, <1>2, <2>4, <2>6 DEF Sound
<1> QED BY <1>3, <1>4 DEF FindHeir

\* The sub-category that takes over.
LEMMA SoundHeirSub ==
    ASSUME BackInv, NEW a \in Admins, Sound(docs, refs, calls[a]),
           FindHeirSub(a)
    PROVE  Sound(docs', refs', calls'[a])
<1> DEFINE c == calls[a]
           c2 == calls'[a]
           subs == {i \in Of("subCategory") : docs[i].parent = c.heir}
<1>1. /\ c.pc = "heirSub" /\ c.kind = "category" /\ "category" \in live
      /\ c.heir = 1 /\ UNCHANGED <<docs, refs, live>>
  BY DEF FindHeirSub, Sound, RefFits, Handing, world
<1>2. Defaults(live, docs) /\ Refers(docs, refs, c)
  BY DEF Sound
<1>3. subs # {}
  <2>1. ThereIs(docs, "subCategory", 2) /\ docs[2].parent = 1
    BY <1>1, <1>2 DEF Defaults
  <2>2. 2 \in subs
    BY <1>1, <2>1 DEF ThereIs, Of, Exists
  <2> QED BY <2>2
<1>4. PICK h \in subs : Goto(a, [c EXCEPT !.heirSub = h, !.pc = "moveSubs"])
  BY <1>3 DEF FindHeirSub
<1>5. c2 = [c EXCEPT !.heirSub = h, !.pc = "moveSubs"]
  BY <1>4, Parts
<1>6. /\ c2.pc = "moveSubs" /\ c2.kind = c.kind /\ c2.ids = c.ids
      /\ c2.heir = c.heir /\ c2.heirSub = h
  BY <1>5, Parts DEF Call
<1>7. ThereIs(docs, "subCategory", h)
  BY <1>4 DEF Of, Exists, ThereIs
<1> HIDE DEF c, c2
<1>8. RefFits(live, docs, c2)
  BY <1>1, <1>6, <1>7 DEF RefFits, Handing
<1>9. /\ \A k : MayDangle(c2, k) = MayDangle(c, k)
      /\ MayBeOrphan(c2) = MayBeOrphan(c)
  BY <1>1, <1>6 DEF MayDangle, MayBeOrphan, Handing
<1>10. Refers(docs, refs, c2)
  BY <1>2, <1>9 DEF Refers
<1> QED BY <1>1, <1>2, <1>8, <1>10 DEF Sound, c2

\* The sub-categories that move.
LEMMA SoundMove ==
    ASSUME BackInv, NEW a \in Admins, Sound(docs, refs, calls[a]),
           MoveSubCategories(a)
    PROVE  Sound(docs', refs', calls'[a])
<1> DEFINE c == calls[a]
           c2 == calls'[a]
<1>1. /\ c.pc = "moveSubs" /\ c.kind = "category" /\ "category" \in live
      /\ c.heir = 1 /\ ThereIs(docs, "subCategory", c.heirSub)
      /\ UNCHANGED <<refs, live>>
  BY DEF MoveSubCategories, Sound, RefFits, Handing, world
<1>2. Defaults(live, docs) /\ Refers(docs, refs, c)
  BY DEF Sound
<1>3. c2 = [c EXCEPT !.pc = "reset"]
  BY Parts DEF MoveSubCategories
<1>4. /\ c2.pc = "reset" /\ c2.kind = c.kind /\ c2.ids = c.ids
      /\ c2.heir = c.heir /\ c2.heirSub = c.heirSub
  BY <1>3, Parts DEF Call
<1>5. PICK f \in Form : f = [NoForm EXCEPT !.parent = c.heir]
  BY Parts, NoFormType DEF Form
<1>6. f.parent = 1
  BY <1>1, <1>5, NoFormType DEF Form
<1>7. SetFields(Orphans(c), f)
  BY <1>5 DEF MoveSubCategories
<1>8. ASSUME NEW i \in Ids
      PROVE  \/ docs'[i] = docs[i] /\ ~(i \in Orphans(c) /\ docs[i] # NoDoc)
             \/ /\ i \in Orphans(c)
                /\ docs[i] # NoDoc /\ docs'[i] # NoDoc
                /\ docs'[i].kind = docs[i].kind
                /\ docs'[i].readOnly = docs[i].readOnly
                /\ docs'[i].parent = 1
  <2>1. CASE i \in Orphans(c) /\ docs[i] # NoDoc
    <3>1. docs[i] \in Doc /\ docs'[i] = Filled(docs[i], f)
      BY <1>7, <2>1 DEF BackInv, TypeOK, SetFields, Exists
    <3>2. docs'[i] \in Doc /\ NoDoc \notin Doc
      BY <3>1, DocTypes
    <3>3. docs'[i].parent = 1
      BY <1>6, <3>1 DEF Filled, Stored, Doc
    <3> QED BY <2>1, <3>1, <3>2, <3>3, DocTypes
  <2>2. CASE ~(i \in Orphans(c) /\ docs[i] # NoDoc)
    BY <1>7, <2>2 DEF SetFields, Exists
  <2> QED BY <2>1, <2>2
<1>9. \A k, i : ThereIs(docs', k, i) <=> ThereIs(docs, k, i)
  BY <1>8 DEF ThereIs
<1> HIDE DEF c, c2
<1>10. Defaults(live, docs')
  BY <1>1, <1>2, <1>8, <1>9 DEF Defaults, ThereIs
<1>11. ThereIs(docs', "category", 1)
  BY <1>1, <1>10 DEF Defaults
<1>12. RefFits(live, docs', c2)
  BY <1>1, <1>4, <1>9, <1>11 DEF RefFits, Handing
<1>13. \A k : MayDangle(c2, k) = MayDangle(c, k)
  BY <1>1, <1>4 DEF MayDangle, Handing
<1>14. ASSUME NEW i \in Ids, ThereIs(docs', "subCategory", i)
       PROVE  ThereIs(docs', "category", docs'[i].parent)
  <2>1. CASE docs'[i].parent = 1
    BY <1>11, <2>1
  <2>2. CASE docs'[i] = docs[i] /\ ~(i \in Orphans(c) /\ docs[i] # NoDoc)
    <3>1. ThereIs(docs, "subCategory", i)
      BY <1>9, <1>14
    <3>2. docs[i].parent \notin c.ids
      BY <2>2, <3>1 DEF Orphans, ThereIs, Of, Exists
    <3>3. MayBeOrphan(c) \subseteq c.ids
      BY DEF MayBeOrphan
    <3> QED BY <1>2, <1>9, <2>2, <3>1, <3>2, <3>3 DEF Refers
  <2> QED BY <1>8, <2>1, <2>2
<1>15. Refers(docs', refs', c2)
  BY <1>1, <1>2, <1>9, <1>13, <1>14 DEF Refers
<1> QED BY <1>10, <1>12, <1>15 DEF Sound, c2

\* The products that get the default.
LEMMA SoundReset ==
    ASSUME BackInv, NEW a \in Admins, Sound(docs, refs, calls[a]),
           ResetProducts(a)
    PROVE  Sound(docs', refs', calls'[a])
<1> DEFINE c == calls[a]
<1>1. /\ c.pc = "reset" /\ UNCHANGED <<docs, live>>
      /\ c.kind \in HeirKinds => ThereIs(docs, c.kind, c.heir)
      /\ c.kind = "category" => ThereIs(docs, "subCategory", c.heirSub)
      /\ refs' = [p \in Products |-> HandedOver(c, refs[p])]
  BY DEF ResetProducts, Sound, RefFits, world
<1>2. Defaults(live, docs) /\ Refers(docs, refs, c)
  BY DEF Sound
<1>3. calls'[a] = Idle
  BY Parts DEF ResetProducts
<1> HIDE DEF c
<1>4. MayBeOrphan(c) = {} /\ \A k : k # c.kind => MayDangle(c, k) = {}
  BY <1>1 DEF MayBeOrphan, MayDangle
<1>5. ASSUME NEW p \in Products, NEW k \in HeirKinds, refs'[p][k] # 0
      PROVE  ThereIs(docs, k, refs'[p][k])
  <2>1. /\ refs'[p] = HandedOver(c, refs[p]) /\ refs[p] \in [RefKinds -> Ids0]
        /\ HeirKinds \subseteq RefKinds
    BY <1>1 DEF BackInv, TypeOK, RefKinds
  <2>2. CASE ~(c.kind \in HeirKinds /\ refs[p][c.kind] \in c.ids)
    <3>1. refs'[p] = refs[p]
      BY <2>1, <2>2 DEF HandedOver
    <3>2. k = c.kind => MayDangle(c, k) = c.ids
      BY <1>1 DEF MayDangle, Handing
    <3> QED BY <1>2, <1>4, <1>5, <2>2, <3>1, <3>2 DEF Refers
  <2>3. CASE c.kind \in HeirKinds /\ refs[p][c.kind] \in c.ids
    <3> DEFINE sub == IF c.kind = "category" THEN c.heirSub
                      ELSE IF c.kind = "subCategory" THEN c.heir
                      ELSE refs[p]["subCategory"]
    <3>1. refs'[p] = [refs[p] EXCEPT
              ![c.kind] = c.heir,
              !["subCategory"] = IF c.kind = "category" THEN c.heirSub
                                 ELSE IF c.kind = "subCategory" THEN c.heir
                                 ELSE @]
      BY <2>1, <2>3 DEF HandedOver
    <3>2. "subCategory" \in HeirKinds
      BY DEF HeirKinds
    <3>3. CASE k = "subCategory"
      <4>1. refs'[p][k] = sub
        BY <2>1, <3>1, <3>2, <3>3
      <4> QED BY <1>1, <1>2, <1>4, <1>5, <2>3, <3>3, <4>1 DEF Refers
    <3>4. CASE k # "subCategory" /\ k = c.kind
      BY <1>1, <2>1, <3>1, <3>2, <3>4
    <3>5. CASE k # "subCategory" /\ k # c.kind
      <4>1. refs'[p][k] = refs[p][k]
        BY <2>1, <3>1, <3>2, <3>5
      <4> QED BY <1>2, <1>4, <1>5, <3>5, <4>1 DEF Refers
    <3> QED BY <3>3, <3>4, <3>5
  <2> QED BY <2>2, <2>3
<1>6. Refers(docs', refs', Idle)
  BY <1>1, <1>2, <1>4, <1>5 DEF Refers
<1>7. Defaults(live, docs') /\ RefFits(live, docs', Idle)
  BY <1>1, <1>2, IdleFits DEF Defaults
<1> QED BY <1>3, <1>6, <1>7 DEF Sound

\* What handlers go on with.
LEMMA SoundContinue ==
    ASSUME BackInv, env.careful, NEW a \in Admins, Continue(a),
           Sound(docs, refs, calls[a])
    PROVE  Sound(docs', refs', calls'[a])
<1>1. ASSUME Keeps(docs, docs'), RefFits(live, docs', calls'[a]),
             UNCHANGED refs, calls[a].pc \notin Handing, UNCHANGED live
      PROVE  Sound(docs', refs', calls'[a])
  BY <1>1, SoundKept
<1>2. RefFits(live, docs, calls[a])
  BY DEF Sound
<1>3. CASE SaveDocument(a)
  <2>1. SaveForm(a, calls[a].kind, calls[a].form) /\ calls[a].pc = "save"
    BY <1>3 DEF SaveDocument
  <2>2. /\ Grown(docs, docs', calls[a].kind, {calls[a].form})
        /\ calls'[a] = Idle
    BY <2>1, SaveGrows
  <2>3. Keeps(docs, docs')
    BY <1>2, <2>1, <2>2, KeepsGrown DEF RefFits
  <2>4. UNCHANGED <<refs, live>>
    BY <2>1 DEF SaveForm, world
  <2> QED BY <1>1, <2>1, <2>2, <2>3, <2>4, IdleFits DEF Handing
<1>4. CASE CheckSlug(a)
  <2>1. PICK s : calls'[a] = [calls[a] EXCEPT !.pc = "set", !.form.slug = s]
    BY <1>4, Parts DEF CheckSlug
  <2>2. calls[a].pc = "check" /\ UNCHANGED <<docs, refs, live>>
    BY <1>4 DEF CheckSlug, world
  <2>3. /\ calls'[a].pc = "set"
        /\ calls'[a].form = [calls[a].form EXCEPT !.slug = s]
    BY <2>1, Parts DEF Call
  <2>4. calls'[a].form.parent = 0
    BY <1>2, <2>2, <2>3, Parts DEF RefFits, Form
  <2>5. RefFits(live, docs', calls'[a])
    BY <2>3, <2>4 DEF RefFits, Handing
  <2> QED BY <1>1, <2>2, <2>5, KeepsSame DEF Handing
<1>5. CASE SetDocument(a)
  <2>1. /\ calls'[a] = Idle /\ calls[a].pc = "set" /\ UNCHANGED <<refs, live>>
        /\ UNCHANGED docs \/ SetFields(calls[a].ids, calls[a].form)
    BY <1>5, Parts DEF SetDocument, world
  <2>2. calls[a].form.parent = 0 /\ calls[a].form \in Form
    BY <1>2, <2>1, Parts DEF RefFits
  <2>3. Keeps(docs, docs')
    BY <2>1, <2>2, Parts, SetResets, KeepsReset, KeepsSame
  <2> QED BY <1>1, <2>1, <2>3, IdleFits DEF Handing
<1>6. CASE DeleteDocuments(a) /\ calls[a].kind \in HeirKinds
  BY <1>6, SoundDelete
<1>7. CASE DeleteDocuments(a) /\ calls[a].kind \notin HeirKinds
  <2>1. /\ calls[a].pc = "delete" /\ UNCHANGED <<refs, live>>
        /\ Remove(calls[a].doomed)
    BY <1>7 DEF DeleteDocuments, world
  <2>2. /\ calls[a].kind \in live
        /\ \A i \in calls[a].doomed : docs[i].kind = calls[a].kind
    BY <1>2, <2>1 DEF RefFits, ThereIs
  <2>3. Keeps(docs, docs')
    BY <1>7, <2>1, <2>2, RemoveThins, KeepsThinned
  <2>4. calls'[a] = IF calls[a].next = "idle" THEN Idle
                    ELSE [calls[a] EXCEPT !.pc = calls[a].next]
    BY <1>7, Parts DEF DeleteDocuments
  <2>5. \/ calls'[a].pc \in {"idle", "pull", "import"}
        \/ calls'[a].pc = "heir" /\ calls'[a].kind = calls[a].kind
    BY <2>4, Parts, IdleType DEF Call
  <2>6. RefFits(live, docs', calls'[a])
    <3>1. CASE calls'[a].pc \in {"idle", "pull", "import"}
      BY <3>1, FitsElse
    <3>2. CASE calls'[a].pc = "heir" /\ calls'[a].kind = calls[a].kind
      BY <2>1, <2>2, <3>2 DEF RefFits, Handing
    <3> QED BY <2>5, <3>1, <3>2
  <2> QED BY <1>1, <2>1, <2>3, <2>6 DEF Handing
<1>8. CASE PullFromProducts(a)
  <2>1. calls[a].pc = "pull" /\ calls'[a] = Idle /\ docs' = docs
    BY <1>8, Parts DEF PullFromProducts, world
  <2>2. ASSUME NEW p \in Products, NEW k \in HeirKinds
        PROVE  refs'[p][k] = refs[p][k]
    <3>1. /\ refs[p] \in [RefKinds -> Ids0] /\ k \in RefKinds /\ k # "tag"
      BY DEF BackInv, TypeOK, RefKinds, HeirKinds
    <3>2. refs'[p] \in {refs[p], [refs[p] EXCEPT !.tag = 0]}
      BY <1>8 DEF PullFromProducts
    <3> QED BY <3>1, <3>2
  <2>3. Refers(docs, refs, Idle) /\ Defaults(live, docs)
    BY <2>1, IdleFits DEF Sound, Refers, MayDangle, MayBeOrphan, Handing
  <2>4. Refers(docs, refs', Idle)
    BY <2>2, <2>3 DEF Refers
  <2> QED BY <2>1, <2>3, <2>4, IdleFits DEF Sound
<1>9. ~CallFails(a)
  BY DEF CallFails
<1> QED BY <1>3, <1>4, <1>5, <1>6, <1>7, <1>8, <1>9, SoundHeir, SoundHeirSub,
           SoundMove, SoundReset
        DEF Continue

\* The products' form.
LEMMA RefersSaved ==
    ASSUME BackInv, NEW p \in Products, SaveProduct(p),
           Refers(docs, refs, Idle)
    PROVE  Refers(docs', refs', Idle)
<1>1. ASSUME NEW k \in HeirKinds, NEW q \in Products,
             refs'[q][k] # refs[q][k]
      PROVE  ThereIs(docs, k, refs'[q][k])
  <2>1. /\ refs \in [Products -> [RefKinds -> Ids0]]
        /\ HeirKinds \subseteq RefKinds
    BY DEF BackInv, TypeOK, RefKinds
  <2>2. CASE \E c \in Of("category"), s \in Of("subCategory") :
                refs' = [refs EXCEPT ![p].category = c, ![p].subCategory = s]
    <3>1. PICK c \in Of("category"), s \in Of("subCategory") :
              refs' = [refs EXCEPT ![p].category = c, ![p].subCategory = s]
      BY <2>2
    <3>2. {"category", "subCategory"} \subseteq RefKinds
      BY DEF RefKinds, HeirKinds
    <3>3. refs'[q] = IF q = p THEN [refs[p] EXCEPT !.category = c,
                                                   !.subCategory = s]
                     ELSE refs[q]
      BY <2>1, <3>1
    <3>4. q = p
      BY <1>1, <3>3
    <3>5. \/ k = "category" /\ refs'[q][k] = c
          \/ k = "subCategory" /\ refs'[q][k] = s
      BY <1>1, <2>1, <3>2, <3>3, <3>4
    <3> QED BY <3>1, <3>5 DEF Of, Exists, ThereIs
  <2>3. CASE \E l \in live \intersect (RefKinds \ {"category", "subCategory"}) :
                \E i \in Of(l) : refs' = [refs EXCEPT ![p][l] = i]
    <3>1. PICK l \in RefKinds : \E i \in Of(l) :
              refs' = [refs EXCEPT ![p][l] = i]
      BY <2>3
    <3>2. PICK i \in Of(l) : refs' = [refs EXCEPT ![p][l] = i]
      BY <3>1
    <3>3. k = l /\ refs'[q][k] = i
      BY <1>1, <2>1, <3>2
    <3>4. i \in Of(k)
      BY <3>2, <3>3
    <3> QED BY <3>3, <3>4 DEF Of, Exists, ThereIs
  <2> QED BY <2>2, <2>3 DEF SaveProduct
<1>2. UNCHANGED docs
  BY DEF SaveProduct
<1> QED BY <1>1, <1>2 DEF Refers

\* Who is alone finds the references in order, but for its own.
LEMMA SoundAlone ==
    ASSUME RefInv, env.careful, env.serial, NEW a \in Admins,
           Lone(calls, a)
    PROVE  Sound(docs, refs, calls[a])
BY DEF RefInv, AllSound, Sound

\* Every step.
LEMMA RefNext == BackInv /\ Solo /\ RefInv /\ [Next]_vars => RefInv'
<1> SUFFICES ASSUME BackInv, Solo, RefInv, [Next]_vars,
                    env'.careful, env'.serial
             PROVE  AllSound(live', docs', refs', calls')
  BY DEF RefInv
<1>1. ASSUME UNCHANGED <<world, docs, calls, refs>> 
      PROVE  AllSound(live', docs', refs', calls')
  BY <1>1 DEF RefInv, world
<1>2. ASSUME NEW a \in Admins, (\E k : Handled(a, k)) \/ Continue(a)
      PROVE  AllSound(live', docs', refs', calls')
  <2>1. env.careful /\ env.serial /\ UNCHANGED world
    BY <1>2, OwnCall DEF world
  <2>2. CASE Alone(a) /\ ~\E k : GetAll(k)
    <3>1. \A b \in Admins \ {a} : calls[b] = Idle /\ calls'[b] = Idle
      BY <2>1, <2>2 DEF Alone
    <3>2. Sound(docs, refs, calls[a])
      BY <2>1, <3>1, SoundAlone DEF Lone
    <3>3. Sound(docs', refs', calls'[a])
      <4>1. ASSUME NEW k, Handled(a, k)
            PROVE  Sound(docs', refs', calls'[a])
        <5>1. RefFits(live, docs, calls[a])
          BY <3>2 DEF Sound
        <5>2. Keeps(docs, docs') /\ RefFits(live, docs', calls'[a])
          BY <2>1, <2>2, <4>1, <5>1, RefsAdding, RefsImporting, RefsUpdating,
             RefsDeleting DEF Handled
        <5>3. calls[a].pc \notin Handing /\ UNCHANGED refs
          BY <2>2, <4>1, HandledRefs
        <5>4. Sound(docs', refs, calls'[a])
          BY <3>2, <5>2, <5>3, SoundKept
        <5> QED BY <2>1, <5>3, <5>4 DEF world, Sound
      <4> QED BY <1>2, <2>1, <3>2, <4>1, SoundContinue
    <3>4. /\ Defaults(live', docs')
          /\ \A b \in Admins : RefFits(live', docs', calls'[b])
      BY <2>1, <3>1, <3>3, IdleFits DEF Sound, world
    <3>5. ASSUME NEW b \in Admins, Lone(calls', b)
          PROVE  Refers(docs', refs', calls'[b])
      <4>1. CASE b = a
        BY <3>3, <4>1 DEF Sound
      <4>2. CASE b # a
        <5>1. calls'[a] = Idle /\ calls'[b] = Idle
          BY <3>1, <3>5, <4>2 DEF Lone
        <5> QED BY <3>3, <5>1 DEF Sound
      <4> QED BY <4>1, <4>2
    <3>6. ASSUME Still(calls') PROVE Refers(docs', refs', Idle)
      BY <3>3, <3>6 DEF Sound, Still
    <3> QED BY <3>4, <3>5, <3>6 DEF AllSound
  <2>3. CASE \E k : GetAll(k)
    BY <1>1, <2>3 DEF GetAll
  <2> QED BY <1>2, <2>2, <2>3, StepAlone
<1>3. ASSUME NEW p \in Products, SaveProduct(p)
      PROVE  AllSound(live', docs', refs', calls')
  <2>1. UNCHANGED <<world, docs, calls>> /\ (env.serial => Quiet)
    BY <1>3 DEF SaveProduct
  <2>2. Refers(docs, refs, Idle) /\ \A a \in Admins : calls'[a] = Idle
    BY <2>1 DEF RefInv, AllSound, Still, world, Quiet
  <2>3. Refers(docs', refs', Idle)
    BY <1>3, <2>2, RefersSaved
  <2> QED BY <2>1, <2>2, <2>3 DEF RefInv, AllSound, Still, world
<1> QED BY <1>1, <1>2, <1>3, CatalogHandled, ContentHandled
        DEF Next, vars, world

\* The start: the defaults, and products that refer to nothing.
LEMMA RefInit == Init => RefInv
<1> SUFFICES ASSUME Init PROVE RefInv
  OBVIOUS
<1>1. /\ live \in Families /\ docs = Seed(live)
      /\ \A a \in Admins : calls[a] = Idle
      /\ \A p \in Products, k \in HeirKinds : refs[p][k] = 0
  BY DEF Init, RefKinds
<1> DEFINE kk == CHOOSE k \in live : TRUE
           sd(k, i, p) == [kind |-> k, slug |-> NoSlug, name |-> NoName,
                           parent |-> p, readOnly |-> TRUE, at |-> i]
           c1 == sd("category", 1, 0)
           s2 == sd("subCategory", 2, 1)
           k1 == sd(kk, 1, 0)
<1>0. docs \in [Ids -> Doc \union {NoDoc}]
  BY <1>1, SeedIds
<1>2. /\ NoDoc \notin Doc /\ live # {}
      /\ 1 \in Ids /\ 0 \in Ids0 /\ 1 \in Ids0
  BY <1>1, CollectionsAssumption DEF Ids, Ids0
<1>3. /\ "category" \in live => "subCategory" \in live /\ 2 \in Ids
      /\ "brand" \in live => live = {"brand"}
  BY <1>1, FamilyAssumption
<1>4. docs = [i \in Ids |->
          CASE i = 1 /\ "category" \in live -> c1
            [] i = 2 /\ "subCategory" \in live -> s2
            [] i = 1 /\ live \subseteq {"brand", "discountPercent"} -> k1
            [] OTHER -> NoDoc]
  BY <1>1 DEF Seed
<1>5. /\ c1.kind = "category" /\ c1.readOnly
      /\ s2.kind = "subCategory" /\ s2.readOnly /\ s2.parent = 1
      /\ k1.kind = kk /\ k1.readOnly /\ kk \in live
  BY <1>2
<1>6. ASSUME NEW k \in live, NEW i \in Ids, NEW p \in Ids0
      PROVE  sd(k, i, p) \in Doc
  <2>1. k \in Kinds
    BY <1>1 DEF Kinds
  <2> QED BY <2>1, NoFormType DEF Doc
<1>7. /\ "category" \in live => c1 # NoDoc /\ s2 # NoDoc
      /\ k1 # NoDoc
  <2>1. ASSUME "category" \in live PROVE c1 \in Doc /\ s2 \in Doc
    BY <1>2, <1>3, <1>6, <2>1
  <2>2. k1 \in Doc
    BY <1>2, <1>5, <1>6
  <2> QED BY <1>2, <2>1, <2>2
<1> HIDE DEF c1, s2, k1, kk, sd
<1>8. /\ "category" \in live => docs[1] = c1 /\ docs[2] = s2
      /\ "brand" \in live => docs[1] = k1 /\ kk = "brand"
  <2>1. "category" \in live => docs[1] = c1 /\ docs[2] = s2
    BY <1>2, <1>3, <1>4
  <2>2. ASSUME "brand" \in live PROVE docs[1] = k1 /\ kk = "brand"
    <3>1. live = {"brand"}
      BY <1>3, <2>2
    <3>2. "category" \notin live /\ live \subseteq {"brand", "discountPercent"}
      BY <3>1
    <3> QED BY <1>2, <1>4, <1>5, <3>1, <3>2
  <2> QED BY <2>1, <2>2
<1>9. \A i \in Ids : \/ docs[i] = NoDoc
                    \/ (i = 1 /\ docs[i] \in {c1, k1})
                    \/ (i = 2 /\ docs[i] = s2 /\ "category" \in live)
  <2>1. "subCategory" \in live => "category" \in live
    BY <1>1, CollectionsAssumption
  <2> QED BY <1>4, <2>1
<1>10. Defaults(live, docs)
  <2>1. ASSUME "category" \in live
        PROVE  /\ ThereIs(docs, "category", 1) /\ docs[1].readOnly
               /\ ThereIs(docs, "subCategory", 2) /\ docs[2].readOnly
               /\ docs[2].parent = 1
    BY <1>2, <1>3, <1>5, <1>7, <1>8, <2>1 DEF ThereIs
  <2>2. ASSUME "brand" \in live
        PROVE  ThereIs(docs, "brand", 1) /\ docs[1].readOnly
    BY <1>2, <1>5, <1>7, <1>8, <2>2 DEF ThereIs
  <2>3. ASSUME NEW i \in Ids, ThereIs(docs, "category", i) PROVE i = 1
    BY <1>5, <1>9, <2>3 DEF ThereIs
  <2> QED BY <2>1, <2>2, <2>3 DEF Defaults
<1>11. ASSUME NEW i \in Ids, ThereIs(docs, "subCategory", i)
       PROVE  ThereIs(docs, "category", docs[i].parent)
  <2>1. CASE i = 1 /\ docs[i] \in {c1, k1}
    <3>1. docs[1] = k1 /\ kk = "subCategory"
      BY <1>5, <1>11, <2>1 DEF ThereIs
    <3>2. "category" \in live
      BY <1>1, <1>5, <3>1, CollectionsAssumption
    <3> QED BY <1>5, <1>8, <3>1, <3>2
  <2>2. CASE i = 2 /\ docs[i] = s2 /\ "category" \in live
    BY <1>5, <1>10, <2>2 DEF Defaults
  <2> QED BY <1>9, <1>11, <2>1, <2>2 DEF ThereIs
<1>12. /\ Refers(docs, refs, Idle)
       /\ \A a \in Admins : Refers(docs, refs, calls[a])
  BY <1>1, <1>11 DEF Refers
<1>13. \A a \in Admins : RefFits(live, docs, calls[a])
  BY <1>1, IdleFits
<1> QED BY <1>10, <1>12, <1>13 DEF RefInv, AllSound

\* Administrators who call one at a time, ask for checkUsage and meet no
\* failure leave no product with a category, a sub-category or a brand that is
\* gone, and no sub-category without its category: deleteCategoryById,
\* deleteSubCategoryById, deleteBrandById and the bulk deletes find a default
\* and hand all references over before they answer.
THEOREM ReferencesLiveAlways == Spec => []ReferencesLive
<1>1. RefInv => ReferencesLive
  <2> SUFFICES ASSUME RefInv, env.careful, env.serial, Quiet
               PROVE  /\ \A p \in Products, k \in HeirKinds :
                            refs[p][k] # 0 => refs[p][k] \in Of(k)
                      /\ \A i \in Of("subCategory") :
                            docs[i].parent \in Of("category")
    BY DEF ReferencesLive
  <2>1. Refers(docs, refs, Idle)
    BY DEF RefInv, AllSound, Still, Quiet
  <2>2. \A k, i : ThereIs(docs, k, i) <=> i \in Of(k)
    BY DEF ThereIs, Of, Exists
  <2>3. \A i \in Of("subCategory") : i \in Ids
    BY DEF Of
  <2> QED BY <2>1, <2>2, <2>3, IdleFits DEF Refers
<1> QED BY <1>1, RefInit, RefNext, SoloAlways, BackInvAlways, PTL DEF Spec

(***************************************************************************)
(* Pages                                                                   *)
(***************************************************************************)
\* A numbering without repetition of as many elements as there are.
LEMMA Numbering ==
    ASSUME NEW n \in Nat, NEW S, NEW o \in [1..n -> S],
           \A i, j \in 1..n : i < j => o[i] # o[j]
    PROVE  LET T == {o[j] : j \in 1..n}
           IN  IsFiniteSet(T) /\ Cardinality(T) = n
<1> DEFINE T == {o[j] : j \in 1..n}
<1>1. IsFiniteSet(1..n) /\ Cardinality(1..n) = n
  BY FS_Interval
<1>2. o \in [1..n -> T]
  OBVIOUS
<1>3. \A i, j \in 1..n : o[i] = o[j] => i = j
  <2> SUFFICES ASSUME NEW i \in 1..n, NEW j \in 1..n, o[i] = o[j], i # j
               PROVE  FALSE
    OBVIOUS
  <2>1. i < j \/ j < i
    OBVIOUS
  <2> QED BY <2>1
<1>4. o \in Injection(1..n, T)
  BY <1>2, <1>3 DEF Injection, IsInjective
<1>5. o \in Surjection(1..n, T)
  BY <1>2 DEF Surjection
<1>6. ExistsBijection(1..n, T)
  BY <1>4, <1>5 DEF Bijection, ExistsBijection
<1> QED BY <1>1, <1>6, FS_Bijection

\* An order of a list has each element once.
LEMMA OrderHasAll ==
    ASSUME NEW S, IsFiniteSet(S), NEW o \in Orders(S)
    PROVE  /\ Cardinality(S) \in Nat
           /\ DOMAIN o = 1..Cardinality(S)
           /\ \A i \in S : \E j \in 1..Cardinality(S) : o[j] = i
<1> DEFINE n == Cardinality(S)
<1>1. n \in Nat
  BY FS_CardinalityType
<1>2. o \in [1..n -> S] /\ \A i, j \in 1..n : i < j => o[i] # o[j]
  BY DEF Orders
<1> HIDE DEF n
<1> DEFINE T == {o[j] : j \in 1..n}
<1>3. Cardinality(T) = n
  BY <1>1, <1>2, Numbering
<1>4. T \in SUBSET S
  BY <1>2
<1> HIDE DEF T
<1>5. T = S
  BY <1>3, <1>4, FS_Subset DEF n
<1> QED BY <1>1, <1>2, <1>5 DEF T, n

\* The documents of a list that come before document i.
Younger(d, k, i) == {j \in Ids : ThereIs(d, k, j) /\ d[j].at > d[i].at}

\* Where a document stands, if no two have the same creation time.
LEMMA Standing ==
    ASSUME BackInv, NEW k, NEW o \in Orders(Of(k)), NEW i \in Of(k),
           \A x, y \in Of(k) : x # y => docs[x].at # docs[y].at
    PROVE  \E p \in 1..Cardinality(Of(k)) :
               o[p] = i /\ p = Cardinality(Younger(docs, k, i)) + 1
<1> DEFINE n == Cardinality(Of(k))
           at(x) == docs[x].at
<1>1. IsFiniteSet(Of(k))
  <2>1. IsFiniteSet(Ids)
    BY FS_Interval, CollectionsAssumption DEF Ids
  <2> QED BY <2>1, FS_Subset DEF Of
<1>2. /\ n \in Nat
      /\ \A j \in Of(k) : \E q \in 1..n : o[q] = j
  BY <1>1, OrderHasAll
<1>3. /\ o \in [1..n -> Of(k)]
      /\ \A x, y \in 1..n : x < y => o[x] # o[y] /\ at(o[x]) >= at(o[y])
  BY DEF Orders
<1>4. \A x \in Of(k) : at(x) \in Nat
  BY CollectionsAssumption DEF BackInv, TypeOK, Of, Exists, Doc, Ids
<1>5. \A x, y \in Of(k) : at(x) = at(y) => x = y
  OBVIOUS
<1>6. Younger(docs, k, i) = {x \in Of(k) : at(x) > at(i)}
  BY DEF Younger, ThereIs, Of, Exists
<1> HIDE DEF n, at
<1>7. PICK p \in 1..n : o[p] = i
  BY <1>2
<1> DEFINE T == {o[j] : j \in 1..(p - 1)}
<1>8. p - 1 \in Nat /\ \A j \in 1..(p - 1) : j \in 1..n /\ j < p
  BY <1>2, <1>7
<1>9. T \subseteq Younger(docs, k, i)
  <2> SUFFICES ASSUME NEW j \in 1..(p - 1) PROVE o[j] \in Younger(docs, k, i)
    OBVIOUS
  <2>1. o[j] \in Of(k) /\ o[j] # i /\ at(o[j]) >= at(i)
    BY <1>3, <1>7, <1>8
  <2>2. at(o[j]) # at(i)
    BY <1>5, <2>1
  <2>3. at(o[j]) > at(i)
    BY <1>4, <2>1, <2>2
  <2> QED BY <1>6, <2>1, <2>3
<1>10. Younger(docs, k, i) \subseteq T
  <2> SUFFICES ASSUME NEW x \in Of(k), at(x) > at(i) PROVE x \in T
    BY <1>6
  <2>1. PICK j \in 1..n : o[j] = x
    BY <1>2
  <2>2. at(x) \in Nat /\ at(i) \in Nat
    BY <1>4
  <2>3. ~(p < j)
    BY <1>3, <1>7, <2>1, <2>2
  <2>4. j # p
    BY <1>7, <2>1, <2>2
  <2>5. j \in 1..(p - 1)
    BY <1>2, <1>7, <2>1, <2>3, <2>4
  <2> QED BY <2>1, <2>5
<1>11. Cardinality(T) = p - 1
  <2> DEFINE u == [j \in 1..(p - 1) |-> o[j]]
             m == p - 1
  <2>1. u \in [1..m -> Of(k)] /\ \A x, y \in 1..m : x < y => u[x] # u[y]
    BY <1>3, <1>8
  <2>2. {u[j] : j \in 1..m} = T
    OBVIOUS
  <2>3. m \in Nat
    BY <1>8
  <2> HIDE DEF u, m
  <2>4. Cardinality({u[j] : j \in 1..m}) = m
    BY <2>1, <2>3, Numbering
  <2> QED BY <2>2, <2>4 DEF m
<1>12. Younger(docs, k, i) = T
  BY <1>9, <1>10
<1> HIDE DEF T
<1>13. p = Cardinality(Younger(docs, k, i)) + 1
  BY <1>2, <1>7, <1>11, <1>12
<1> QED BY <1>7, <1>13 DEF n

\* Document i is in the list of collection k, see Listed.
InList(d, k, i) ==
    /\ ThereIs(d, k, i)
    /\ k = "subCategory" => d[i].parent \in Ids /\ d[d[i].parent] # NoDoc

\* What an undisturbed client has not seen yet is on a page to come.
Awaited(d, r, i) ==
    /\ InList(d, r.kind, i)
    /\ PageSize * r.page <= Cardinality(Younger(d, r.kind, i))
Reading(d, r) ==
    /\ r.state = "open" /\ ~r.slip =>
          \A i \in r.owed : i \in r.seen \/ Awaited(d, r, i)
    /\ r.state = "done" /\ ~r.slip => r.owed \subseteq r.seen

\* Of the categories only the first is read-only.
OneDefault(d) ==
    \A i \in Ids : ThereIs(d, "category", i) /\ d[i].readOnly => i = 1

\* Of the categories that a call works on, only a read-only one is still there
\* when it has deleted; b ids have been given.
PageFits(b, d, c) ==
    /\ c.pc = "save" /\ c.kind = "category" => ~c.form.readOnly
    /\ c.pc \in {"check", "set"} => c.form.parent = 0
    /\ c.kind = "category" /\ c.pc = "delete" =>
          \A i \in c.ids :
              /\ i <= b
              /\ d[i] # NoDoc => /\ d[i].kind = "category"
                                 /\ i \in c.doomed \/ d[i].readOnly
    /\ c.kind = "category" /\ c.pc \in Handing =>
          \A i \in c.ids :
              /\ i <= b
              /\ d[i] # NoDoc => d[i].kind = "category" /\ d[i].readOnly
    /\ c.pc \in {"heirSub", "moveSubs"} => c.kind = "category" /\ c.heir = 1

AllPaged(b, d, r, cs) ==
    /\ OneDefault(d)
    /\ Reading(d, r)
    /\ \A a \in Admins : PageFits(b, d, cs[a])
PageInv == AllPaged(born, docs, reader, calls)

\* Documents keep what they are, and new ones are no default categories.
Gentle(d, d2) ==
    \A i \in Ids : d2[i] # NoDoc =>
        \/ /\ d[i] # NoDoc
           /\ d2[i].kind = d[i].kind /\ d2[i].readOnly = d[i].readOnly
        \/ /\ i > born
           /\ d2[i].kind = "category" => ~d2[i].readOnly

\* What every step does to the documents and to the client.
Turn == /\ Gentle(docs, docs') /\ Reading(docs', reader')
        /\ born' \in Nat /\ born <= born'

\* Such steps leave the defaults and the calls of others in order.
LEMMA GentleKeeps ==
    ASSUME BackInv, NEW d, NEW d2, Gentle(d, d2), OneDefault(d),
           NEW b \in Nat, born <= b, NEW c \in Call, PageFits(born, d, c)
    PROVE  OneDefault(d2) /\ PageFits(b, d2, c)
<1>1. OneDefault(d2)
  BY DEF OneDefault, Gentle, ThereIs
<1>2. /\ born \in Nat /\ \A i \in Ids : i \in Nat
      /\ c.ids \in SUBSET Ids
  BY CollectionsAssumption DEF BackInv, TypeOK, Ids, Ids0, Call
<1>3. ASSUME NEW i \in Ids, i <= born
      PROVE  /\ i <= b
             /\ d2[i] # NoDoc => /\ d[i] # NoDoc /\ d2[i].kind = d[i].kind
                                 /\ d2[i].readOnly = d[i].readOnly
  <2>1. ~(i > born) /\ i <= b
    BY <1>2, <1>3
  <2> QED BY <2>1 DEF Gentle
<1>4. ASSUME c.kind = "category", c.pc = "delete", NEW i \in c.ids
      PROVE  /\ i <= b
             /\ d2[i] # NoDoc => /\ d2[i].kind = "category"
                                 /\ i \in c.doomed \/ d2[i].readOnly
  BY <1>2, <1>3, <1>4 DEF PageFits
<1>5. ASSUME c.kind = "category", c.pc \in Handing, NEW i \in c.ids
      PROVE  /\ i <= b
             /\ d2[i] # NoDoc => d2[i].kind = "category" /\ d2[i].readOnly
  BY <1>2, <1>3, <1>5 DEF PageFits
<1> QED BY <1>1, <1>4, <1>5 DEF PageFits

\* The idle call.
LEMMA IdlePaged == \A b, d : PageFits(b, d, Idle)
<1>1. Idle.pc = "idle" /\ Idle.kind = "none"
  BY IdleType DEF Idle
<1> QED BY <1>1 DEF PageFits, Handing

\* Calls at other places.
LEMMA PagedElse ==
    \A b, d, c : c.pc \in {"idle", "pull", "import"} => PageFits(b, d, c)
BY DEF PageFits, Handing

\* As many documents come before another when none is lost.
LEMMA YoungerGrows ==
    ASSUME NEW d, NEW d2, NEW k, NEW i \in Ids, d[i] # NoDoc,
           \A j \in Ids : d[j] # NoDoc =>
               d2[j] # NoDoc /\ d2[j].kind = d[j].kind /\ d2[j].at = d[j].at
    PROVE  /\ Cardinality(Younger(d, k, i)) \in Nat
           /\ Cardinality(Younger(d2, k, i)) \in Nat
           /\ Cardinality(Younger(d, k, i)) <= Cardinality(Younger(d2, k, i))
<1>1. IsFiniteSet(Ids)
  BY FS_Interval, CollectionsAssumption DEF Ids
<1>2. IsFiniteSet(Younger(d, k, i)) /\ IsFiniteSet(Younger(d2, k, i))
  BY <1>1, FS_Subset DEF Younger
<1>3. Younger(d, k, i) \in SUBSET Younger(d2, k, i)
  BY DEF Younger, ThereIs
<1> QED BY <1>2, <1>3, FS_Subset, FS_CardinalityType

\* The client goes on undisturbed.
LEMMA ReadingKept ==
    ASSUME BackInv, Reading(docs, reader), UNCHANGED reader,
           \A j \in Ids : docs[j] # NoDoc =>
               /\ docs'[j] # NoDoc /\ docs'[j].kind = docs[j].kind
               /\ docs'[j].at = docs[j].at,
           \A k, i : InList(docs, k, i) => InList(docs', k, i)
    PROVE  Reading(docs', reader')
<1> SUFFICES ASSUME reader.state = "open", ~reader.slip, NEW i \in reader.owed,
                    i \notin reader.seen
             PROVE  Awaited(docs', reader, i)
  BY DEF Reading
<1>1. Awaited(docs, reader, i)
  BY DEF Reading
<1>2. i \in Ids /\ docs[i] # NoDoc
  BY <1>1 DEF Awaited, InList, ThereIs
<1>3. PageSize * reader.page \in Nat
  BY CollectionsAssumption DEF BackInv, TypeOK, Reader
<1>4. /\ Cardinality(Younger(docs, reader.kind, i)) \in Nat
      /\ Cardinality(Younger(docs', reader.kind, i)) \in Nat
      /\ Cardinality(Younger(docs, reader.kind, i))
            <= Cardinality(Younger(docs', reader.kind, i))
  BY <1>2, YoungerGrows
<1>5. PageSize * reader.page <= Cardinality(Younger(docs, reader.kind, i))
  BY <1>1 DEF Awaited
<1>6. PageSize * reader.page <= Cardinality(Younger(docs', reader.kind, i))
  BY <1>3, <1>4, <1>5
<1> QED BY <1>1, <1>6 DEF Awaited

\* Nothing changes.
LEMMA TurnSame ==
    ASSUME BackInv, Reading(docs, reader), UNCHANGED <<docs, born, reader>>
    PROVE  Turn
<1>1. born \in Nat
  BY CollectionsAssumption DEF BackInv, TypeOK, Ids0
<1> QED BY <1>1 DEF Turn, Gentle

\* New documents.
LEMMA TurnGrown ==
    ASSUME BackInv, Reading(docs, reader), UNCHANGED reader,
           born' \in Nat, born <= born', NEW k, NEW forms,
           Grown(docs, docs', k, forms),
           k = "category" => \A f \in forms : ~f.readOnly
    PROVE  Turn
<1>1. ASSUME NEW j \in Ids, docs[j] # NoDoc PROVE docs'[j] = docs[j]
  BY <1>1 DEF Grown, BackInv, Fresh
<1>2. \A n, i : InList(docs, n, i) => InList(docs', n, i)
  BY <1>1 DEF InList, ThereIs
<1>3. Reading(docs', reader')
  BY <1>1, <1>2, ReadingKept
<1>4. Gentle(docs, docs')
  <2> SUFFICES ASSUME NEW i \in Ids, docs'[i] # docs[i]
               PROVE  /\ i > born
                      /\ docs'[i].kind = "category" => ~docs'[i].readOnly
    BY DEF Gentle
  <2>1. PICK f \in forms : docs'[i] = NewDoc(k, f, born + 1)
    BY DEF Grown
  <2>2. docs'[i].kind = k /\ docs'[i].readOnly = f.readOnly
    BY <2>1 DEF NewDoc, Stored
  <2> QED BY <2>2 DEF Grown
<1> QED BY <1>3, <1>4 DEF Turn

\* A removal disturbs the client, or removes nothing.
LEMMA TurnRemove ==
    ASSUME BackInv, Reading(docs, reader), UNCHANGED born, NEW S, Remove(S)
    PROVE  Turn
<1>1. born \in Nat
  BY CollectionsAssumption DEF BackInv, TypeOK, Ids0
<1>2. Gentle(docs, docs')
  BY DEF Gentle, Remove
<1>3. Reading(docs', reader')
  <2>1. CASE reader.state = "open" /\ \E i \in S : Exists(i)
    <3>1. reader' = [reader EXCEPT !.owed = @ \ S, !.slip = TRUE]
      BY <2>1 DEF Remove, Disturb
    <3>2. reader'.slip /\ reader'.state = "open"
      BY <2>1, <3>1 DEF BackInv, TypeOK, Reader
    <3> QED BY <3>2 DEF Reading
  <2>2. CASE reader.state = "open" /\ ~\E i \in S : Exists(i)
    <3>1. \A j \in Ids : docs[j] # NoDoc => docs'[j] = docs[j]
      BY <2>2 DEF Remove, Exists
    <3>2. \A n, i : InList(docs, n, i) => InList(docs', n, i)
      BY <3>1 DEF InList, ThereIs
    <3> QED BY <2>2, <3>1, <3>2, ReadingKept DEF Remove, Disturb
  <2>3. CASE reader.state # "open"
    <3>1. reader' = reader
      BY <2>3 DEF Remove, Disturb
    <3> QED BY <2>3, <3>1 DEF Reading
  <2> QED BY <2>1, <2>2, <2>3
<1> QED BY <1>1, <1>2, <1>3 DEF Turn

\* What setting fields does to a document.
LEMMA FieldsSet ==
    ASSUME BackInv, NEW S, NEW f \in Form, SetFields(S, f), NEW i \in Ids
    PROVE  /\ docs'[i] # NoDoc <=> docs[i] # NoDoc
           /\ docs[i] # NoDoc =>
                /\ docs'[i].kind = docs[i].kind
                /\ docs'[i].readOnly = docs[i].readOnly
                /\ docs'[i].at = docs[i].at
                /\ docs'[i].parent = IF i \in S /\ f.parent # 0 THEN f.parent
                                     ELSE docs[i].parent
<1>1. CASE i \in S /\ docs[i] # NoDoc
  <2>1. docs[i] \in Doc /\ docs'[i] = Filled(docs[i], f)
    BY <1>1 DEF BackInv, TypeOK, SetFields, Exists
  <2>2. docs'[i] \in Doc /\ NoDoc \notin Doc
    BY <2>1, DocTypes
  <2>3. /\ docs'[i].kind = docs[i].kind
        /\ docs'[i].readOnly = docs[i].readOnly
        /\ docs'[i].at = docs[i].at
        /\ docs'[i].parent = IF f.parent = 0 THEN docs[i].parent ELSE f.parent
    BY <2>1 DEF Filled, Stored, Doc
  <2> QED BY <1>1, <2>2, <2>3
<1>2. CASE ~(i \in S /\ docs[i] # NoDoc)
  BY <1>2 DEF SetFields, Exists
<1> QED BY <1>1, <1>2

\* Fields are set, and parents only where a list does not lose a document.
LEMMA TurnSet ==
    ASSUME BackInv, Reading(docs, reader), UNCHANGED <<born, reader>>,
           NEW S, NEW f \in Form, SetFields(S, f),
           \A i \in S : InList(docs, "subCategory", i) =>
               f.parent \in {0, docs[i].parent}
    PROVE  Turn
<1>1. born \in Nat
  BY CollectionsAssumption DEF BackInv, TypeOK, Ids0
<1>2. Gentle(docs, docs')
  BY FieldsSet DEF Gentle
<1>3. \A j \in Ids : docs[j] # NoDoc =>
          /\ docs'[j] # NoDoc /\ docs'[j].kind = docs[j].kind
          /\ docs'[j].at = docs[j].at
  BY FieldsSet
<1>4. ASSUME NEW k, NEW i, InList(docs, k, i) PROVE InList(docs', k, i)
  <2>1. i \in Ids /\ ThereIs(docs', k, i)
    BY <1>3, <1>4 DEF InList, ThereIs
  <2>2. ASSUME k = "subCategory"
        PROVE  docs'[i].parent \in Ids /\ docs'[docs'[i].parent] # NoDoc
    <3>1. docs'[i].parent = docs[i].parent
      BY <1>4, <2>1, <2>2, FieldsSet DEF InList, ThereIs
    <3> QED BY <1>3, <1>4, <2>2, <3>1 DEF InList
  <2> QED BY <2>1, <2>2 DEF InList
<1>5. Reading(docs', reader')
  BY <1>3, <1>4, ReadingKept
<1> QED BY <1>1, <1>2, <1>5 DEF Turn

\* The handlers that add.
LEMMA PageAdding ==
    ASSUME BackInv, Reading(docs, reader), NEW a \in Admins, NEW k,
           Adding(a, k)
    PROVE  Turn /\ PageFits(born', docs', calls'[a])
<1>0. born \in Nat
  BY CollectionsAssumption DEF BackInv, TypeOK, Ids0
<1>1. CASE AddCheckingSlug(a, k)
  <2>1. PICK f \in SlugForms(k) : \E s : Goto(a,
            [Idle EXCEPT !.pc = "save", !.kind = k,
                         !.form = [f EXCEPT !.slug = s]])
    BY <1>1 DEF AddCheckingSlug
  <2>2. PICK s : calls'[a] = [Idle EXCEPT !.pc = "save", !.kind = k,
                                          !.form = [f EXCEPT !.slug = s]]
    BY <2>1, Parts
  <2>3. f \in Form
    BY FormTypes DEF BackInv
  <2>4. /\ calls'[a].pc = "save" /\ calls'[a].kind = k
        /\ calls'[a].form = [f EXCEPT !.slug = s]
    BY <2>2 DEF Idle
  <2>5. calls'[a].form.readOnly = f.readOnly
    BY <2>3, <2>4 DEF Form
  <2>6. PageFits(born', docs', calls'[a])
    BY <2>4, <2>5, FormsRefer DEF PageFits, Handing
  <2> QED BY <1>1, <2>6, TurnSame DEF AddCheckingSlug
<1>2. ASSUME NEW forms, AddAtOnce(a, k, forms), k \in Namers \union Slugless
      PROVE  Turn /\ PageFits(born', docs', calls'[a])
  <2>1. PICK f \in forms : SaveForm(a, k, f)
    BY <1>2 DEF AddAtOnce
  <2>2. calls'[a] = Idle /\ Grown(docs, docs', k, {f})
    BY <2>1, SaveGrows
  <2>3. k # "category"
    BY <1>2 DEF Namers, Followers, Slugless
  <2>4. born' \in Nat /\ born <= born' /\ UNCHANGED reader
    BY <1>0, <2>1 DEF SaveForm
  <2> QED BY <2>2, <2>3, <2>4, TurnGrown, IdlePaged
<1>3. CASE AddAdditionalPage(a)
  <2>1. PICK f \in SlugForms("additionalPage") :
            \/ UNCHANGED calls
            \/ calls'[a] = [Idle EXCEPT !.pc = "save", !.form = f,
                                        !.kind = "additionalPage"]
    BY <1>3, Parts DEF AddAdditionalPage
  <2>2. Turn
    BY <1>3, TurnSame DEF AddAdditionalPage
  <2>3. CASE UNCHANGED calls
    BY <1>3, <2>2, <2>3, IdlePaged DEF AddAdditionalPage, MayCall
  <2>4. CASE calls'[a] = [Idle EXCEPT !.pc = "save", !.form = f,
                                      !.kind = "additionalPage"]
    <3>1. calls'[a].pc = "save" /\ calls'[a].kind = "additionalPage"
      BY <2>4 DEF Idle
    <3>2. PageFits(born', docs', calls'[a])
      BY <3>1 DEF PageFits, Handing
    <3> QED BY <2>2, <3>2
  <2> QED BY <2>1, <2>3, <2>4
<1> QED BY <1>1, <1>2, <1>3 DEF Adding

\* A batch that is stored.
LEMMA TurnBatch ==
    ASSUME BackInv, Reading(docs, reader), NEW a \in Admins, NEW k, NEW forms,
           InsertBatch(a, k, forms),
           k = "category" => \A f \in forms : ~f.readOnly
    PROVE  Turn /\ PageFits(born', docs', calls'[a])
<1>1. Grown(docs, docs', k, forms) /\ calls'[a] = Idle /\ UNCHANGED reader
  BY BatchGrows DEF InsertBatch
<1>2. born' \in Nat /\ born <= born'
  <2>1. PICK m \in 0..MaxBatch :
            \E b \in [1..m -> forms] : born' = born + Accepted(k, b)
    BY DEF InsertBatch
  <2>2. PICK b \in [1..m -> forms] : born' = born + Accepted(k, b)
    BY <2>1
  <2>3. m \in Nat /\ born \in Nat
    BY CollectionsAssumption DEF BackInv, TypeOK, Ids0
  <2>4. Accepted(k, b) \in Nat
    BY <2>3, AcceptedBound
  <2> QED BY <2>2, <2>3, <2>4
<1> QED BY <1>1, <1>2, TurnGrown, IdlePaged

\* The handlers that import.
LEMMA PageImporting ==
    ASSUME BackInv, Reading(docs, reader), NEW a \in Admins, NEW k,
           Importing(a, k)
    PROVE  Turn /\ PageFits(born', docs', calls'[a])
<1>1. CASE ClearForImport(a, k)
  <2>1. calls'[a] = [Idle EXCEPT !.pc = "import", !.kind = k]
    BY <1>1, Parts DEF ClearForImport
  <2>2. calls'[a].pc = "import"
    BY <2>1 DEF Idle
  <2>3. Turn
    BY <1>1, TurnRemove DEF ClearForImport
  <2> QED BY <2>2, <2>3, PagedElse
<1>2. ASSUME NEW forms, InsertMany(a, k, forms),
             k = "category" => \A f \in forms : ~f.readOnly
      PROVE  Turn /\ PageFits(born', docs', calls'[a])
  <2>1. ClearForImport(a, k) \/ InsertBatch(a, k, forms)
    BY <1>2 DEF InsertMany
  <2> QED BY <1>1, <1>2, <2>1, TurnBatch
<1>3. CASE InsertMany(a, k, SlugForms(k))
  BY <1>2, <1>3, FormsRefer
<1>4. k \in Namers \union Slugless => k # "category"
  BY DEF Namers, Followers, Slugless
<1> QED BY <1>2, <1>3, <1>4 DEF Importing

\* The handlers that update.
LEMMA PageUpdating ==
    ASSUME BackInv, Reading(docs, reader), NEW a \in Admins, NEW k,
           Updating(a, k)
    PROVE  Turn /\ PageFits(born', docs', calls'[a])
<1>1. CASE Looked(a)
  <2>1. PageFits(born', docs', calls'[a])
    BY <1>1 DEF Looked, PageFits, Handing
  <2> QED BY <1>1, <2>1, TurnSame DEF Looked
<1>2. CASE Written(a)
  <2>1. PageFits(born', docs', calls'[a])
    BY <1>2, IdlePaged DEF Written
  <2>2. CASE UNCHANGED docs
    BY <1>2, <2>1, <2>2, TurnSame DEF Written
  <2>3. CASE \E S, f : f \in Form /\ f.parent = 0 /\ SetFields(S, f)
    BY <1>2, <2>1, <2>3, TurnSet DEF Written
  <2> QED BY <1>2, <2>1, <2>2, <2>3 DEF Written
<1> QED BY <1>1, <1>2, UpdateShape

\* The handlers that delete.
LEMMA PageDeleting ==
    ASSUME BackInv, Reading(docs, reader), NEW a \in Admins, NEW k,
           Deleting(a, k)
    PROVE  Turn /\ PageFits(born', docs', calls'[a])
<1>1. \A i \in Of(k) : /\ i \in Ids /\ i <= born
                       /\ docs[i] # NoDoc /\ docs[i].kind = k
  <2>1. born \in Nat /\ \A i \in Ids : i \in Nat
    BY CollectionsAssumption DEF BackInv, TypeOK, Ids, Ids0
  <2> QED BY <2>1 DEF BackInv, Fresh, Of, Exists
<1>2. ASSUME UNCHANGED <<docs, born, reader>>,
             calls'[a].pc = "delete", calls'[a].kind = k,
             calls'[a].ids \subseteq Of(k),
             \A i \in calls'[a].ids : i \in calls'[a].doomed \/ docs[i].readOnly
      PROVE  Turn /\ PageFits(born', docs', calls'[a])
  <2>1. \A i \in calls'[a].ids :
            i <= born /\ docs[i] # NoDoc /\ docs[i].kind = k
    BY <1>1, <1>2
  <2>2. PageFits(born', docs', calls'[a])
    BY <1>2, <2>1 DEF PageFits, Handing
  <2> QED BY <1>2, <2>2, TurnSame
<1>3. ASSUME NEW guarded \in BOOLEAN, NEW next,
             DeleteFound(a, k, guarded, next)
      PROVE  Turn /\ PageFits(born', docs', calls'[a])
  <2>1. PICK i \in Of(k) : \E n :
            calls'[a] = [Idle EXCEPT !.pc = "delete", !.kind = k,
                           !.ids = {i}, !.doomed = {i}, !.next = n]
    BY <1>3, Parts DEF DeleteFound
  <2>2. /\ calls'[a].pc = "delete" /\ calls'[a].kind = k
        /\ calls'[a].ids = {i} /\ calls'[a].doomed = {i}
    BY <2>1 DEF Idle
  <2>3. UNCHANGED <<docs, born, reader>>
    BY <1>3 DEF DeleteFound
  <2> QED BY <1>2, <2>2, <2>3
<1>4. ASSUME DeleteManyFound(a, k, "heir")
      PROVE  Turn /\ PageFits(born', docs', calls'[a])
  <2>1. PICK S \in SUBSET Of(k) : \E n :
            calls'[a] = [Idle EXCEPT !.pc = "delete", !.kind = k,
                           !.ids = S, !.doomed = Deletable(S), !.next = n]
    BY <1>4, Parts DEF DeleteManyFound
  <2>2. /\ calls'[a].pc = "delete" /\ calls'[a].kind = k
        /\ calls'[a].ids = S /\ calls'[a].doomed = Deletable(S)
    BY <2>1 DEF Idle
  <2>3. \A i \in S : i \in Deletable(S) \/ docs[i].readOnly
    BY DEF Deletable
  <2>4. UNCHANGED <<docs, born, reader>>
    BY <1>4 DEF DeleteManyFound
  <2> QED BY <1>2, <2>2, <2>3, <2>4
<1>5. ASSUME NEW sets, NEW next \in {"idle", "pull"},
             DeleteAtOnce(a, k, sets, next)
      PROVE  Turn /\ PageFits(born', docs', calls'[a])
  <2>1. PICK S \in sets : Remove(S)
    BY <1>5 DEF DeleteAtOnce
  <2>2. Turn
    BY <1>5, <2>1, TurnRemove DEF DeleteAtOnce
  <2>3. \/ calls'[a] = Idle
        \/ \E T : calls'[a] = [Idle EXCEPT !.pc = next, !.kind = k, !.ids = T]
    BY <1>5, Parts DEF DeleteAtOnce
  <2>4. calls'[a].pc \in {"idle", "pull", "import"}
    BY <2>3, IdleType DEF Idle
  <2> QED BY <2>2, <2>4, PagedElse
<1> QED BY <1>3, <1>4, <1>5 DEF Deleting

\* The delete, after which a call knows that only the default is left.
LEMMA PageDelete ==
    ASSUME BackInv, Reading(docs, reader), NEW a \in Admins,
           PageFits(born, docs, calls[a]), DeleteDocuments(a)
    PROVE  Turn /\ PageFits(born', docs', calls'[a])
<1> DEFINE c == calls[a]
           c2 == calls'[a]
<1>1. c.pc = "delete" /\ Remove(c.doomed) /\ UNCHANGED born
  BY DEF DeleteDocuments
<1>2. Turn
  BY <1>1, TurnRemove
<1>3. c2 = IF c.next = "idle" THEN Idle ELSE [c EXCEPT !.pc = c.next]
  BY Parts DEF DeleteDocuments
<1>4. \/ c2.pc \in {"idle", "pull", "import"}
      \/ c2.pc = "heir" /\ c2.kind = c.kind /\ c2.ids = c.ids
  BY <1>3, Parts, IdleType DEF Call
<1>5. CASE c2.pc \in {"idle", "pull", "import"}
  BY <1>2, <1>5, PagedElse
<1>6. CASE c2.pc = "heir" /\ c2.kind = c.kind /\ c2.ids = c.ids
  <2>1. ASSUME c.kind = "category", NEW i \in c.ids
        PROVE  /\ i <= born
               /\ docs'[i] # NoDoc => /\ docs'[i].kind = "category"
                                      /\ docs'[i].readOnly
    <3>1. i \in Ids
      BY Parts
    <3>2. docs'[i] # NoDoc => docs'[i] = docs[i] /\ i \notin c.doomed
      BY <1>1, <3>1 DEF Remove
    <3> QED BY <1>1, <2>1, <3>2 DEF PageFits
  <2>2. PageFits(born', docs', c2)
    BY <1>1, <1>6, <2>1 DEF PageFits, Handing
  <2> QED BY <1>2, <2>2
<1> QED BY <1>4, <1>5, <1>6

\* The default is found.
LEMMA PageHeir ==
    ASSUME BackInv, Reading(docs, reader), OneDefault(docs), NEW a \in Admins,
           PageFits(born, docs, calls[a]), FindHeir(a) \/ FindHeirSub(a)
    PROVE  Turn /\ PageFits(born', docs', calls'[a])
<1> DEFINE c == calls[a]
           c2 == calls'[a]
<1>1. UNCHANGED <<docs, born, reader>> /\ c.pc \in {"heir", "heirSub"}
  BY DEF FindHeir, FindHeirSub
<1>2. Turn
  BY <1>1, TurnSame
<1>3. CASE c2 = Idle
  BY <1>2, <1>3, IdlePaged
<1>4. CASE FindHeir(a) /\ ~Respond(a)
  <2>1. PICK h \in Default(c.kind) :
            c2 = [c EXCEPT !.heir = h, !.pc = IF c.kind = "category"
                                              THEN "heirSub" ELSE "reset"]
    BY <1>4, Parts DEF FindHeir
  <2>2. /\ c2.kind = c.kind /\ c2.ids = c.ids /\ c2.heir = h
        /\ c2.pc = IF c.kind = "category" THEN "heirSub" ELSE "reset"
    BY <2>1, Parts DEF Call
  <2>3. c.pc = "heir"
    BY <1>4 DEF FindHeir
  <2>4. c.kind = "category" => h = 1
    BY DEF OneDefault, Default, Of, Exists, ThereIs
  <2>5. PageFits(born', docs', c2)
    BY <1>1, <2>2, <2>3, <2>4 DEF PageFits, Handing
  <2> QED BY <1>2, <2>5
<1>5. CASE FindHeirSub(a) /\ ~Respond(a)
  <2>1. PICK h : c2 = [c EXCEPT !.heirSub = h, !.pc = "moveSubs"]
    BY <1>5, Parts DEF FindHeirSub
  <2>2. /\ c2.kind = c.kind /\ c2.ids = c.ids /\ c2.heir = c.heir
        /\ c2.pc = "moveSubs" /\ c.pc = "heirSub"
    BY <1>5, <2>1, Parts DEF Call, FindHeirSub
  <2>3. PageFits(born', docs', c2)
    BY <1>1, <2>2 DEF PageFits, Handing
  <2> QED BY <1>2, <2>3
<1> QED BY <1>3, <1>4, <1>5, Parts

\* Sub-categories in a list are moved only from the default to itself: they
\* have a category, and of those the call deleted none is left.
LEMMA PageMove ==
    ASSUME BackInv, Reading(docs, reader), OneDefault(docs), NEW a \in Admins,
           PageFits(born, docs, calls[a]), MoveSubCategories(a)
    PROVE  Turn /\ PageFits(born', docs', calls'[a])
<1> DEFINE c == calls[a]
           c2 == calls'[a]
<1>1. /\ c.pc = "moveSubs" /\ c.kind = "category" /\ c.heir = 1
      /\ UNCHANGED <<born, reader>>
      /\ \A i \in c.ids : /\ i <= born
                          /\ docs[i] # NoDoc => /\ docs[i].kind = "category"
                                                /\ docs[i].readOnly
  BY DEF MoveSubCategories, PageFits, Handing
<1>2. c2 = [c EXCEPT !.pc = "reset"]
  BY Parts DEF MoveSubCategories
<1>3. c2.pc = "reset" /\ c2.kind = c.kind /\ c2.ids = c.ids
  BY <1>2, Parts DEF Call
<1>4. PICK f \in Form : f = [NoForm EXCEPT !.parent = c.heir]
  BY Parts, NoFormType DEF Form
<1>5. f.parent = 1
  BY <1>1, <1>4, NoFormType DEF Form
<1>6. SetFields(Orphans(c), f)
  BY <1>4 DEF MoveSubCategories
<1>7. ASSUME NEW i \in Orphans(c), InList(docs, "subCategory", i)
      PROVE  docs[i].parent = 1
  <2>1. docs[i].parent \in c.ids
    BY DEF Orphans
  <2>2. docs[i].parent \in Ids /\ docs[docs[i].parent] # NoDoc
    BY <1>7 DEF InList
  <2> QED BY <1>1, <2>1, <2>2 DEF OneDefault, ThereIs
<1>8. Turn
  BY <1>1, <1>5, <1>6, <1>7, TurnSet
<1>9. \A i \in c.ids : docs'[i] # NoDoc => /\ docs'[i].kind = "category"
                                          /\ docs'[i].readOnly
  BY <1>1, <1>6, FieldsSet, Parts
<1>10. PageFits(born', docs', c2)
  BY <1>1, <1>3, <1>9 DEF PageFits, Handing
<1> QED BY <1>8, <1>10

\* What handlers go on with.
LEMMA PageContinue ==
    ASSUME BackInv, Reading(docs, reader), OneDefault(docs), NEW a \in Admins,
           PageFits(born, docs, calls[a]), Continue(a)
    PROVE  Turn /\ PageFits(born', docs', calls'[a])
<1>1. CASE SaveDocument(a)
  <2>1. SaveForm(a, calls[a].kind, calls[a].form) /\ calls[a].pc = "save"
    BY <1>1 DEF SaveDocument
  <2>2. /\ Grown(docs, docs', calls[a].kind, {calls[a].form})
        /\ calls'[a] = Idle
    BY <2>1, SaveGrows
  <2>3. born' \in Nat /\ born <= born' /\ UNCHANGED reader
    BY <2>1, CollectionsAssumption DEF SaveForm, BackInv, TypeOK, Ids0
  <2>4. calls[a].kind = "category" => ~calls[a].form.readOnly
    BY <2>1 DEF PageFits
  <2> QED BY <2>2, <2>3, <2>4, TurnGrown, IdlePaged
<1>2. CASE CheckSlug(a)
  <2>1. PICK s : calls'[a] = [calls[a] EXCEPT !.pc = "set", !.form.slug = s]
    BY <1>2, Parts DEF CheckSlug
  <2>2. /\ calls'[a].pc = "set"
        /\ calls'[a].form = [calls[a].form EXCEPT !.slug = s]
    BY <2>1, Parts DEF Call
  <2>3. calls[a].pc = "check" /\ UNCHANGED <<docs, born, reader>>
    BY <1>2 DEF CheckSlug
  <2>4. calls'[a].form.parent = 0
    BY <2>2, <2>3, Parts DEF PageFits, Form
  <2>5. PageFits(born', docs', calls'[a])
    BY <2>2, <2>4 DEF PageFits, Handing
  <2> QED BY <2>3, <2>5, TurnSame
<1>3. CASE SetDocument(a)
  <2>1. /\ calls'[a] = Idle /\ calls[a].pc = "set"
        /\ UNCHANGED <<born, reader>>
        /\ UNCHANGED docs \/ SetFields(calls[a].ids, calls[a].form)
    BY <1>3, Parts DEF SetDocument
  <2>2. calls[a].form.parent = 0 /\ calls[a].form \in Form
    BY <2>1, Parts DEF PageFits
  <2>3. CASE UNCHANGED docs
    BY <2>1, <2>3, TurnSame, IdlePaged
  <2>4. CASE SetFields(calls[a].ids, calls[a].form)
    BY <2>1, <2>2, <2>4, TurnSet, IdlePaged
  <2> QED BY <2>1, <2>3, <2>4
<1>4. CASE PullFromProducts(a) \/ ResetProducts(a) \/ CallFails(a)
  <2>1. calls'[a] = Idle /\ UNCHANGED <<docs, born, reader>>
    BY <1>4, Parts DEF PullFromProducts, ResetProducts, CallFails
  <2> QED BY <2>1, TurnSame, IdlePaged
<1> QED BY <1>1, <1>2, <1>3, <1>4, PageDelete, PageHeir, PageMove DEF Continue

\* A client that asks for a page gets what stands there: document number n + 1
\* of the list, if n others are younger.
LEMMA PageRead ==
    ASSUME BackInv, Reading(docs, reader), NEW k, GetAll(k)
    PROVE  Reading(docs', reader')
<1> DEFINE first == reader.state = "closed"
           n == IF first THEN 0 ELSE reader.page
           ties == \E i, j \in Of(k) : i # j /\ docs[i].at = docs[j].at
           len == Cardinality(Of(k))
<1>0. reader \in Reader
  BY DEF BackInv, TypeOK
<1>1. PICK o \in Orders(Of(k)) :
          reader' = [reader EXCEPT
              !.state = IF PageSize * (n + 1) >= Len(o) THEN "done" ELSE "open",
              !.page = n + 1,
              !.owed = IF first THEN Listed(k) ELSE @,
              !.seen = @ \union (PageOf(o, n) \intersect Listed(k)),
              !.slip = @ \/ ties,
              !.kind = k]
  BY DEF GetAll
<1>2. /\ reader.kind = k \/ first
      /\ reader.state = "open" \/ first
      /\ UNCHANGED docs
  BY <1>0 DEF GetAll, Reader
<1>3. /\ reader'.state = IF PageSize * (n + 1) >= Len(o) THEN "done" ELSE "open"
      /\ reader'.page = n + 1
      /\ reader'.owed = IF first THEN Listed(k) ELSE reader.owed
      /\ reader'.seen = reader.seen \union (PageOf(o, n) \intersect Listed(k))
      /\ reader'.kind = k
  BY <1>0, <1>1 DEF Reader
<1>4. reader'.slip = (reader.slip \/ ties)
  BY <1>0, <1>1 DEF Reader
<1>5. n \in Nat /\ PageSize \in Nat
  BY <1>0, CollectionsAssumption DEF Reader
<1>6. /\ len \in Nat
      /\ DOMAIN o = 1..len
      /\ Len(o) = len
  <2>1. IsFiniteSet(Ids)
    BY FS_Interval, CollectionsAssumption DEF Ids
  <2>2. IsFiniteSet(Of(k))
    BY <2>1, FS_Subset DEF Of
  <2>3. len \in Nat /\ o \in [1..len -> Of(k)]
    BY <2>2, FS_CardinalityType DEF Orders
  <2>4. Len(o) = len
    BY <2>3
  <2> QED BY <2>3, <2>4
<1> HIDE DEF n, len
<1> SUFFICES ASSUME ~reader'.slip, NEW i \in reader'.owed, i \notin reader'.seen
             PROVE  /\ reader'.state = "open" => Awaited(docs', reader', i)
                    /\ reader'.state # "done"
  BY DEF Reading
<1>7. ~reader.slip /\ ~ties
  BY <1>4
<1> DEFINE younger == Cardinality(Younger(docs, k, i))
<1>8. InList(docs, k, i) /\ younger \in Nat /\ PageSize * n <= younger
  <2>1. \A j \in Listed(k) : InList(docs, k, j)
    BY DEF Listed, InList, Of, Exists, ThereIs
  <2>2. CASE first
    <3>1. InList(docs, k, i)
      BY <1>3, <2>1, <2>2
    <3>2. younger \in Nat
      BY <3>1, YoungerGrows DEF InList, ThereIs
    <3>3. PageSize * n = 0
      BY <1>5, <2>2 DEF n
    <3> QED BY <3>1, <3>2, <3>3
  <2>3. CASE ~first
    <3>1. i \in reader.owed /\ i \notin reader.seen /\ n = reader.page
      BY <1>3, <2>3 DEF n
    <3>2. InList(docs, k, i) /\ PageSize * n <= younger
      BY <1>2, <1>7, <2>3, <3>1 DEF Reading, Awaited
    <3>3. younger \in Nat
      BY <3>2, YoungerGrows DEF InList, ThereIs
    <3> QED BY <3>2, <3>3
  <2> QED BY <2>2, <2>3
<1>9. i \in Of(k) /\ i \in Listed(k)
  BY <1>8 DEF InList, ThereIs, Listed, Of, Exists
<1>10. PICK p \in 1..len : o[p] = i /\ p = younger + 1
  <2>1. \A x, y \in Of(k) : x # y => docs[x].at # docs[y].at
    BY <1>7
  <2> QED BY <1>9, <2>1, Standing DEF len
<1> HIDE DEF younger
<1>11. ~(p > PageSize * n /\ p <= PageSize * (n + 1))
  <2> SUFFICES ASSUME p > PageSize * n, p <= PageSize * (n + 1)
               PROVE  FALSE
    OBVIOUS
  <2>1. i \in PageOf(o, n)
    BY <1>6, <1>10 DEF PageOf
  <2> QED BY <1>3, <1>9, <2>1
<1>12. PageSize * n \in Nat /\ PageSize * (n + 1) \in Nat
  BY <1>5
<1>13. PageSize * (n + 1) <= younger /\ PageSize * (n + 1) < len
  BY <1>6, <1>8, <1>10, <1>11, <1>12
<1>14. ~(PageSize * (n + 1) >= Len(o))
  BY <1>6, <1>12, <1>13
<1>15. Awaited(docs', reader', i)
  BY <1>2, <1>3, <1>8, <1>13 DEF Awaited, younger
<1> QED BY <1>3, <1>14, <1>15

\* Every step.
LEMMA PageNext == BackInv /\ PageInv /\ [Next]_vars => PageInv'
<1> SUFFICES ASSUME BackInv, PageInv, [Next]_vars
             PROVE  AllPaged(born', docs', reader', calls')
  BY DEF PageInv
<1>1. /\ OneDefault(docs) /\ Reading(docs, reader)
      /\ \A a \in Admins : PageFits(born, docs, calls[a])
  BY DEF PageInv, AllPaged
<1>2. ASSUME UNCHANGED <<docs, born, calls>>, Reading(docs', reader')
      PROVE  AllPaged(born', docs', reader', calls')
  BY <1>1, <1>2 DEF AllPaged
<1>3. ASSUME NEW a \in Admins, Turn, PageFits(born', docs', calls'[a]),
             \A b \in Admins \ {a} : calls'[b] = calls[b]
      PROVE  AllPaged(born', docs', reader', calls')
  <2>1. Gentle(docs, docs') /\ born' \in Nat /\ born <= born'
    BY <1>3 DEF Turn
  <2>2. ASSUME NEW b \in Admins \ {a}
        PROVE  PageFits(born', docs', calls'[b])
    BY <1>1, <1>3, <2>1, Parts, GentleKeeps
  <2>3. OneDefault(docs')
    BY <1>1, <2>1, Parts, GentleKeeps
  <2> QED BY <1>3, <2>2, <2>3 DEF AllPaged, Turn
<1>4. ASSUME NEW a \in Admins, NEW k, Handled(a, k), ~GetAll(k)
      PROVE  AllPaged(born', docs', reader', calls')
  <2>1. Turn /\ PageFits(born', docs', calls'[a])
    BY <1>1, <1>4, PageAdding, PageImporting, PageUpdating, PageDeleting
       DEF Handled
  <2> QED BY <1>3, <1>4, <2>1, OwnCall
<1>5. ASSUME NEW k, GetAll(k)
      PROVE  AllPaged(born', docs', reader', calls')
  BY <1>1, <1>2, <1>5, PageRead DEF GetAll
<1>6. ASSUME NEW a \in Admins, Continue(a)
      PROVE  AllPaged(born', docs', reader', calls')
  <2>1. Turn /\ PageFits(born', docs', calls'[a])
    BY <1>1, <1>6, PageContinue
  <2> QED BY <1>3, <1>6, <2>1, OwnCall
<1>7. ASSUME UNCHANGED <<docs, born, reader, calls>>
      PROVE  AllPaged(born', docs', reader', calls')
  BY <1>1, <1>2, <1>7
<1> QED BY <1>4, <1>5, <1>6, <1>7, CatalogHandled, ContentHandled
        DEF Next, SaveProduct, vars

\* The start: defaults, no call, no client.
LEMMA PageInit == Init => PageInv
<1> SUFFICES ASSUME Init PROVE AllPaged(born, docs, reader, calls)
  BY DEF PageInv
<1>1. /\ docs = Seed(live) /\ reader.state = "closed"
      /\ \A a \in Admins : calls[a] = Idle
  BY DEF Init, Closed
<1>2. ASSUME NEW i \in Ids, ThereIs(docs, "category", i) PROVE i = 1
  <2>1. Seed(live)[i].kind = "category" /\ Seed(live)[i] # NoDoc
    BY <1>1, <1>2 DEF ThereIs
  <2>2. CASE i = 2 /\ "subCategory" \in live
    BY <2>1, <2>2 DEF Seed
  <2>3. CASE i # 1 /\ ~(i = 2 /\ "subCategory" \in live)
    BY <2>1, <2>3 DEF Seed
  <2> QED BY <2>2, <2>3
<1>3. OneDefault(docs)
  BY <1>2 DEF OneDefault
<1>4. Reading(docs, reader)
  BY <1>1 DEF Reading
<1>5. \A a \in Admins : PageFits(born, docs, calls[a])
  BY <1>1, IdlePaged
<1> QED BY <1>3, <1>4, <1>5 DEF AllPaged

\* A client that asks getAllCategories and its like for one page after the
\* other sees every document that was there from the first page to the last,
\* however many administrators add, rename and hand over meanwhile: only a
\* removal or an import with equal creation times can cost it one.
THEOREM PagingMissesNothingAlways == Spec => []PagingMissesNothing
<1>1. PageInv => PagingMissesNothing
  BY DEF PageInv, AllPaged, Reading, PagingMissesNothing
<1> QED BY <1>1, PageInit, PageNext, BackInvAlways, PTL DEF Spec
===============================================================================
