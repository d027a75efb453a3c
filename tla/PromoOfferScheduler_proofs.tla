---------------------- MODULE PromoOfferScheduler_proofs ----------------------
(***************************************************************************)
(* Proofs about PromoOfferScheduler, for every set of offers, job ids and  *)
(* requests and every horizon: its types, the refinement and the invariant *)
(* behind it for every choice of the environment constants; then, for a    *)
(* prompt server, that the recovery arms what is persisted and, with clean *)
(* stops, that end jobs match offers and no offer is ended early.          *)
(***************************************************************************)
EXTENDS PromoOfferScheduler, TLAPS

(***************************************************************************)
(* The records the actions build are of their types                        *)
(***************************************************************************)
\* Windows hold two dates; so does the window of no offer.
LEMMA WindowType == /\ NoWindow \in Window
                    /\ \A w \in Window : w.start \in Times /\ w.end \in Times
BY ConstantsAssumption DEF NoWindow, Window, Times

\* Idle and answered requests are requests.
LEMMA RequestTypes ==
    /\ IdleRequest \in Request
    /\ Answered \in Request
    /\ Answered.pc \in {"idle", "answered"}
    /\ Answered.op = "none"
BY WindowType DEF IdleRequest, Answered, Request, RequestPcs, Kinds

\* reAddScheduler, before it starts and when it is over.
LEMMA BootTypes == BootDone \in Boot /\ BootDone.pc = "off"
BY WindowType DEF BootDone, Boot, BootPcs

\* The job document saved for a job.
LEMMA DocOfType == \A j \in Job : DocOf(j) \in JobDoc
BY DEF Job, JobDoc, DocOf

\* addOfferScheduleOnStart/End get a kind, an offer and a date of the offer.
LEMMA JobsToScheduleType ==
    ASSUME NEW o \in Offers, NEW w \in Window, NEW j \in JobsToSchedule(o, w)
    PROVE  /\ j.kind \in Kinds /\ j.offer = o /\ j.at \in Times
           /\ j.kind = "End" => j.at = w.end
BY WindowType DEF JobsToSchedule, Kinds

(***************************************************************************)
(* Type correctness                                                        *)
(***************************************************************************)
\* The first start, on an empty database, is well-typed.
LEMMA TypeOKInit == Init => TypeOK
<1> SUFFICES ASSUME Init PROVE TypeOK
  OBVIOUS
<1>1. req \in [Requests -> Request] /\ boot \in Boot
  BY RequestTypes, BootTypes DEF Init
<1>2. now \in Times /\ crashes \in 0..MaxCrashes
  BY ConstantsAssumption DEF Init, Times
<1>3. /\ offer \in [Offers -> Window \union {NoOffer}]
      /\ registry \in [Kinds -> Job \union {NoJob}]
      /\ fate \in [Offers -> {"unborn", "live", "deleted", "expired"}]
      /\ requested \in [Offers -> SUBSET Times]
  BY DEF Init
<1> QED BY <1>1, <1>2, <1>3 DEF Init, TypeOK

\* Every step of a request, a timer, a restart or a stop keeps the types.
LEMMA TypeOKNext == TypeOK /\ SubmittedEnds /\ [Next]_vars => TypeOK'
<1> SUFFICES ASSUME TypeOK, SubmittedEnds, [Next]_vars PROVE TypeOK'
  OBVIOUS
<1> USE DEF dbVars, scheduleVars, jobVars, envVars, obsVars
<1>1. ASSUME NEW r \in Requests, AddPromoOfferCheck(r) PROVE TypeOK'
  <2>1. PICK w \in Window : req' = [req EXCEPT ![r] = [IdleRequest EXCEPT
                                    !.pc = "save", !.op = "add", !.win = w]]
    BY <1>1 DEF AddPromoOfferCheck
  <2>2. [IdleRequest EXCEPT !.pc = "save", !.op = "add", !.win = w] \in Request
    BY RequestTypes DEF Request, RequestPcs, AllOps
  <2> QED BY <1>1, <2>1, <2>2 DEF AddPromoOfferCheck, TypeOK
<1>2. ASSUME NEW r \in Requests, AddPromoOfferSave(r) PROVE TypeOK'
  <2>1. PICK o \in Offers :
            /\ InsertOffers([x \in {o} |-> req[r].win])
            /\ req' = [req EXCEPT ![r] = [@ EXCEPT !.pc = "schedule",
                                                    !.offer = o]]
    BY <1>2 DEF AddPromoOfferSave
  <2>2. req[r].win \in Window
    BY DEF TypeOK, Request
  <2>3. /\ offer' \in [Offers -> Window \union {NoOffer}]
        /\ fate' \in [Offers -> {"unborn", "live", "deleted", "expired"}]
        /\ requested' \in [Offers -> SUBSET Times]
        /\ abandoned' \subseteq Offers
    BY <2>1, <2>2, WindowType DEF InsertOffers, TypeOK
  <2>4. [req[r] EXCEPT !.pc = "schedule", !.offer = o] \in Request
    BY DEF TypeOK, Request, RequestPcs
  <2>5. req' \in [Requests -> Request]
    BY <2>1, <2>4 DEF TypeOK
  <2> QED BY <2>5, <1>2, <2>3, <2>4 DEF AddPromoOfferSave, TypeOK
<1>3. ASSUME NEW r \in Requests, InsertManyPromoOfferStart(r) PROVE TypeOK'
  BY <1>3, RequestTypes DEF InsertManyPromoOfferStart, TypeOK, RemoveOffers,
                            Request, RequestPcs, AllOps
<1>4. ASSUME NEW r \in Requests, InsertManyPromoOffer(r) PROVE TypeOK'
  BY <1>4, WindowType, RequestTypes
     DEF InsertManyPromoOffer, TypeOK, InsertOffers, Respond
<1>5. ASSUME NEW r \in Requests, CancelJob(r) PROVE TypeOK'
  BY <1>5 DEF CancelJob, TypeOK, Goto, Request, RequestPcs
<1>6. ASSUME NEW r \in Requests, CancelDropDoc(r) PROVE TypeOK'
  BY <1>6, RequestTypes DEF CancelDropDoc, DeleteOneJobDoc, DropJobDoc, TypeOK,
                            Goto, Respond, Request, RequestPcs, Kinds
<1>7. ASSUME NEW r \in Requests, UpdatePromoOfferFind(r) PROVE TypeOK'
  BY <1>7, WindowType DEF UpdatePromoOfferFind, TypeOK, Request, RequestPcs,
                          AllOps, Kinds
<1>8. ASSUME NEW r \in Requests, SchedulePromoOffer(r) PROVE TypeOK'
  <2> DEFINE jobs == JobsToSchedule(req[r].offer, req[r].win)
  <2>1. req[r].offer \in Offers /\ req[r].win \in Window
    BY <1>8 DEF SchedulePromoOffer, SubmittedEnds, RequestEndSubmitted,
                UsesOffer, TypeOK, Request
  <2>2. PICK id \in [jobs -> JobIds \ IdsInUse] :
            saving' = saving \union
                {[id |-> id[j], kind |-> j.kind, offer |-> j.offer,
                  at |-> j.at, by |-> "request"] : j \in jobs}
    BY <1>8 DEF SchedulePromoOffer
  <2>3. \A j \in jobs : [id |-> id[j], kind |-> j.kind, offer |-> j.offer,
                          at |-> j.at, by |-> "request"] \in Job
    BY <2>1, <2>2, JobsToScheduleType DEF Job
  <2>4. saving' \subseteq Job
    BY <2>2, <2>3 DEF TypeOK
  <2>5. req' \in [Requests -> Request]
    BY <1>8, RequestTypes
       DEF SchedulePromoOffer, TypeOK, Goto, Respond, Request, RequestPcs
  <2>6. abandoned' \subseteq Offers
    BY <1>8 DEF SchedulePromoOffer, TypeOK
  <2> QED BY <1>8, <2>4, <2>5, <2>6 DEF SchedulePromoOffer, TypeOK
<1>9. ASSUME NEW r \in Requests, UpdatePromoOfferSet(r) PROVE TypeOK'
  BY <1>9, RequestTypes DEF UpdatePromoOfferSet, SetWindow, TypeOK, Respond,
                            Request
<1>10. ASSUME NEW r \in Requests, UpdateMultiplePromoOffer(r) PROVE TypeOK'
  BY <1>10, WindowType, RequestTypes
     DEF UpdateMultiplePromoOffer, SetWindow, TypeOK, Respond
<1>11. ASSUME NEW r \in Requests, DeletePromoOffer(r) PROVE TypeOK'
  BY <1>11, RequestTypes DEF DeletePromoOffer, RemoveOffers, TypeOK, Respond
<1>12. ASSUME NEW r \in Requests, DeleteMultiplePromoOffer(r) PROVE TypeOK'
  BY <1>12, RequestTypes DEF DeleteMultiplePromoOffer, RemoveOffers, TypeOK,
                             Request, RequestPcs, AllOps
<1>13. ASSUME NEW r \in Requests, RequestFails(r) PROVE TypeOK'
  BY <1>13, RequestTypes DEF RequestFails, TypeOK, Respond
<1>14. ASSUME NEW j \in saving, SaveJob(j) PROVE TypeOK'
  BY <1>14, DocOfType DEF SaveJob, TypeOK
<1>15. ASSUME NEW j \in saved, AddOfferSchedule(j) PROVE TypeOK'
  BY <1>15 DEF AddOfferSchedule, ScheduleJob, TypeOK, Job
<1>16. ASSUME NEW t \in timers, FireJob(t) PROVE TypeOK'
  <2>1. [job |-> t, next |-> "dropJob"] \in Callback
    BY DEF TypeOK, Callback
  <2>2. registry' \in [Kinds -> Job \union {NoJob}]
    BY <1>16 DEF FireJob, TypeOK
  <2> QED BY <1>16, <2>1, <2>2 DEF FireJob, TypeOK
<1>17. ASSUME NEW c \in running, CallbackDropJob(c) PROVE TypeOK'
  BY <1>17 DEF CallbackDropJob, DropJobDoc, TypeOK, Callback
<1>18. ASSUME NEW c \in running, CallbackDropOffer(c) PROVE TypeOK'
  BY <1>18 DEF CallbackDropOffer, RemoveOffers, TypeOK
<1>19. ASSUME BootFind PROVE TypeOK'
  BY <1>19, BootTypes DEF BootFind, TypeOK, Boot, BootPcs
<1>20. ASSUME BootNext PROVE TypeOK'
  <2>1. PICK d \in boot.left :
            boot' = IF Live(d.offer)
                    THEN [boot EXCEPT !.pc = "decide", !.left = @ \ {d},
                                      !.doc = d, !.win = offer[d.offer]]
                    ELSE [boot EXCEPT !.left = @ \ {d}]
    BY <1>20 DEF BootNext
  <2>2. d \in JobDoc /\ d.offer \in Offers
    BY DEF TypeOK, Boot, JobDoc
  <2>3. Live(d.offer) => offer[d.offer] \in Window
    BY <2>2 DEF TypeOK, Live
  <2>4. boot' \in Boot
    BY <2>1, <2>2, <2>3 DEF TypeOK, Boot, BootPcs
  <2> QED BY <1>20, <2>4 DEF BootNext, TypeOK
<1>21. ASSUME BootEnd PROVE TypeOK'
  BY <1>21, BootTypes DEF BootEnd, TypeOK
<1>22. ASSUME BootArm PROVE TypeOK'
  <2>1. boot.doc \in JobDoc
    BY <1>22 DEF BootArm, SubmittedEnds, BootEndSubmitted
  <2>2. BootAt \in Times
    BY WindowType DEF BootAt, TypeOK, Boot
  <2>3. boot' \in Boot
    BY <1>22, BootTypes DEF BootArm, BackToNext, TypeOK, Boot, BootPcs
  <2> DEFINE j == [id |-> boot.doc.id, kind |-> boot.doc.kind,
                   offer |-> boot.doc.offer, at |-> BootAt, by |-> "boot"]
  <2>4. j \in Job
    BY <2>1, <2>2 DEF JobDoc, Job
  <2>5. /\ registry' = [registry EXCEPT ![j.kind] = j]
        /\ timers' \subseteq timers \union {j}
    BY <1>22 DEF BootArm, ScheduleJob
  <2>6. /\ registry' \in [Kinds -> Job \union {NoJob}]
        /\ timers' \subseteq Job
    <3> HIDE DEF j
    <3> QED BY <2>4, <2>5 DEF TypeOK
  <2> QED BY <1>22, <2>3, <2>6 DEF BootArm, TypeOK
<1>23. ASSUME BootOverdue PROVE TypeOK'
  BY <1>23 DEF BootOverdue, TypeOK, Boot, BootPcs
<1>24. ASSUME BootDropOffer PROVE TypeOK'
  BY <1>24 DEF BootDropOffer, RemoveOffers, TypeOK, Boot, BootPcs
<1>25. ASSUME BootDropJob PROVE TypeOK'
  BY <1>25, BootTypes DEF BootDropJob, DropJobDoc, BackToNext, TypeOK, Boot,
                          BootPcs
<1>26. ASSUME StartProcess PROVE TypeOK'
  BY <1>26, BootTypes DEF StartProcess, TypeOK, Boot, BootPcs
<1>27. ASSUME Crash PROVE TypeOK'
  <2>1. req' \in [Requests -> Request]
    BY <1>27, RequestTypes DEF Crash, TypeOK
  <2>2. registry' \in [Kinds -> Job \union {NoJob}]
    BY <1>27 DEF Crash
  <2>3. crashes' \in 0..MaxCrashes
    BY <1>27, ConstantsAssumption DEF Crash, TypeOK
  <2> QED BY <1>27, <2>1, <2>2, <2>3, BootTypes DEF Crash, TypeOK
<1>28. ASSUME Tick PROVE TypeOK'
  BY <1>28, ConstantsAssumption DEF Tick, TypeOK, Times
<1>29. CASE UNCHANGED vars
  BY <1>29 DEF vars, TypeOK
<1> QED
  BY <1>1, <1>2, <1>3, <1>4, <1>5, <1>6, <1>7, <1>8, <1>9, <1>10, <1>11,
     <1>12, <1>13, <1>14, <1>15, <1>16, <1>17, <1>18, <1>19, <1>20, <1>21,
     <1>22, <1>23, <1>24, <1>25, <1>26, <1>27, <1>28, <1>29
  DEF Next, RequestStart, RequestStep, ScheduleStep, JobStep, BootStep

(***************************************************************************)
(* Whatever may end an offer carries an end submitted for it               *)
(***************************************************************************)
\* Submitted ends are never forgotten, and the clock does not go back.
LEMMA Monotone ==
    ASSUME TypeOK, SubmittedEnds, [Next]_vars
    PROVE  /\ \A o \in Offers : requested[o] \subseteq requested'[o]
           /\ now <= now'
<1> USE DEF dbVars, scheduleVars, jobVars, envVars, obsVars
<1>1. now \in Nat /\ now' \in Nat /\ Times \subseteq Nat
  BY TypeOKNext, ConstantsAssumption DEF TypeOK, Times
<1>2. ASSUME NEW r \in Requests, AddPromoOfferSave(r)
      PROVE  now' = now /\ \A o \in Offers : requested[o] \subseteq requested'[o]
  BY <1>2 DEF AddPromoOfferSave, InsertOffers, TypeOK
<1>3. ASSUME NEW r \in Requests, InsertManyPromoOffer(r)
      PROVE  now' = now /\ \A o \in Offers : requested[o] \subseteq requested'[o]
  BY <1>3 DEF InsertManyPromoOffer, InsertOffers, TypeOK
<1>4. ASSUME NEW r \in Requests, UpdatePromoOfferFind(r)
      PROVE  now' = now /\ \A o \in Offers : requested[o] \subseteq requested'[o]
  BY <1>4 DEF UpdatePromoOfferFind, TypeOK
<1>5. ASSUME NEW r \in Requests, UpdateMultiplePromoOffer(r)
      PROVE  now' = now /\ \A o \in Offers : requested[o] \subseteq requested'[o]
  BY <1>5 DEF UpdateMultiplePromoOffer, TypeOK
<1>6. ASSUME NEW r \in Requests,
             \/ AddPromoOfferCheck(r) \/ InsertManyPromoOfferStart(r)
             \/ CancelJob(r) \/ CancelDropDoc(r) \/ SchedulePromoOffer(r)
             \/ UpdatePromoOfferSet(r) \/ DeletePromoOffer(r)
             \/ DeleteMultiplePromoOffer(r) \/ RequestFails(r)
      PROVE  now' = now /\ requested' = requested
  BY <1>6 DEF AddPromoOfferCheck, InsertManyPromoOfferStart, RemoveOffers,
              CancelJob, CancelDropDoc, SchedulePromoOffer, UpdatePromoOfferSet,
              DeletePromoOffer, DeleteMultiplePromoOffer, RequestFails
<1>7. ASSUME ScheduleStep \/ JobStep
      PROVE  now' = now /\ requested' = requested
  BY <1>7 DEF ScheduleStep, JobStep, SaveJob, AddOfferSchedule, FireJob,
              CallbackDropJob, CallbackDropOffer, RemoveOffers
<1>8. ASSUME BootStep \/ StartProcess \/ Crash
      PROVE  now' = now /\ requested' = requested
  BY <1>8 DEF BootStep, BootFind, BootNext, BootEnd, BootArm, BootOverdue,
              BootDropOffer, BootDropJob, RemoveOffers, StartProcess, Crash
<1>9. ASSUME Tick PROVE now' = now + 1 /\ requested' = requested
  BY <1>9 DEF Tick
<1>10. ASSUME UNCHANGED vars PROVE now' = now /\ requested' = requested
  BY <1>10 DEF vars
<1>11. now <= now'
  BY <1>1, <1>2, <1>3, <1>4, <1>5, <1>6, <1>7, <1>8, <1>9, <1>10
     DEF Next, RequestStart, RequestStep
<1>12. \A o \in Offers : requested[o] \subseteq requested'[o]
  BY <1>2, <1>3, <1>4, <1>5, <1>6, <1>7, <1>8, <1>9, <1>10
     DEF Next, RequestStart, RequestStep
<1> QED BY <1>11, <1>12

\* Nothing is stored, armed or in flight at the first start.
LEMMA SubmittedEndsInit == Init => SubmittedEnds
BY ConstantsAssumption, BootTypes, RequestTypes
   DEF Init, SubmittedEnds, FateMatchesStore, StoredEndSubmitted,
       RequestEndSubmitted, UsesOffer, JobEndSubmitted, CallbackDue,
       BootEndSubmitted, Live, IdleRequest, BootDone

\* Every step keeps it: what a step arms, saves or looks up comes from a request
\* or a stored window, whose ends are submitted, and ends stay submitted.
LEMMA SubmittedEndsNext ==
    TypeOK /\ SubmittedEnds /\ [Next]_vars => SubmittedEnds'
<1> SUFFICES ASSUME TypeOK, SubmittedEnds, [Next]_vars PROVE SubmittedEnds'
  OBVIOUS
<1> USE DEF dbVars, scheduleVars, jobVars, envVars, obsVars
<1> USE DEF SubmittedEnds, FateMatchesStore, StoredEndSubmitted,
            RequestEndSubmitted, UsesOffer, JobEndSubmitted, CallbackDue,
            EndHasCome, BootEndSubmitted, Live
<1>0. /\ \A o \in Offers : requested[o] \subseteq requested'[o]
      /\ now \in Nat /\ now' \in Nat /\ now <= now'
      /\ TypeOK'
      /\ Answered.pc \in {"idle", "answered"}
  BY Monotone, TypeOKNext, RequestTypes, ConstantsAssumption DEF TypeOK, Times
<1>1. ASSUME NEW r \in Requests, AddPromoOfferCheck(r) PROVE SubmittedEnds'
  BY <1>1 DEF AddPromoOfferCheck
<1>2. ASSUME NEW r \in Requests, AddPromoOfferSave(r) PROVE SubmittedEnds'
  BY <1>2, ConstantsAssumption
     DEF AddPromoOfferSave, InsertOffers, TypeOK, Request, Job, JobDoc, Callback
<1>3. ASSUME NEW r \in Requests, InsertManyPromoOfferStart(r) PROVE SubmittedEnds'
  BY <1>3 DEF InsertManyPromoOfferStart, RemoveOffers
<1>4. ASSUME NEW r \in Requests, InsertManyPromoOffer(r) PROVE SubmittedEnds'
  BY <1>0, <1>4, ConstantsAssumption
     DEF InsertManyPromoOffer, InsertOffers, Respond, TypeOK, Job, JobDoc,
         Callback
<1>5. ASSUME NEW r \in Requests, CancelJob(r) PROVE SubmittedEnds'
  BY <1>5 DEF CancelJob, Goto
<1>6. ASSUME NEW r \in Requests, CancelDropDoc(r) PROVE SubmittedEnds'
  <2>1. req' \in [Requests -> Request]
    BY <1>0 DEF TypeOK
  <2>2. \A x \in Requests : UsesOffer(x)' =>
            UsesOffer(x) /\ req'[x].offer = req[x].offer
                         /\ req'[x].win = req[x].win
    BY <1>0, <1>6 DEF CancelDropDoc, Goto, Respond, TypeOK, Request
  <2> QED BY <1>0, <1>6, <2>2 DEF CancelDropDoc
<1>7. ASSUME NEW r \in Requests, UpdatePromoOfferFind(r) PROVE SubmittedEnds'
  BY <1>7 DEF UpdatePromoOfferFind, TypeOK
<1>8. ASSUME NEW r \in Requests, SchedulePromoOffer(r) PROVE SubmittedEnds'
  <2> DEFINE jobs == JobsToSchedule(req[r].offer, req[r].win)
  <2>1. /\ req[r].offer \in Offers /\ req[r].win \in Window
        /\ req[r].win.end \in requested[req[r].offer]
    BY <1>8 DEF SchedulePromoOffer, TypeOK, Request
  <2>2. \A j \in saving' \ saving : j.kind = "End" =>
            j.at = req[r].win.end /\ j.offer = req[r].offer
    BY <1>8, <2>1, JobsToScheduleType DEF SchedulePromoOffer
  <2>3. JobEndSubmitted'
    BY <1>8, <2>1, <2>2 DEF SchedulePromoOffer
  <2>4. \A x \in Requests : UsesOffer(x)' =>
            UsesOffer(x) /\ req'[x].offer = req[x].offer
                         /\ req'[x].win = req[x].win
    BY <1>0, <1>8 DEF SchedulePromoOffer, Goto, Respond, TypeOK, Request
  <2> QED BY <1>8, <2>3, <2>4 DEF SchedulePromoOffer
<1>9. ASSUME NEW r \in Requests, UpdatePromoOfferSet(r) PROVE SubmittedEnds'
  BY <1>0, <1>9, ConstantsAssumption
     DEF UpdatePromoOfferSet, SetWindow, Respond, TypeOK, Request
<1>10. ASSUME NEW r \in Requests, UpdateMultiplePromoOffer(r) PROVE SubmittedEnds'
  BY <1>0, <1>10, ConstantsAssumption
     DEF UpdateMultiplePromoOffer, SetWindow, Respond, TypeOK, Job, JobDoc,
         Callback
<1>11. ASSUME NEW r \in Requests, DeletePromoOffer(r) PROVE SubmittedEnds'
  BY <1>0, <1>11 DEF DeletePromoOffer, RemoveOffers, Respond
<1>12. ASSUME NEW r \in Requests, DeleteMultiplePromoOffer(r) PROVE SubmittedEnds'
  BY <1>12 DEF DeleteMultiplePromoOffer, RemoveOffers
<1>13. ASSUME NEW r \in Requests, RequestFails(r) PROVE SubmittedEnds'
  BY <1>0, <1>13 DEF RequestFails, Respond
<1>14. ASSUME NEW j \in saving, SaveJob(j) PROVE SubmittedEnds'
  BY <1>14 DEF SaveJob
<1>15. ASSUME NEW j \in saved, AddOfferSchedule(j) PROVE SubmittedEnds'
  BY <1>15 DEF AddOfferSchedule, ScheduleJob
<1>16. ASSUME NEW t \in timers, FireJob(t) PROVE SubmittedEnds'
  <2>1. t \in Job /\ t.offer \in Offers /\ t.at \in Nat
    BY ConstantsAssumption DEF TypeOK, Job, Times
  <2>2. t.kind = "End" => EndHasCome(t.offer)
    BY <1>16, <2>1 DEF FireJob
  <2>3. CallbackDue'
    BY <1>16, <2>2 DEF FireJob
  <2> QED BY <1>16, <2>3 DEF FireJob
<1>17. ASSUME NEW c \in running, CallbackDropJob(c) PROVE SubmittedEnds'
  BY <1>17 DEF CallbackDropJob, DropJobDoc
<1>18. ASSUME NEW c \in running, CallbackDropOffer(c) PROVE SubmittedEnds'
  BY <1>18 DEF CallbackDropOffer, RemoveOffers
<1>19. ASSUME BootFind PROVE SubmittedEnds'
  BY <1>19 DEF BootFind, BootDone
<1>20. ASSUME BootNext PROVE SubmittedEnds'
  BY <1>20 DEF BootNext, TypeOK, JobDoc, Boot
<1>21. ASSUME BootEnd PROVE SubmittedEnds'
  BY <1>21 DEF BootEnd, BootDone
<1>22. ASSUME BootArm PROVE SubmittedEnds'
  BY <1>22 DEF BootArm, ScheduleJob, BackToNext, BootAt
<1>23. ASSUME BootOverdue PROVE SubmittedEnds'
  BY <1>23 DEF BootOverdue, BootAt
<1>24. ASSUME BootDropOffer PROVE SubmittedEnds'
  BY <1>24 DEF BootDropOffer, RemoveOffers
<1>25. ASSUME BootDropJob PROVE SubmittedEnds'
  BY <1>25 DEF BootDropJob, DropJobDoc, BackToNext
<1>26. ASSUME StartProcess PROVE SubmittedEnds'
  BY <1>26 DEF StartProcess, BootDone
<1>27. ASSUME Crash PROVE SubmittedEnds'
  BY <1>0, <1>27 DEF Crash, BootDone
<1>28. ASSUME Tick PROVE SubmittedEnds'
  <2>1. \A o \in Offers : EndHasCome(o) => EndHasCome(o)'
    BY <1>0, <1>28, ConstantsAssumption DEF Tick, TypeOK, Times
  <2>2. CallbackDue'
    BY <1>28, <2>1 DEF Tick, TypeOK, Callback, Job
  <2>3. BootEndSubmitted'
    BY <1>0, <1>28, WindowType, ConstantsAssumption
       DEF Tick, TypeOK, Boot, Times
  <2> QED BY <1>28, <2>2, <2>3 DEF Tick
<1>29. CASE UNCHANGED vars
  BY <1>29 DEF vars
<1> QED
    BY <1>1, <1>2, <1>3, <1>4, <1>5, <1>6, <1>7, <1>8, <1>9, <1>10, <1>11,
     <1>12, <1>13, <1>14, <1>15, <1>16, <1>17, <1>18, <1>19, <1>20, <1>21,
     <1>22, <1>23, <1>24, <1>25, <1>26, <1>27, <1>28, <1>29
  DEF Next, RequestStart, RequestStep, ScheduleStep, JobStep, BootStep

\* Every reachable state is of the declared types, and whatever may yet end an
\* offer there carries an end submitted for it.
THEOREM Invariance == Spec => [](TypeOK /\ SubmittedEnds)
<1>1. Init => TypeOK /\ SubmittedEnds
  BY TypeOKInit, SubmittedEndsInit
<1>2. TypeOK /\ SubmittedEnds /\ [Next]_vars => (TypeOK /\ SubmittedEnds)'
  BY TypeOKNext, SubmittedEndsNext
<1> QED BY <1>1, <1>2, PTL DEF Spec

\* Type correctness of every reachable state: no call, timer or recovery step
\* puts a record of the wrong shape into the database, the registry or memory.
THEOREM TypeCorrect == Spec => []TypeOK
BY Invariance, PTL

\* In every reachable state each stored window, call, background save, timer,
\* callback and recovery step carries an end submitted for its own offer.
THEOREM SubmittedEndsInvariant == Spec => []SubmittedEnds
BY Invariance, PTL

(***************************************************************************)
(* The collection keeps the promises of PromoOfferLifecycle                *)
(***************************************************************************)
\* The empty collection is the abstract initial state.
LEMMA RefinementInit == Init => Lifecycle!Init
BY DEF Init, Lifecycle!Init

\* Both levels mean the same windows and times.
LEMMA SameWindows == Lifecycle!Window = Window /\ Lifecycle!Times = Times
BY DEF Lifecycle!Window, Lifecycle!Times, Window, Times

\* Taking offers away is Delete, whatever the set.
LEMMA RemovalDeletes ==
    ASSUME FateMatchesStore, NEW S \in SUBSET Offers,
           RemoveOffers(S, "deleted"), now' = now
    PROVE  Lifecycle!Next
<1>1. Lifecycle!Delete(S)
  BY DEF RemoveOffers, Lifecycle!Delete, FateMatchesStore
<1> QED BY <1>1 DEF Lifecycle!Next

\* An offer whose end has come may be taken away by the scheduler.
LEMMA RemovalExpires ==
    ASSUME TypeOK, FateMatchesStore, NEW o \in Offers, EndHasCome(o),
           RemoveOffers({o}, "expired"), now' = now
    PROVE  [Lifecycle!Next]_(Lifecycle!vars)
<1>1. CASE Live(o)
  <2>1. Lifecycle!Expire(o)
    BY <1>1 DEF TypeOK, RemoveOffers, Lifecycle!Expire, FateMatchesStore,
                EndHasCome
  <2> QED BY <2>1 DEF Lifecycle!Next
<1>2. CASE ~Live(o)
  <2>1. offer' = offer /\ fate' = fate
    BY <1>2 DEF TypeOK, RemoveOffers, Live
  <2> QED BY <2>1 DEF RemoveOffers, Lifecycle!vars
<1> QED BY <1>1, <1>2

\* Storing new documents is Create.
LEMMA InsertionCreates ==
    ASSUME NEW S \in SUBSET Offers, NEW W \in [S -> Window],
           InsertOffers(W), now' = now
    PROVE  Lifecycle!Next
<1>1. Lifecycle!Create(S)
  BY SameWindows DEF InsertOffers, Lifecycle!Create
<1> QED BY <1>1 DEF Lifecycle!Next

\* Setting the window of those that still exist is Reschedule.
LEMMA SettingReschedules ==
    ASSUME TypeOK, TypeOK', FateMatchesStore, NEW S \in SUBSET Offers,
           NEW w \in Window, SetWindow(S, w), fate' = fate, now' = now,
           \A o \in Offers :
              /\ o \in S /\ Live(o) => /\ w.end \in requested'[o]
                                       /\ requested[o] \subseteq requested'[o]
                                       /\ requested'[o] \subseteq requested[o] \union {w.end}
              /\ ~(o \in S /\ Live(o)) => requested'[o] = requested[o]
    PROVE  Lifecycle!Next
<1> DEFINE T == {o \in S : Live(o)}
<1>1. \A o \in T : fate[o] = "live"
  BY DEF FateMatchesStore
<1>2. offer' = [o \in Offers |-> IF o \in T THEN w ELSE offer[o]]
  BY DEF SetWindow
<1>3. Lifecycle!Reschedule(T)
  BY <1>1, <1>2, SameWindows DEF Lifecycle!Reschedule, TypeOK
<1> QED BY <1>3 DEF Lifecycle!Next

\* Every step of the service, the scheduler, the clock and the process maps to
\* a step of PromoOfferLifecycle or leaves its variables alone.
LEMMA RefinementNext ==
    TypeOK /\ SubmittedEnds /\ [Next]_vars
        => [Lifecycle!Next]_(Lifecycle!vars)
<1> SUFFICES ASSUME TypeOK, SubmittedEnds, [Next]_vars
             PROVE  [Lifecycle!Next]_(Lifecycle!vars)
  OBVIOUS
<1> USE DEF dbVars, scheduleVars, jobVars, envVars, obsVars
<1>0. TypeOK' /\ FateMatchesStore
  BY TypeOKNext DEF SubmittedEnds
<1>1. ASSUME NEW r \in Requests, AddPromoOfferSave(r) PROVE Lifecycle!Next
  <2>1. PICK o \in Offers : InsertOffers([x \in {o} |-> req[r].win])
    BY <1>1 DEF AddPromoOfferSave
  <2>2. [x \in {o} |-> req[r].win] \in [{o} -> Window]
    BY DEF TypeOK, Request
  <2> QED BY <1>1, <2>1, <2>2, InsertionCreates DEF AddPromoOfferSave
<1>2. ASSUME NEW r \in Requests, InsertManyPromoOfferStart(r)
      PROVE  [Lifecycle!Next]_(Lifecycle!vars)
  BY <1>0, <1>2, RemovalDeletes DEF InsertManyPromoOfferStart, Lifecycle!vars
<1>3. ASSUME NEW r \in Requests, InsertManyPromoOffer(r) PROVE Lifecycle!Next
  BY <1>3, InsertionCreates DEF InsertManyPromoOffer
<1>4. ASSUME NEW r \in Requests, UpdatePromoOfferFind(r) PROVE Lifecycle!Next
  <2>1. PICK o \in Offers, w \in Window :
            Live(o) /\ requested' = [requested EXCEPT ![o] = @ \union {w.end}]
    BY <1>4 DEF UpdatePromoOfferFind
  <2>2. Lifecycle!Request(o, w)
    BY <1>0, <1>4, <2>1
       DEF UpdatePromoOfferFind, Lifecycle!Request, FateMatchesStore
  <2> QED BY <2>2, SameWindows DEF Lifecycle!Next
<1>5. ASSUME NEW r \in Requests, UpdatePromoOfferSet(r) PROVE Lifecycle!Next
  <2>1. /\ req[r].offer \in Offers /\ req[r].win \in Window
        /\ req[r].win.end \in requested[req[r].offer]
    BY <1>5 DEF UpdatePromoOfferSet, SubmittedEnds, RequestEndSubmitted,
                UsesOffer, TypeOK, Request
  <2> QED BY <1>0, <1>5, <2>1, SettingReschedules DEF UpdatePromoOfferSet
<1>6. ASSUME NEW r \in Requests, UpdateMultiplePromoOffer(r)
      PROVE  Lifecycle!Next
  <2>1. PICK S \in SUBSET Offers, w \in Window :
            /\ SetWindow(S, w)
            /\ requested' = [o \in Offers |-> IF o \in S /\ Live(o)
                                              THEN requested[o] \union {w.end}
                                              ELSE requested[o]]
    BY <1>6 DEF UpdateMultiplePromoOffer
  <2> QED BY <1>0, <1>6, <2>1, SettingReschedules DEF UpdateMultiplePromoOffer
<1>7. ASSUME NEW r \in Requests,
             DeletePromoOffer(r) \/ DeleteMultiplePromoOffer(r)
      PROVE  Lifecycle!Next
  BY <1>0, <1>7, RemovalDeletes DEF DeletePromoOffer, DeleteMultiplePromoOffer
<1>8. ASSUME NEW c \in running, CallbackDropOffer(c)
      PROVE  [Lifecycle!Next]_(Lifecycle!vars)
  <2>1. c.job.offer \in Offers /\ EndHasCome(c.job.offer)
    BY <1>8 DEF CallbackDropOffer, SubmittedEnds, CallbackDue, TypeOK,
                Callback, Job
  <2> QED BY <1>0, <1>8, <2>1, RemovalExpires DEF CallbackDropOffer
<1>9. ASSUME BootDropOffer PROVE [Lifecycle!Next]_(Lifecycle!vars)
  <2>1. boot.doc.offer \in Offers /\ EndHasCome(boot.doc.offer)
    BY <1>9 DEF BootDropOffer, SubmittedEnds, BootEndSubmitted, EndHasCome,
                JobDoc
  <2> QED BY <1>0, <1>9, <2>1, RemovalExpires DEF BootDropOffer
<1>10. ASSUME Tick PROVE Lifecycle!Next
  BY <1>10 DEF Tick, Lifecycle!Next, Lifecycle!Tick
<1>11. ASSUME NEW r \in Requests,
              \/ AddPromoOfferCheck(r) \/ CancelJob(r) \/ CancelDropDoc(r)
              \/ SchedulePromoOffer(r) \/ RequestFails(r)
       PROVE  UNCHANGED Lifecycle!vars
  BY <1>11 DEF AddPromoOfferCheck, CancelJob, CancelDropDoc,
               SchedulePromoOffer, RequestFails, Lifecycle!vars
<1>12. ASSUME \/ ScheduleStep \/ \E t \in timers : FireJob(t)
              \/ \E c \in running : CallbackDropJob(c)
       PROVE  UNCHANGED Lifecycle!vars
  BY <1>12 DEF ScheduleStep, SaveJob, AddOfferSchedule, FireJob,
               CallbackDropJob, Lifecycle!vars
<1>13. ASSUME \/ BootFind \/ BootNext \/ BootEnd \/ BootArm \/ BootOverdue
              \/ BootDropJob \/ StartProcess \/ Crash
       PROVE  UNCHANGED Lifecycle!vars
  BY <1>13 DEF BootFind, BootNext, BootEnd, BootArm, BootOverdue, BootDropJob,
               StartProcess, Crash, Lifecycle!vars
<1>14. ASSUME UNCHANGED vars PROVE UNCHANGED Lifecycle!vars
  BY <1>14 DEF vars, Lifecycle!vars
<1> QED
  BY <1>1, <1>2, <1>3, <1>4, <1>5, <1>6, <1>7, <1>8, <1>9, <1>10, <1>11,
     <1>12, <1>13, <1>14
  DEF Next, RequestStart, RequestStep, JobStep, BootStep

\* Through every interleaving of calls, callbacks, crashes and recoveries the
\* promo-offer collection behaves as PromoOfferLifecycle allows: the scheduler
\* removes an offer only when an end submitted for it has come, and a removed
\* offer never comes back.
THEOREM Refinement == Spec => ImplementsLifecycle
<1>1. Spec => [](TypeOK /\ SubmittedEnds)
  BY Invariance
<1> QED BY <1>1, RefinementInit, RefinementNext, PTL
        DEF Spec, ImplementsLifecycle, Lifecycle!Spec

(***************************************************************************)
(* One administrator on a prompt server                                    *)
(***************************************************************************)
\* One call at a time, finished within its second, with valid windows and no
\* failing database call.
Prompt == Serial /\ ValidWindows /\ ~CallsFail

\* A call or one of the background saves it left is on its way.
Busy == saving \union saved # {} \/ \E r \in Requests : InFlight(r)

\* There is one offer at most, and one call in flight.
OneAtATime ==
    /\ SingleDocument
    /\ \A r, s \in Requests : InFlight(r) /\ InFlight(s) => r = s

\* What is on its way began on a settled process, in this very second; the
\* background saves begin when the call has only its window left to store.
BusyIsPrompt ==
    /\ Busy => /\ up /\ boot.pc = "off" /\ running = {}
               /\ \A t \in timers \union saving \union saved : t.at > now
    /\ (\E r \in Requests : InFlight(r) /\ req[r].pc # "set")
         => saving = {} /\ saved = {}

\* A stopped process has nothing armed or on its way.
DownIsEmpty ==
    /\ ~up => timers = {} /\ running = {} /\ ~Busy /\ boot.pc = "off"
    /\ boot.pc \in {"off", "find"} => boot.left = {}

\* A call that schedules has a window to come, and the offer it is for.
CallShape ==
    \A r \in Requests : InFlight(r) =>
        \/ /\ req[r].op = "add" /\ req[r].pc = "save"
           /\ req[r].win.end > now
           /\ \A o \in Offers : ~Live(o)
        \/ /\ req[r].op = "add" /\ req[r].pc = "schedule"
           /\ req[r].win.end > now
           /\ offer[req[r].offer] = req[r].win
        \/ /\ req[r].op = "update"
           /\ req[r].pc \in {"cancel", "drop", "schedule", "set"}
           /\ req[r].win.end > now
           /\ Live(req[r].offer)
        \/ /\ req[r].op = "deleteMultiple" /\ req[r].pc \in {"cancel", "drop"}
           /\ \A o \in Offers : ~Kept(o)

\* e is the end stored for offer o, or the one about to be stored.
Aims(e, o) ==
    \/ \E r \in Requests : req[r].pc = "set" /\ req[r].win.end = e
    \/ (\A r \in Requests : req[r].pc # "set") /\ offer[o].end = e

\* The end jobs being saved are for the end their offer has or gets.
SavesAim ==
    \A j \in saving \union saved :
        j.kind = "End" /\ Live(j.offer) => Aims(j.at, j.offer)

\* The window reAddScheduler has read is still the stored one.
BootWindow ==
    boot.pc \in {"decide", "dropOffer"} /\ Live(boot.doc.offer)
        => boot.win = offer[boot.doc.offer]

\* The inductive invariant of a prompt process, for the timing and the calls.
PromptInv == /\ OneAtATime /\ BusyIsPrompt /\ DownIsEmpty /\ CallShape
             /\ SavesAim /\ BootWindow

\* The offer of document d has an end job aimed at its end, or one of those who
\* will make it so is at work.
Covered(d) ==
    \/ ~up
    \/ boot.pc = "find"
    \/ d \in boot.left
    \/ boot.pc \in {"decide", "dropOffer"} /\ boot.doc = d
    \/ \E r \in Requests : req[r].pc \in {"cancel", "drop", "schedule"}
    \/ \E j \in saving \union saved \union timers :
          j.kind = "End" /\ j.offer = d.offer /\ Aims(j.at, d.offer)
    \/ \E c \in running : c.job.kind = "End" /\ c.job.offer = d.offer

\* PersistedEndIsArmed, made inductive.
PersistedCovered == \A d \in EndDocs : Kept(d.offer) => Covered(d)

\* Nothing is on its way at the first start.
LEMMA PromptInit == Init => PromptInv
BY RequestTypes, BootTypes
   DEF Init, PromptInv, OneAtATime, SingleDocument, BusyIsPrompt, Busy,
       DownIsEmpty, CallShape, SavesAim, BootWindow, InFlight, Live,
       IdleRequest, BootDone

\* Every step of a prompt process keeps it.
LEMMA PromptNext ==
    ASSUME Prompt, Ops \subseteq {"add", "update", "delete", "deleteMultiple"},
           TypeOK, SubmittedEnds, PromptInv, [Next]_vars
    PROVE  PromptInv'
<1> USE DEF dbVars, scheduleVars, jobVars, envVars, obsVars
<1> USE DEF Prompt, PromptInv, OneAtATime, SingleDocument, BusyIsPrompt, Busy,
            DownIsEmpty, CallShape, SavesAim, Aims, BootWindow, InFlight, Live,
            Kept
<1>0. /\ TypeOK'
      /\ Answered.pc \in {"idle", "answered"}
      /\ now \in Nat
      /\ \A w \in Window : w # NoOffer /\ w.end \in Nat
  BY TypeOKNext, RequestTypes, WindowType, ConstantsAssumption DEF TypeOK, Times
<1>1. ASSUME NEW r \in Requests, AddPromoOfferCheck(r) PROVE PromptInv'
  BY <1>0, <1>1 DEF AddPromoOfferCheck, MayStart, Settled, Submittable, TypeOK,
                    IdleRequest
<1>2. ASSUME NEW r \in Requests, AddPromoOfferSave(r) PROVE PromptInv'
  BY <1>0, <1>2 DEF AddPromoOfferSave, InsertOffers, TypeOK, Request
<1>3. ASSUME NEW r \in Requests, CancelJob(r) PROVE PromptInv'
  BY <1>0, <1>3 DEF CancelJob, Goto, TypeOK
<1>4. ASSUME NEW r \in Requests, CancelDropDoc(r) PROVE PromptInv'
  <2>1. /\ req[r].kind \in Kinds
        /\ req[r].pc = "drop" /\ req[r].op \in {"update", "deleteMultiple"}
        /\ \A x \in Requests : InFlight(x) => x = r
    BY <1>4 DEF CancelDropDoc, TypeOK, Request
  <2>2. /\ \A x \in Requests : x # r => req'[x] = req[x]
        /\ InFlight(r)' => /\ req'[r].op = req[r].op
                          /\ req'[r].win = req[r].win
                          /\ req'[r].offer = req[r].offer
                          /\ req'[r].pc # "set"
                          /\ req'[r].pc \in {"cancel", "schedule"}
                          /\ (req'[r].pc = "schedule" => req[r].op = "update")
        /\ req'[r].pc # "set"
    <3>1. CASE req[r].kind = "Start"
      BY <1>4, <2>1, <3>1 DEF CancelDropDoc, TypeOK, Request
    <3>2. CASE req[r].kind = "End" /\ req[r].op = "update"
      BY <1>4, <2>1, <3>2 DEF CancelDropDoc, Goto, TypeOK, Request
    <3>3. CASE req[r].kind = "End" /\ req[r].op # "update"
      BY <1>0, <1>4, <2>1, <3>3 DEF CancelDropDoc, Respond, TypeOK
    <3> QED BY <2>1, <3>1, <3>2, <3>3 DEF Kinds
  <2>3. UNCHANGED <<offer, abandoned, up, timers, jobVars, boot, now>>
    BY <1>4 DEF CancelDropDoc
  <2>4. (OneAtATime /\ BusyIsPrompt /\ DownIsEmpty /\ BootWindow)'
    BY <2>1, <2>2, <2>3
  <2>5. CallShape'
    BY <2>1, <2>2, <2>3
  <2>6. SavesAim'
    BY <2>1, <2>3
  <2> QED BY <2>4, <2>5, <2>6
<1>5. ASSUME NEW r \in Requests, UpdatePromoOfferFind(r) PROVE PromptInv'
  BY <1>0, <1>5 DEF UpdatePromoOfferFind, MayStart, Settled, Submittable, TypeOK
<1>6. ASSUME NEW r \in Requests, SchedulePromoOffer(r) PROVE PromptInv'
  <2> DEFINE o == req[r].offer
             w == req[r].win
             jobs == JobsToSchedule(o, w)
  <2>1. /\ o \in Offers /\ w \in Window /\ w.end > now
        /\ req[r].op \in {"add", "update"} /\ Live(o)
        /\ req[r].op = "add" => offer[o] = w
        /\ saving = {} /\ saved = {} /\ running = {} /\ up
        /\ boot.pc = "off" /\ \A t \in timers : t.at > now
        /\ \A x \in Requests : InFlight(x) => x = r
    BY <1>0, <1>6 DEF SchedulePromoOffer, TypeOK, Request, RequestEndSubmitted,
                      SubmittedEnds, UsesOffer
  <2>2. \A j \in jobs : /\ j.kind = "End" => j.at = w.end
                        /\ j.at > now /\ j.offer = o
    BY <1>0, <2>1, WindowType, ConstantsAssumption DEF JobsToSchedule, Times
  <2>3. \A j \in saving' : /\ j.kind = "End" => j.at = w.end
                           /\ j.at > now /\ j.offer = o
    <3> HIDE DEF jobs
    <3> QED BY <1>6, <2>1, <2>2 DEF SchedulePromoOffer, jobs
  <2>4. [kind |-> "End", offer |-> o, at |-> w.end] \in jobs
    BY <1>0, <2>1 DEF JobsToSchedule
  <2>5. /\ UNCHANGED <<offer, up, timers, saved, running, boot, now>>
        /\ \A x \in Requests : x # r => req'[x] = req[x]
        /\ req[r].op = "update" => req'[r] = [req[r] EXCEPT !.pc = "set"]
        /\ req[r].op = "add" => req'[r] = Answered
    <3> HIDE DEF jobs
    <3> QED BY <1>6, <2>1, <2>4 DEF SchedulePromoOffer, Goto, Respond, TypeOK,
                                    jobs
  <2> HIDE DEF o, w, jobs
  <2>6. CASE req[r].op = "add"
    BY <1>0, <2>1, <2>3, <2>5, <2>6 DEF o, w
  <2>7. CASE req[r].op = "update"
    <3>1. /\ req'[r].pc = "set" /\ req'[r].op = "update"
          /\ req'[r].win = w /\ req'[r].offer = o
      BY <2>5, <2>7 DEF o, w, TypeOK, Request
    <3>2. (OneAtATime /\ BusyIsPrompt /\ DownIsEmpty /\ BootWindow)'
      BY <2>1, <2>3, <2>5, <3>1
    <3>3. CallShape'
      BY <2>1, <2>5, <3>1
    <3>4. SavesAim'
      BY <2>1, <2>3, <2>5, <3>1
    <3> QED BY <3>2, <3>3, <3>4
  <2> QED BY <2>1, <2>6, <2>7
<1>7. ASSUME NEW r \in Requests, UpdatePromoOfferSet(r) PROVE PromptInv'
  <2> DEFINE o == req[r].offer
             w == req[r].win
  <2>1. /\ o \in Offers /\ w \in Window /\ Live(o) /\ up /\ boot.pc = "off"
        /\ running = {} /\ req[r].pc = "set"
        /\ \A x \in Requests : InFlight(x) => x = r
    BY <1>0, <1>7 DEF UpdatePromoOfferSet, TypeOK, Request, SubmittedEnds,
                      RequestEndSubmitted, UsesOffer
  <2>2. /\ UNCHANGED <<up, timers, saving, saved, running, boot, now>>
        /\ \A x \in Requests : x # r => req'[x] = req[x]
        /\ req'[r] = Answered
        /\ offer' \in [Offers -> Window \union {NoOffer}]
        /\ \A x \in Offers : offer'[x] = IF x = o THEN w ELSE offer[x]
    BY <1>0, <1>7, <2>1 DEF UpdatePromoOfferSet, SetWindow, Respond, TypeOK
  <2>3. /\ \A x \in Requests : ~InFlight(x)'
        /\ \A x \in Offers : Live(x)' <=> x = o
    BY <1>0, <2>1, <2>2 DEF TypeOK
  <2>4. SavesAim'
    <3> SUFFICES ASSUME NEW j \in saving \union saved, j.kind = "End",
                        j.offer = o
                 PROVE  Aims(j.at, j.offer)'
      BY <2>2, <2>3, TypeOK DEF TypeOK, Job
    <3>1. j.at = w.end
      BY <2>1
    <3> QED BY <2>1, <2>2, <2>3, <3>1 DEF TypeOK
  <2> HIDE DEF o, w
  <2>5. (OneAtATime /\ BusyIsPrompt /\ DownIsEmpty /\ CallShape)'
    BY <2>1, <2>2, <2>3
  <2>6. BootWindow'
    BY <2>1, <2>2
  <2> QED BY <2>4, <2>5, <2>6
<1>8. ASSUME NEW r \in Requests, DeletePromoOffer(r) PROVE PromptInv'
  BY <1>0, <1>8 DEF DeletePromoOffer, MayStart, Settled, RemoveOffers, Respond,
                    TypeOK
<1>9. ASSUME NEW r \in Requests, DeleteMultiplePromoOffer(r) PROVE PromptInv'
  BY <1>0, <1>9 DEF DeleteMultiplePromoOffer, MayStart, Settled, RemoveOffers,
                    TypeOK, IdleRequest
<1>10. ASSUME NEW r \in Requests,
              \/ InsertManyPromoOfferStart(r) \/ InsertManyPromoOffer(r)
              \/ UpdateMultiplePromoOffer(r) \/ RequestFails(r)
       PROVE  FALSE
  BY <1>10 DEF InsertManyPromoOfferStart, InsertManyPromoOffer,
               UpdateMultiplePromoOffer, RequestFails, MayStart
<1>11. ASSUME NEW j \in saving, SaveJob(j) PROVE PromptInv'
  BY <1>11 DEF SaveJob
<1>12. ASSUME NEW j \in saved, AddOfferSchedule(j) PROVE PromptInv'
  BY <1>12 DEF AddOfferSchedule, ScheduleJob
<1>13. ASSUME NEW t \in timers, FireJob(t) PROVE PromptInv'
  <2>1. t.at \in Nat /\ ~(t.at > now)
    BY <1>0, <1>13, ConstantsAssumption DEF FireJob, TypeOK, Job, Times
  <2>2. up
    OBVIOUS
  <2> QED BY <2>1, <2>2, <1>13 DEF FireJob
<1>14. ASSUME NEW c \in running, CallbackDropJob(c) PROVE PromptInv'
  BY <1>14 DEF CallbackDropJob
<1>15. ASSUME NEW c \in running, CallbackDropOffer(c) PROVE PromptInv'
  <2>1. ~Busy
    BY <1>15
  <2>2. \A x \in Offers : Live(x)' => offer'[x] = offer[x] /\ Live(x)
    BY <1>15 DEF CallbackDropOffer, RemoveOffers, TypeOK
  <2>3. boot.pc \in {"decide", "dropOffer"} => boot.doc.offer \in Offers
    BY DEF SubmittedEnds, BootEndSubmitted, JobDoc
  <2> QED BY <1>15, <2>1, <2>2, <2>3 DEF CallbackDropOffer
<1>16. ASSUME BootFind PROVE PromptInv'
  BY <1>16 DEF BootFind, BootDone
<1>17. ASSUME BootNext PROVE PromptInv'
  BY <1>17 DEF BootNext, TypeOK, Boot
<1>18. ASSUME BootEnd PROVE PromptInv'
  BY <1>18 DEF BootEnd, BootDone
<1>19. ASSUME BootArm PROVE PromptInv'
  BY <1>19 DEF BootArm, ScheduleJob, BackToNext, BootDone
<1>20. ASSUME BootOverdue PROVE PromptInv'
  BY <1>20 DEF BootOverdue, TypeOK, Boot
<1>21. ASSUME BootDropOffer PROVE PromptInv'
  BY <1>21 DEF BootDropOffer, RemoveOffers, TypeOK, Boot
<1>22. ASSUME BootDropJob PROVE PromptInv'
  BY <1>22 DEF BootDropJob, BackToNext, BootDone
<1>23. ASSUME StartProcess PROVE PromptInv'
  BY <1>23 DEF StartProcess, BootDone
<1>24. ASSUME Crash PROVE PromptInv'
  <2>1. \A x \in Requests : req'[x].pc \in {"idle", "answered"}
    BY <1>0, <1>24 DEF Crash
  <2> QED BY <2>1, <1>24 DEF Crash, BootDone
<1>25. ASSUME Tick PROVE PromptInv'
  BY <1>0, <1>25 DEF Tick, Settled
<1>26. CASE UNCHANGED vars
  BY <1>26 DEF vars
<1> QED
  BY <1>1, <1>2, <1>3, <1>4, <1>5, <1>6, <1>7, <1>8, <1>9, <1>10, <1>11,
     <1>12, <1>13, <1>14, <1>15, <1>16, <1>17, <1>18, <1>19, <1>20, <1>21,
     <1>22, <1>23, <1>24, <1>25, <1>26
  DEF Next, RequestStart, RequestStep, ScheduleStep, JobStep, BootStep

\* Nothing is stored at the first start.
LEMMA CoveredInit == Init => PersistedCovered
BY DEF Init, PersistedCovered, EndDocs

\* A step that leaves a document's offer live leaves it covered: a covering
\* timer is taken down only by a call that will arm another, or by firing, and
\* what fires takes the offer away.
LEMMA CoveredNext ==
    ASSUME Prompt, Ops \subseteq {"add", "update", "delete", "deleteMultiple"},
           TypeOK, SubmittedEnds, PromptInv, PersistedCovered, [Next]_vars
    PROVE  PersistedCovered'
<1> USE DEF dbVars, scheduleVars, jobVars, envVars, obsVars
<1> USE DEF PersistedCovered, EndDocs, Covered, Aims, Live, Kept
<1>0. /\ TypeOK' /\ PromptInv'
      /\ Answered.pc \in {"idle", "answered"}
      /\ \A w \in Window : w # NoOffer /\ w.end \in Nat
      /\ now \in Nat
      /\ \A d \in jobDocs' : d \in JobDoc /\ d.offer \in Offers
  BY TypeOKNext, PromptNext, RequestTypes, WindowType, ConstantsAssumption
     DEF TypeOK, Times, JobDoc
<1>1. ASSUME NEW r \in Requests, AddPromoOfferCheck(r)
      PROVE  PersistedCovered'
  BY <1>0, <1>1 DEF AddPromoOfferCheck
<1>2. ASSUME NEW r \in Requests, AddPromoOfferSave(r)
      PROVE  PersistedCovered'
  <2>1. req'[r].pc = "schedule"
    <3>1. PICK o \in Offers : req' = [req EXCEPT ![r] =
                                 [@ EXCEPT !.pc = "schedule", !.offer = o]]
      BY <1>2 DEF AddPromoOfferSave
    <3> QED BY <3>1 DEF TypeOK, Request
  <2> QED BY <2>1
<1>3. ASSUME NEW r \in Requests, CancelJob(r) PROVE PersistedCovered'
  <2>1. req'[r].pc = "drop"
    BY <1>3 DEF CancelJob, Goto, TypeOK, Request
  <2> QED BY <2>1
<1>4. ASSUME NEW r \in Requests, CancelDropDoc(r) PROVE PersistedCovered'
  <2>1. CASE req[r].op = "update"
    <3>1. req'[r].pc \in {"cancel", "schedule"}
      BY <1>4, <2>1 DEF CancelDropDoc, Goto, TypeOK, Request, Kinds
    <3> QED BY <3>1
  <2>2. CASE req[r].op # "update"
    <3>1. \A o \in Offers : ~Kept(o)
      BY <1>4, <2>2 DEF CancelDropDoc, PromptInv, CallShape, InFlight
    <3> QED BY <1>0, <1>4, <3>1 DEF CancelDropDoc
  <2> QED BY <2>1, <2>2
<1>5. ASSUME NEW r \in Requests, UpdatePromoOfferFind(r)
      PROVE  PersistedCovered'
  <2>1. req'[r].pc = "cancel"
    BY <1>5 DEF UpdatePromoOfferFind, TypeOK
  <2> QED BY <2>1
<1>6. ASSUME NEW r \in Requests, SchedulePromoOffer(r) PROVE PersistedCovered'
  <2> DEFINE o == req[r].offer
             w == req[r].win
             jobs == JobsToSchedule(o, w)
  <2>1. /\ o \in Offers /\ w \in Window /\ w.end > now
        /\ req[r].op \in {"add", "update"} /\ Live(o)
        /\ req[r].op = "add" => offer[o] = w
        /\ \A x \in Requests : InFlight(x) => x = r
    BY <1>0, <1>6 DEF SchedulePromoOffer, TypeOK, Request, RequestEndSubmitted,
                      SubmittedEnds, UsesOffer, PromptInv, OneAtATime,
                      CallShape, InFlight
  <2>2. [kind |-> "End", offer |-> o, at |-> w.end] \in jobs
    BY <1>0, <2>1 DEF JobsToSchedule
  <2>3. \E j \in saving' : j.kind = "End" /\ j.offer = o /\ j.at = w.end
    <3>1. PICK id \in [jobs -> JobIds \ IdsInUse] :
              saving' = saving \union
                {[id |-> id[j], kind |-> j.kind, offer |-> j.offer,
                  at |-> j.at, by |-> "request"] : j \in jobs}
      BY <1>6 DEF SchedulePromoOffer
    <3> DEFINE e == [kind |-> "End", offer |-> o, at |-> w.end]
    <3>2. [id |-> id[e], kind |-> e.kind, offer |-> e.offer, at |-> e.at,
           by |-> "request"] \in saving'
      <4> HIDE DEF jobs
      <4> QED BY <2>2, <3>1
    <3> QED BY <3>2
  <2>4. CASE req[r].op = "add"
    <3>1. req' = [req EXCEPT ![r] = Answered]
      BY <1>6, <2>4 DEF SchedulePromoOffer, Respond
    <3>2. \A x \in Requests : req'[x].pc # "set"
      BY <1>0, <2>1, <3>1 DEF TypeOK, InFlight
    <3> QED BY <1>0, <1>6, <2>1, <2>3, <2>4, <3>2
            DEF SchedulePromoOffer, PromptInv, OneAtATime, SingleDocument
  <2>5. CASE req[r].op = "update"
    <3>1. req'[r].pc = "set" /\ req'[r].win = w
      <4> HIDE DEF jobs
      <4> QED BY <1>6, <2>2, <2>5
              DEF SchedulePromoOffer, Goto, TypeOK, Request, jobs
    <3> QED BY <1>0, <1>6, <2>1, <2>3, <3>1
            DEF SchedulePromoOffer, PromptInv, OneAtATime, SingleDocument
  <2> QED BY <2>1, <2>4, <2>5
<1>7. ASSUME NEW r \in Requests, UpdatePromoOfferSet(r) PROVE PersistedCovered'
  <2> DEFINE o == req[r].offer
             w == req[r].win
  <2>1. /\ o \in Offers /\ w \in Window /\ Live(o) /\ req[r].pc = "set"
        /\ up /\ boot.pc = "off" /\ boot.left = {} /\ running = {}
        /\ \A x \in Requests : InFlight(x) => x = r
        /\ \A x \in Offers : Live(x) => x = o
    BY <1>7 DEF UpdatePromoOfferSet, TypeOK, Request, SubmittedEnds,
                RequestEndSubmitted, UsesOffer, PromptInv, OneAtATime,
                SingleDocument, BusyIsPrompt, Busy, DownIsEmpty, CallShape,
                InFlight
  <2>2. /\ UNCHANGED <<up, timers, saving, saved, running, boot, jobDocs,
                       abandoned>>
        /\ \A x \in Requests : req'[x] = IF x = r THEN Answered ELSE req[x]
        /\ \A x \in Offers : offer'[x] = IF x = o THEN w ELSE offer[x]
    BY <1>0, <1>7, <2>1 DEF UpdatePromoOfferSet, SetWindow, Respond, TypeOK
  <2>3. \A x \in Requests : req'[x].pc # "set"
    BY <1>0, <2>1, <2>2 DEF InFlight
  <2> SUFFICES ASSUME NEW d \in jobDocs, d.kind = "End", d.offer = o,
                      Kept(d.offer)
               PROVE  Covered(d)'
    BY <1>0, <2>1, <2>2
  <2>4. PICK j \in saving \union saved \union timers :
            j.kind = "End" /\ j.offer = o /\ Aims(j.at, o)
    <3>1. Covered(d)
      BY <2>1
    <3>2. \A x \in Requests : req[x].pc \notin {"cancel", "drop", "schedule"}
      BY <2>1 DEF InFlight
    <3> HIDE DEF o, w, Aims
    <3> QED BY <2>1, <3>1, <3>2
  <2>5. j.at = w.end
    BY <2>1, <2>4 DEF InFlight
  <2> QED BY <2>1, <2>2, <2>3, <2>4, <2>5
<1>8. ASSUME NEW r \in Requests,
             DeletePromoOffer(r) \/ DeleteMultiplePromoOffer(r)
      PROVE  PersistedCovered'
  <2>1. /\ \A x \in Requests : req[x].pc \in {"idle", "answered"}
        /\ \A x \in Requests : req'[x].pc # "set"
        /\ boot.pc = "off" /\ saving = {} /\ saved = {} /\ running = {} /\ up
    <3>1. Settled /\ up
      BY <1>8 DEF DeletePromoOffer, DeleteMultiplePromoOffer, MayStart, Prompt
    <3>2. req' = [req EXCEPT ![r] = Answered] \/ req'[r].pc = "cancel"
      <4>1. CASE DeletePromoOffer(r)
        BY <4>1 DEF DeletePromoOffer, Respond
      <4>2. CASE DeleteMultiplePromoOffer(r)
        BY <4>2, RequestTypes DEF DeleteMultiplePromoOffer, TypeOK, Request
      <4> QED BY <1>8, <4>1, <4>2
    <3>3. \A x \in Requests : x # r => req'[x] = req[x]
      BY <1>8 DEF DeletePromoOffer, DeleteMultiplePromoOffer, Respond, TypeOK
    <3> QED BY <1>0, <3>1, <3>2, <3>3 DEF Settled, InFlight, TypeOK
  <2>2. /\ \A x \in Offers : Live(x)' => Live(x) /\ offer'[x] = offer[x]
        /\ abandoned \subseteq abandoned'
        /\ UNCHANGED <<up, timers, saving, saved, running, boot, jobDocs>>
    BY <1>8 DEF DeletePromoOffer, DeleteMultiplePromoOffer, RemoveOffers, TypeOK
  <2> QED BY <1>0, <2>1, <2>2
<1>9. ASSUME NEW r \in Requests,
             \/ InsertManyPromoOfferStart(r) \/ InsertManyPromoOffer(r)
             \/ UpdateMultiplePromoOffer(r) \/ RequestFails(r)
      PROVE  FALSE
  BY <1>9 DEF InsertManyPromoOfferStart, InsertManyPromoOffer,
              UpdateMultiplePromoOffer, RequestFails, MayStart, Prompt,
              PromptInv, CallShape, InFlight
<1>10. ASSUME NEW j \in saving, SaveJob(j) PROVE PersistedCovered'
  <2> SUFFICES ASSUME NEW d \in jobDocs', d.kind = "End", Kept(d.offer)'
               PROVE  Covered(d)'
    OBVIOUS
  <2>1. CASE d \in jobDocs
    BY <1>10, <2>1 DEF SaveJob
  <2>2. CASE d = DocOf(j)
    <3>1. d.kind = j.kind /\ d.offer = j.offer
      BY <2>2 DEF DocOf
    <3>2. Aims(j.at, j.offer)
      BY <1>10, <3>1 DEF SaveJob, PromptInv, SavesAim
    <3> QED BY <1>10, <3>1, <3>2 DEF SaveJob
  <2> QED BY <1>10, <2>1, <2>2 DEF SaveJob
<1>11. ASSUME NEW j \in saved, AddOfferSchedule(j) PROVE PersistedCovered'
  <2>1. j.at > now /\ j.at \in Nat
    BY ConstantsAssumption DEF PromptInv, BusyIsPrompt, Busy, TypeOK, Job, Times
  <2>2. /\ UNCHANGED <<jobDocs, offer, abandoned, up, saving, running, req,
                       boot>>
        /\ saved' = saved \ {j} /\ timers' = timers \union {j}
    BY <1>0, <1>11, <2>1 DEF AddOfferSchedule, ScheduleJob
  <2> QED BY <2>2
<1>12. ASSUME NEW t \in timers, FireJob(t) PROVE PersistedCovered'
  <2>1. /\ UNCHANGED <<jobDocs, offer, abandoned, up, saving, saved, req,
                       boot>>
        /\ timers' = timers \ {t}
        /\ running' = running \union {[job |-> t, next |-> "dropJob"]}
    BY <1>12 DEF FireJob
  <2>2. t.kind = "End" => \E c \in running' : c.job = t
    <3>1. [job |-> t, next |-> "dropJob"].job = t
      OBVIOUS
    <3> QED BY <2>1, <3>1
  <2> QED BY <2>1, <2>2
<1>13. ASSUME NEW c \in running, CallbackDropJob(c) PROVE PersistedCovered'
  <2>1. /\ UNCHANGED <<offer, abandoned, up, saving, saved, timers, req, boot>>
        /\ jobDocs' \subseteq jobDocs
        /\ \A x \in running : x \in running' \/ x = c
        /\ c.job.kind = "End" => [job |-> c.job, next |-> "dropOffer"] \in running'
    BY <1>13 DEF CallbackDropJob, DropJobDoc
  <2> QED BY <2>1
<1>14. ASSUME NEW c \in running, CallbackDropOffer(c) PROVE PersistedCovered'
  <2>1. /\ UNCHANGED <<jobDocs, up, saving, saved, timers, req, boot>>
        /\ running' = running \ {c}
        /\ \A x \in Offers : Live(x)' => /\ Live(x) /\ offer'[x] = offer[x]
                                         /\ x # c.job.offer
        /\ UNCHANGED abandoned
    BY <1>14 DEF CallbackDropOffer, RemoveOffers, TypeOK
  <2> QED BY <1>0, <2>1
<1>15. ASSUME BootFind PROVE PersistedCovered'
  BY <1>15 DEF BootFind, BootDone
<1>16. ASSUME BootNext PROVE PersistedCovered'
  BY <1>16 DEF BootNext, TypeOK, Boot
<1>17. ASSUME BootEnd PROVE PersistedCovered'
  BY <1>17 DEF BootEnd, BootDone
<1>18. ASSUME BootArm PROVE PersistedCovered'
  <2> DEFINE j == [id |-> boot.doc.id, kind |-> boot.doc.kind,
                   offer |-> boot.doc.offer, at |-> BootAt, by |-> "boot"]
  <2>1. /\ UNCHANGED <<jobDocs, offer, abandoned, up, saving, saved, running,
                       req>>
        /\ timers' = timers \union {j}
        /\ boot'.pc = "next" /\ boot'.left = boot.left
        /\ boot.pc = "decide"
    <3>1. BootAt > now /\ BootAt \in Nat
      BY <1>18, WindowType, ConstantsAssumption
         DEF BootArm, BootAt, TypeOK, Boot, Times
    <3> QED BY <1>0, <1>18, <3>1 DEF BootArm, ScheduleJob, BackToNext, BootDone
  <2>2. boot.doc.kind = "End" /\ Live(boot.doc.offer)
          => /\ j.kind = "End" /\ j.offer = boot.doc.offer
             /\ Aims(j.at, j.offer)
    BY <1>18 DEF BootArm, BootAt, PromptInv, BootWindow, BusyIsPrompt, Busy,
                 InFlight
  <2> HIDE DEF j
  <2> QED BY <2>1, <2>2
<1>19. ASSUME BootOverdue PROVE PersistedCovered'
  BY <1>19 DEF BootOverdue, TypeOK, Boot
<1>20. ASSUME BootDropOffer PROVE PersistedCovered'
  <2>1. /\ UNCHANGED <<jobDocs, up, saving, saved, timers, running, req>>
        /\ boot'.left = boot.left
        /\ boot.pc = "dropOffer"
        /\ \A x \in Offers : Live(x)' => /\ Live(x) /\ offer'[x] = offer[x]
                                         /\ x # boot.doc.offer
        /\ UNCHANGED abandoned
    BY <1>20 DEF BootDropOffer, RemoveOffers, TypeOK, Boot
  <2> QED BY <1>0, <2>1
<1>21. ASSUME BootDropJob PROVE PersistedCovered'
  BY <1>21 DEF BootDropJob, BackToNext, BootDone, DropJobDoc
<1>22. ASSUME StartProcess PROVE PersistedCovered'
  BY <1>22 DEF StartProcess, BootDone
<1>23. ASSUME Crash PROVE PersistedCovered'
  BY <1>23 DEF Crash
<1>24. ASSUME Tick PROVE PersistedCovered'
  BY <1>24 DEF Tick
<1>25. CASE UNCHANGED vars
  BY <1>25 DEF vars
<1> QED
  BY <1>1, <1>2, <1>3, <1>4, <1>5, <1>6, <1>7, <1>8, <1>9, <1>10, <1>11,
     <1>12, <1>13, <1>14, <1>15, <1>16, <1>17, <1>18, <1>19, <1>20, <1>21,
     <1>22, <1>23, <1>24, <1>25
  DEF Next, RequestStart, RequestStep, ScheduleStep, JobStep, BootStep

\* On a prompt server the recovery arms, for every persisted end job of a
\* stored offer, an end at the offer's stored end: through any number of
\* updates, and wherever the process stopped before.
THEOREM PersistedEndIsArmedAlways ==
    ASSUME Prompt, Ops \subseteq {"add", "update", "delete", "deleteMultiple"}
    PROVE  Spec => []PersistedEndIsArmed
<1>1. Init => PromptInv /\ PersistedCovered
  BY PromptInit, CoveredInit
<1>2. /\ TypeOK /\ SubmittedEnds /\ PromptInv /\ PersistedCovered
      /\ [Next]_vars
      => (PromptInv /\ PersistedCovered)'
  BY PromptNext, CoveredNext
<1>3. TypeOK /\ PromptInv /\ PersistedCovered => PersistedEndIsArmed
  <2> SUFFICES ASSUME TypeOK, PromptInv, PersistedCovered, up, Settled,
                      NEW d \in EndDocs, Kept(d.offer)
               PROVE  \E t \in EndTimers : /\ t.offer = d.offer
                                           /\ t.at = offer[d.offer].end
    BY DEF PersistedEndIsArmed
  <2>1. \A r \in Requests : req[r].pc \in {"idle", "answered"}
    BY DEF Settled, InFlight
  <2>2. PICK j \in timers : j.kind = "End" /\ j.offer = d.offer
                             /\ Aims(j.at, d.offer)
    BY <2>1 DEF PersistedCovered, Covered, Settled, PromptInv, DownIsEmpty
  <2> QED BY <2>1, <2>2 DEF Aims, EndTimers
<1> QED BY <1>1, <1>2, <1>3, Invariance, PTL DEF Spec

(***************************************************************************)
(* Clean stops: every stored offer has its one end job                     *)
(***************************************************************************)
\* The end jobs on their way or armed, the end callbacks in flight.
EndJobs  == {j \in saving \union saved \union timers : j.kind = "End"}
EndCalls == {c \in running : c.job.kind = "End"}

\* reAddScheduler will still come to document d, or has it in hand.
Recovering(d) == \/ ~up
                 \/ boot.pc = "find"
                 \/ d \in boot.left
                 \/ boot.pc \in {"decide", "dropOffer"} /\ boot.doc = d

\* Its offer gone, the document in hand is about to go.
Dropping(d) == boot.pc = "dropJob" /\ boot.doc = d

\* A call has deleted what it named, and cancels the jobs.
Deleting == \E r \in Requests : InFlight(r) /\ req[r].op = "deleteMultiple"

\* The end timer is cancelled, and its document is next.
Cancelled == \E r \in Requests : req[r].pc = "drop" /\ req[r].kind = "End"

\* There is no end job: there is no offer yet, or its jobs are cancelled.
Unscheduled == \E r \in Requests : req[r].pc \in {"save", "schedule"}

\* Nothing fires while reAddScheduler is at work, and what it has in hand or
\* has left is stored and not armed.
RecoveryAlone ==
    /\ boot.pc # "off" => up /\ running = {} /\ \A t \in timers : t.at > now
    /\ \A d \in boot.left : d \in jobDocs /\ d # boot.doc
    /\ boot.pc \in {"decide", "dropOffer", "dropJob"} => boot.doc \in jobDocs
    /\ boot.pc = "dropOffer" => boot.doc.kind = "End"
    /\ \A d \in EndDocs : Recovering(d) \/ Dropping(d) => EndJobs = {}

\* At most one end document, and one end job or callback.
OneEnd ==
    /\ \A d, e \in EndDocs : d = e
    /\ \A i, j \in EndJobs : i = j
    /\ \A b, c \in EndCalls : b = c
    /\ EndJobs # {} => EndCalls = {}

\* An end job has its document once it is saved, and until its callback drops it.
JobHasDocument ==
    /\ \A j \in EndJobs : \/ j \in saving /\ EndDocs = {}
                          \/ j \notin saving /\ DocOf(j) \in jobDocs
    /\ \A c \in EndCalls : \/ c.next = "dropJob" /\ DocOf(c.job) \in jobDocs
                           \/ c.next = "dropOffer" /\ EndDocs = {}

\* An end document has its job or callback, unless the recovery or a cancelling
\* call is at work on it, and its offer is kept until it is about to go.
DocumentHasJob ==
    \A d \in EndDocs :
        /\ \/ Recovering(d) \/ Dropping(d) \/ Cancelled
           \/ \E j \in EndJobs : DocOf(j) = d
           \/ \E c \in EndCalls : DocOf(c.job) = d
        /\ Kept(d.offer) \/ Deleting \/ Dropping(d)

\* An end job is for the end of a kept offer, and what fires is due.
EndsAim ==
    /\ \A j \in EndJobs : Deleting \/ (Kept(j.offer) /\ Aims(j.at, j.offer))
    /\ \A c \in EndCalls : Kept(c.job.offer) /\ offer[c.job.offer].end <= now

\* A kept offer has an end job, or one of those who will see to it.
OfferHasEnd ==
    \A o \in Offers : Kept(o) =>
        \/ \E d \in EndDocs : d.offer = o /\ Recovering(d)
        \/ \E r \in Requests : req[r].pc \in {"cancel", "drop", "schedule"}
        \/ \E j \in EndJobs : j.offer = o
        \/ \E c \in EndCalls : c.job.offer = o

\* The name of the end job means the timer that is armed under it.
RegistryKnows ==
    /\ \A k \in Kinds : registry[k] = NoJob \/ registry[k].kind = k
    /\ \A t \in EndTimers : registry["End"] = t

\* How far a call has come with cancelling or scheduling.
CancelPhases ==
    /\ Cancelled => EndTimers = {}
    /\ Unscheduled => EndTimers = {} /\ EndDocs = {}

\* The documents stored, or that a job or the recovery still refers to; their
\* ids tell them apart.
DocsInUse == jobDocs \union {DocOf(j) : j \in saving \union saved \union timers}
             \union {DocOf(c.job) : c \in running}
             \union boot.left \union ({boot.doc} \ {NoJob})

UniqueIds == \A d, e \in DocsInUse : d.id = e.id => d = e

\* EndJobsMatchOffers, made inductive.
MatchInv == /\ RecoveryAlone /\ OneEnd /\ JobHasDocument /\ DocumentHasJob
            /\ EndsAim /\ OfferHasEnd /\ RegistryKnows /\ CancelPhases
            /\ UniqueIds

\* A job and its document have one id.
LEMMA UsedIds == \A d \in DocsInUse : d.id \in IdsInUse
BY DEF DocsInUse, IdsInUse, DocOf

\* Fresh ids are all a step may add: what else it stores, arms or looks up has
\* an id in use already.
LEMMA UniqueIdsNext ==
    ASSUME TypeOK, SubmittedEnds, UniqueIds, [Next]_vars
    PROVE  UniqueIds'
<1> USE DEF dbVars, scheduleVars, jobVars, envVars, obsVars
<1>1. DocsInUse' \subseteq DocsInUse => UniqueIds'
  BY DEF UniqueIds
<1>2. ASSUME UNCHANGED <<jobDocs, timers, saving, saved, running, boot>>
      PROVE  UniqueIds'
  <2>1. DocsInUse' = DocsInUse
    BY <1>2 DEF DocsInUse
  <2> QED BY <1>1, <2>1
<1>3. ASSUME NEW r \in Requests,
             \/ RequestStart(r) \/ AddPromoOfferSave(r)
             \/ InsertManyPromoOffer(r) \/ UpdatePromoOfferSet(r)
             \/ RequestFails(r)
      PROVE  UniqueIds'
  BY <1>2, <1>3
     DEF RequestStart, AddPromoOfferCheck, InsertManyPromoOfferStart,
         UpdatePromoOfferFind, UpdateMultiplePromoOffer, DeletePromoOffer,
         DeleteMultiplePromoOffer, AddPromoOfferSave, InsertManyPromoOffer,
         UpdatePromoOfferSet, RequestFails
<1>4. ASSUME NEW r \in Requests, CancelJob(r) \/ CancelDropDoc(r)
      PROVE  UniqueIds'
  <2>1. jobDocs' \subseteq jobDocs /\ timers' \subseteq timers
    BY <1>4 DEF CancelJob, CancelDropDoc, DeleteOneJobDoc, DropJobDoc
  <2>2. UNCHANGED <<saving, saved, running, boot>>
    BY <1>4 DEF CancelJob, CancelDropDoc
  <2> QED BY <1>1, <2>1, <2>2 DEF DocsInUse
<1>5. ASSUME NEW r \in Requests, SchedulePromoOffer(r) PROVE UniqueIds'
  <2> DEFINE jobs == JobsToSchedule(req[r].offer, req[r].win)
             job(id, j) == [id |-> id[j], kind |-> j.kind, offer |-> j.offer,
                            at |-> j.at, by |-> "request"]
  <2>1. PICK id \in [jobs -> JobIds \ IdsInUse] :
            /\ \A j, k \in jobs : id[j] = id[k] => j = k
            /\ saving' = saving \union {job(id, j) : j \in jobs}
    BY <1>5 DEF SchedulePromoOffer
  <2>2. UNCHANGED <<jobDocs, timers, saved, running, boot>>
    BY <1>5 DEF SchedulePromoOffer
  <2> DEFINE New == {DocOf(job(id, j)) : j \in jobs}
  <2> HIDE DEF jobs
  <2>3. DocsInUse' = DocsInUse \union New
    <3> DEFINE S == {job(id, j) : j \in jobs}
    <3>1. {DocOf(i) : i \in S} = New
      OBVIOUS
    <3> HIDE DEF S, New, job
    <3>2. saving' = saving \union S
      BY <2>1 DEF S
    <3>3. {DocOf(i) : i \in saving' \union saved' \union timers'}
            = {DocOf(i) : i \in saving \union saved \union timers} \union New
      BY <2>2, <3>1, <3>2
    <3> QED BY <2>2, <3>3 DEF DocsInUse
  <2>4. \A d \in New : d.id \notin IdsInUse
    BY <2>1 DEF DocOf
  <2>5. \A d, e \in New : d.id = e.id => d = e
    BY <2>1 DEF DocOf
  <2> HIDE DEF New
  <2> QED BY <2>3, <2>4, <2>5, UsedIds DEF UniqueIds
<1>6. ASSUME NEW j \in saving, SaveJob(j) PROVE UniqueIds'
  <2>1. DocsInUse' \subseteq DocsInUse
    BY <1>6 DEF SaveJob, DocsInUse
  <2> QED BY <1>1, <2>1
<1>7. ASSUME NEW j \in saved, AddOfferSchedule(j) PROVE UniqueIds'
  <2>1. timers' \subseteq timers \union {j}
    BY <1>7 DEF AddOfferSchedule, ScheduleJob
  <2>2. DocsInUse' \subseteq DocsInUse
    BY <1>7, <2>1 DEF AddOfferSchedule, DocsInUse
  <2> QED BY <1>1, <2>2
<1>8. ASSUME NEW t \in timers, FireJob(t) PROVE UniqueIds'
  <2>1. DocsInUse' \subseteq DocsInUse
    BY <1>8 DEF FireJob, DocsInUse
  <2> QED BY <1>1, <2>1
<1>9. ASSUME NEW c \in running, CallbackDropJob(c) \/ CallbackDropOffer(c)
      PROVE  UniqueIds'
  <2>1. jobDocs' \subseteq jobDocs
    BY <1>9 DEF CallbackDropJob, CallbackDropOffer, DropJobDoc
  <2>2. \A b \in running' : b.job \in {a.job : a \in running}
    BY <1>9 DEF CallbackDropJob, CallbackDropOffer
  <2>3. UNCHANGED <<saving, saved, timers, boot>>
    BY <1>9 DEF CallbackDropJob, CallbackDropOffer
  <2>4. {DocOf(b.job) : b \in running'} \subseteq {DocOf(a.job) : a \in running}
    BY <2>2
  <2> QED BY <1>1, <2>1, <2>3, <2>4 DEF DocsInUse
<1>10. ASSUME BootFind \/ BootNext \/ BootEnd PROVE UniqueIds'
  <2>1. /\ boot'.left \subseteq jobDocs \union boot.left
        /\ boot'.doc = NoJob \/ boot'.doc = boot.doc \/ boot'.doc \in boot.left
    <3>1. CASE BootFind
      BY <3>1 DEF BootFind, BootDone
    <3>2. CASE BootNext
      BY <3>2 DEF BootNext, TypeOK, Boot
    <3>3. CASE BootEnd
      BY <3>3 DEF BootEnd, BootDone
    <3> QED BY <1>10, <3>1, <3>2, <3>3
  <2>2. UNCHANGED <<jobDocs, saving, saved, timers, running>>
    BY <1>10 DEF BootFind, BootNext, BootEnd
  <2>3. DocsInUse' \subseteq DocsInUse
    BY <2>1, <2>2 DEF DocsInUse
  <2> QED BY <1>1, <2>3
<1>11. ASSUME BootArm PROVE UniqueIds'
  <2> DEFINE j == [id |-> boot.doc.id, kind |-> boot.doc.kind,
                   offer |-> boot.doc.offer, at |-> BootAt, by |-> "boot"]
  <2>1. boot.doc \in JobDoc /\ boot.doc # NoJob
    BY <1>11, ConstantsAssumption
       DEF BootArm, SubmittedEnds, BootEndSubmitted
  <2>2. DocOf(j) = boot.doc
    BY <2>1 DEF DocOf, JobDoc
  <2>3. timers' \subseteq timers \union {j}
    BY <1>11 DEF BootArm, ScheduleJob
  <2>4. boot'.left = boot.left /\ boot'.doc = NoJob
    BY <1>11 DEF BootArm, BackToNext, BootDone
  <2> HIDE DEF j
  <2>5. DocsInUse' \subseteq DocsInUse
    BY <1>11, <2>1, <2>2, <2>3, <2>4 DEF BootArm, DocsInUse
  <2> QED BY <1>1, <2>5
<1>12. ASSUME BootOverdue \/ BootDropOffer \/ BootDropJob PROVE UniqueIds'
  <2>1. /\ boot'.left = boot.left /\ jobDocs' \subseteq jobDocs
        /\ boot'.doc = NoJob \/ boot'.doc = boot.doc
    BY <1>12 DEF BootOverdue, BootDropOffer, BootDropJob, BackToNext, BootDone,
                 DropJobDoc, TypeOK, Boot
  <2>2. UNCHANGED <<saving, saved, timers, running>>
    BY <1>12 DEF BootOverdue, BootDropOffer, BootDropJob
  <2>3. DocsInUse' \subseteq DocsInUse
    BY <2>1, <2>2 DEF DocsInUse
  <2> QED BY <1>1, <2>3
<1>13. ASSUME StartProcess \/ Crash PROVE UniqueIds'
  <2>1. /\ jobDocs' = jobDocs /\ saving' \subseteq saving
        /\ saved' \subseteq saved /\ timers' \subseteq timers
        /\ running' \subseteq running /\ boot'.left = {} /\ boot'.doc = NoJob
    BY <1>13 DEF StartProcess, Crash, BootDone
  <2>2. DocsInUse' \subseteq DocsInUse
    BY <2>1 DEF DocsInUse
  <2> QED BY <1>1, <2>2
<1>14. ASSUME Tick \/ UNCHANGED vars PROVE UniqueIds'
  BY <1>2, <1>14 DEF Tick, vars
<1> QED
  BY <1>3, <1>4, <1>5, <1>6, <1>7, <1>8, <1>9, <1>10, <1>11, <1>12, <1>13,
     <1>14
  DEF Next, RequestStep, ScheduleStep, JobStep, BootStep

\* With nothing on its way, the end jobs are the armed ones, each stored end is
\* one of theirs, and nobody is at work on them.
LEMMA SettledEnds ==
    ASSUME TypeOK, PromptInv, MatchInv, up, Settled
    PROVE  /\ saving = {} /\ saved = {} /\ running = {} /\ EndCalls = {}
           /\ boot.pc = "off" /\ boot.left = {}
           /\ \A r \in Requests : req[r].pc \in {"idle", "answered"}
           /\ \A d \in jobDocs : ~Recovering(d) /\ ~Dropping(d)
           /\ ~Deleting /\ ~Cancelled /\ ~Unscheduled
           /\ \A j \in EndJobs : j \in EndTimers /\ DocOf(j) \in EndDocs
           /\ \A j \in EndJobs : Kept(j.offer) /\ j.at = offer[j.offer].end
           /\ \A d \in EndDocs : /\ Kept(d.offer)
                                 /\ \E j \in EndJobs : DocOf(j) = d
           /\ \A o \in Offers : Kept(o) => \E j \in EndJobs : j.offer = o
<1>1. /\ saving = {} /\ saved = {} /\ running = {} /\ EndCalls = {}
      /\ boot.pc = "off" /\ boot.left = {}
      /\ \A r \in Requests : req[r].pc \in {"idle", "answered"}
  BY DEF Settled, InFlight, PromptInv, DownIsEmpty, EndCalls
<1>2. /\ \A d \in jobDocs : ~Recovering(d) /\ ~Dropping(d)
      /\ ~Deleting /\ ~Cancelled /\ ~Unscheduled
  BY <1>1 DEF Recovering, Dropping, Deleting, Cancelled, Unscheduled, InFlight
<1>3. \A j \in EndJobs : j \in EndTimers /\ DocOf(j) \in EndDocs
  BY <1>1 DEF EndJobs, EndTimers, EndDocs, DocOf, MatchInv, JobHasDocument
<1>4. \A j \in EndJobs : Kept(j.offer) /\ j.at = offer[j.offer].end
  BY <1>1, <1>2 DEF MatchInv, EndsAim, Aims
<1>5. \A d \in EndDocs : Kept(d.offer) /\ \E j \in EndJobs : DocOf(j) = d
  BY <1>1, <1>2 DEF MatchInv, DocumentHasJob, EndDocs
<1>6. \A o \in Offers : Kept(o) => \E j \in EndJobs : j.offer = o
  BY <1>1, <1>2 DEF MatchInv, OfferHasEnd, EndDocs
<1> QED BY <1>1, <1>2, <1>3, <1>4, <1>5, <1>6

\* While a call is in flight nobody else is at work.
LEMMA InFlightEnds ==
    ASSUME TypeOK, PromptInv, NEW r \in Requests, InFlight(r)
    PROVE  /\ up /\ running = {} /\ EndCalls = {}
           /\ boot.pc = "off" /\ boot.left = {}
           /\ \A x \in Requests : InFlight(x) => x = r
           /\ req[r].pc # "set" =>
                 /\ saving = {} /\ saved = {}
                 /\ EndJobs = EndTimers
                 /\ \A x \in Requests : req[x].pc # "set"
           /\ \A d \in jobDocs : ~Recovering(d) /\ ~Dropping(d)
<1>1. /\ up /\ running = {} /\ EndCalls = {}
      /\ boot.pc = "off" /\ boot.left = {}
      /\ \A x \in Requests : InFlight(x) => x = r
      /\ req[r].pc # "set" => saving = {} /\ saved = {}
  BY DEF PromptInv, OneAtATime, BusyIsPrompt, Busy, DownIsEmpty, EndCalls
<1>2. req[r].pc # "set" => /\ EndJobs = EndTimers
                           /\ \A x \in Requests : req[x].pc # "set"
  BY <1>1 DEF EndJobs, EndTimers, InFlight
<1>3. \A d \in jobDocs : ~Recovering(d) /\ ~Dropping(d)
  BY <1>1 DEF Recovering, Dropping
<1> QED BY <1>1, <1>2, <1>3

\* A call that starts or goes on keeps the documents and jobs matched.
LEMMA MatchCall ==
    ASSUME Prompt, Ops \subseteq {"add", "update", "deleteMultiple"},
           TypeOK, TypeOK', SubmittedEnds, PromptInv, PromptInv', MatchInv,
           UniqueIds', NEW r \in Requests,
           RequestStart(r) \/ RequestStep(r) \/ RequestFails(r)
    PROVE  MatchInv'
<1> USE DEF dbVars, scheduleVars, jobVars, envVars, obsVars, Kept
<1>0. /\ Answered.pc \in {"idle", "answered"}
      /\ now \in Nat
      /\ \A w \in Window : w # NoOffer /\ w.end \in Nat
      /\ \A k \in Kinds : registry[k] # NoJob => registry[k].kind = k
  BY RequestTypes, WindowType, ConstantsAssumption
     DEF TypeOK, Times, MatchInv, RegistryKnows
<1> DEFINE Quiet == /\ UNCHANGED <<jobDocs, up, registry, timers, saving,
                                   saved, running, boot, now>>
<1>1. ASSUME Quiet
      PROVE  /\ EndDocs' = EndDocs /\ EndJobs' = EndJobs /\ EndCalls' = EndCalls
             /\ EndTimers' = EndTimers
             /\ \A d : Recovering(d)' = Recovering(d) /\ Dropping(d)' = Dropping(d)
             /\ (RecoveryAlone /\ OneEnd /\ JobHasDocument /\ RegistryKnows)'
  <2>1. /\ EndDocs' = EndDocs /\ EndJobs' = EndJobs /\ EndCalls' = EndCalls
        /\ EndTimers' = EndTimers
        /\ \A d : Recovering(d)' = Recovering(d) /\ Dropping(d)' = Dropping(d)
    BY <1>1 DEF EndDocs, EndJobs, EndCalls, EndTimers, Recovering, Dropping
  <2>2. RecoveryAlone'
    BY <1>1, <2>1 DEF MatchInv, RecoveryAlone
  <2>3. OneEnd' /\ JobHasDocument' /\ RegistryKnows'
    BY <1>1, <2>1 DEF MatchInv, OneEnd, JobHasDocument, RegistryKnows
  <2> QED BY <2>1, <2>2, <2>3
<1> HIDE DEF Quiet
<1>2. ASSUME AddPromoOfferCheck(r) PROVE MatchInv'
  <2>1. /\ Quiet /\ Settled /\ up /\ UNCHANGED <<offer, abandoned>>
        /\ \A o \in Offers : ~Live(o)
        /\ req'[r].pc = "save" /\ req'[r].op = "add"
        /\ \A x \in Requests : x # r => req'[x] = req[x]
    BY <1>2 DEF AddPromoOfferCheck, MayStart, Prompt, TypeOK, Quiet, IdleRequest
  <2>2. /\ EndDocs = {} /\ EndJobs = {} /\ EndCalls = {} /\ EndTimers = {}
    BY <2>1, SettledEnds DEF EndTimers, EndJobs, EndDocs, TypeOK, JobDoc, Job
  <2>3. (DocumentHasJob /\ EndsAim /\ CancelPhases /\ OfferHasEnd)'
    BY <1>1, <2>1, <2>2 DEF DocumentHasJob, EndsAim, CancelPhases, OfferHasEnd,
                            Live
  <2> QED BY <1>1, <2>1, <2>3 DEF MatchInv
<1>3. ASSUME AddPromoOfferSave(r) PROVE MatchInv'
  <2>1. PICK o \in Offers : req' = [req EXCEPT ![r] =
                                [@ EXCEPT !.pc = "schedule", !.offer = o]]
    BY <1>3 DEF AddPromoOfferSave
  <2>2. /\ Quiet /\ req'[r].pc = "schedule" /\ req[r].pc = "save"
    BY <1>3, <2>1 DEF AddPromoOfferSave, TypeOK, Quiet, Request
  <2>3. /\ EndDocs = {} /\ EndJobs = {} /\ EndCalls = {} /\ EndTimers = {}
    BY <2>2, InFlightEnds DEF MatchInv, CancelPhases, Unscheduled, InFlight
  <2>4. (DocumentHasJob /\ EndsAim /\ CancelPhases /\ OfferHasEnd)'
    BY <1>1, <2>2, <2>3 DEF DocumentHasJob, EndsAim, CancelPhases, OfferHasEnd
  <2> QED BY <1>1, <2>2, <2>4 DEF MatchInv
<1>4. ASSUME CancelJob(r) PROVE MatchInv'
  <2>1. /\ UNCHANGED <<offer, abandoned, jobDocs, up, saving, saved, running,
                       boot, now>>
        /\ req[r].pc = "cancel" /\ req[r].kind \in Kinds
        /\ req' = [req EXCEPT ![r].pc = "drop"]
        /\ req'[r].pc = "drop" /\ req'[r].op = req[r].op
        /\ req'[r].kind = req[r].kind
        /\ \A x \in Requests : x # r => req'[x] = req[x]
        /\ timers' = timers \ {registry[req[r].kind]}
        /\ registry' = [registry EXCEPT ![req[r].kind] = NoJob]
    BY <1>4 DEF CancelJob, Goto, TypeOK, Request
  <2>2. /\ EndJobs = EndTimers /\ EndCalls = {} /\ saving = {} /\ saved = {}
        /\ \A x \in Requests : InFlight(x) => x = r
        /\ \A d \in jobDocs : ~Recovering(d) /\ ~Dropping(d)
        /\ up /\ boot.pc = "off" /\ boot.left = {} /\ running = {}
    BY <2>1, InFlightEnds DEF InFlight
  <2>3. /\ EndDocs' = EndDocs /\ EndCalls' = {} /\ EndJobs' = EndTimers'
        /\ \A d \in jobDocs' : ~Recovering(d)' /\ ~Dropping(d)'
        /\ Deleting' = Deleting
    BY <2>1, <2>2 DEF EndDocs, EndCalls, EndJobs, EndTimers, Recovering,
                      Dropping, Deleting, InFlight
  <2>4. IF req[r].kind = "End" THEN EndTimers' = {} ELSE EndTimers' = EndTimers
    <3>1. NoJob \notin timers
      BY ConstantsAssumption DEF TypeOK
    <3>2. CASE req[r].kind = "End"
      BY <2>1, <3>2 DEF EndTimers, MatchInv, RegistryKnows
    <3>3. CASE req[r].kind = "Start"
      BY <1>0, <2>1, <3>1, <3>3 DEF EndTimers
    <3> QED BY <2>1, <3>2, <3>3 DEF Kinds
  <2>5. (RecoveryAlone /\ OneEnd /\ JobHasDocument)'
    BY <2>1, <2>2, <2>3, <2>4 DEF MatchInv, RecoveryAlone, OneEnd,
       JobHasDocument, Recovering, Dropping
  <2>6. RegistryKnows'
    <3>1. \A k \in Kinds : registry'[k] = NoJob \/ registry'[k].kind = k
      BY <1>0, <2>1 DEF TypeOK
    <3>2. \A t \in EndTimers' : registry'["End"] = t
      BY <2>1, <2>4 DEF MatchInv, RegistryKnows, TypeOK, Kinds
    <3> QED BY <3>1, <3>2 DEF RegistryKnows
  <2>7. EndsAim'
    <3> SUFFICES ASSUME NEW j \in EndTimers, ~Deleting
                 PROVE  (Kept(j.offer) /\ Aims(j.at, j.offer))'
      BY <2>3, <2>4 DEF EndsAim
    <3>1. Kept(j.offer) /\ Aims(j.at, j.offer)
      BY <2>2 DEF MatchInv, EndsAim
    <3>2. \A x \in Requests : req[x].pc # "set" /\ req'[x].pc # "set"
      BY <2>1, <2>2 DEF InFlight
    <3> QED BY <2>1, <3>1, <3>2 DEF Live, Aims
  <2>8. DocumentHasJob'
    <3> SUFFICES ASSUME NEW d \in EndDocs
                 PROVE  /\ Cancelled' \/ \E j \in EndJobs' : DocOf(j) = d
                        /\ Kept(d.offer)' \/ Deleting'
      BY <2>3 DEF DocumentHasJob
    <3>1. Kept(d.offer)' \/ Deleting'
      BY <2>1, <2>2, <2>3 DEF Live, MatchInv, DocumentHasJob, EndDocs
    <3>2. ~Cancelled
      BY <2>1, <2>2 DEF Cancelled, InFlight
    <3>3. PICK j \in EndJobs : DocOf(j) = d
      BY <2>2, <3>2 DEF MatchInv, DocumentHasJob, EndDocs
    <3>4. CASE req[r].kind = "End"
      BY <2>1, <3>1, <3>4 DEF Cancelled
    <3>5. CASE req[r].kind # "End"
      BY <2>2, <2>3, <2>4, <3>1, <3>3, <3>5
    <3> QED BY <3>4, <3>5
  <2>9. OfferHasEnd' /\ CancelPhases'
    BY <2>1, <2>2, <2>4 DEF OfferHasEnd, CancelPhases, Cancelled, Unscheduled,
                            InFlight
  <2> QED BY <2>5, <2>6, <2>7, <2>8, <2>9 DEF MatchInv
<1>5. ASSUME CancelDropDoc(r) PROVE MatchInv'
  <2>1. /\ UNCHANGED <<offer, abandoned, up, registry, timers, saving, saved,
                       running, boot, now>>
        /\ InFlight(r) /\ req[r].pc = "drop" /\ req[r].kind \in Kinds
        /\ req[r].op \in {"update", "deleteMultiple"}
        /\ DeleteOneJobDoc(req[r].kind)
        /\ \A x \in Requests : x # r => req'[x] = req[x]
    BY <1>5 DEF CancelDropDoc, TypeOK, Request, InFlight, PromptInv, CallShape,
                Goto, Respond
  <2>2. /\ EndJobs = EndTimers /\ EndCalls = {} /\ saving = {} /\ saved = {}
        /\ \A x \in Requests : InFlight(x) => x = r
        /\ \A d \in jobDocs : ~Recovering(d) /\ ~Dropping(d)
        /\ up /\ boot.pc = "off" /\ boot.left = {} /\ running = {}
        /\ \A x \in Requests : req[x].pc # "set"
    BY <2>1, InFlightEnds
  <2>3. /\ EndTimers' = EndTimers /\ EndCalls' = {} /\ EndJobs' = EndTimers
        /\ jobDocs' \subseteq jobDocs
        /\ \A d \in jobDocs' : ~Recovering(d)' /\ ~Dropping(d)'
    BY <2>1, <2>2 DEF EndCalls, EndJobs, EndTimers, Recovering, Dropping,
                      DeleteOneJobDoc, DropJobDoc
  <2>4. IF req[r].kind = "End" THEN EndDocs' = {} ELSE EndDocs' = EndDocs
    <3>1. CASE req[r].kind = "End"
      BY <2>1, <3>1 DEF DeleteOneJobDoc, DropJobDoc, EndDocs, MatchInv, OneEnd
    <3>2. CASE req[r].kind = "Start"
      <4>1. \A d, e \in jobDocs : d.id = e.id => d = e
        BY DEF MatchInv, UniqueIds, DocsInUse
      <4> QED BY <2>1, <3>2, <4>1 DEF DeleteOneJobDoc, DropJobDoc, EndDocs
    <3> QED BY <2>1, <3>1, <3>2 DEF Kinds
  <2>5. (OneEnd /\ RegistryKnows)'
    BY <2>1, <2>3, <2>4, <2>2 DEF MatchInv, OneEnd, RegistryKnows
  <2>6. RecoveryAlone'
    BY <2>1, <2>2, <2>3 DEF RecoveryAlone, EndDocs
  <2>7. CASE req[r].kind = "Start"
    <3>1. /\ req'[r].pc = "cancel" /\ req'[r].kind = "End"
          /\ req'[r].op = req[r].op
      BY <1>5, <2>7 DEF CancelDropDoc, TypeOK, Request
    <3>2. /\ Deleting' = Deleting /\ ~Cancelled' /\ ~Cancelled /\ ~Unscheduled'
          /\ \A x \in Requests : req'[x].pc # "set"
      BY <2>1, <2>2, <2>7, <3>1 DEF Deleting, Cancelled, Unscheduled, InFlight
    <3>3. JobHasDocument'
      BY <2>1, <2>2, <2>3, <2>4, <2>7
         DEF MatchInv, JobHasDocument, EndDocs, EndTimers, DocOf
    <3>4. EndsAim'
      BY <2>1, <2>2, <2>3, <3>2 DEF MatchInv, EndsAim, Aims, Live
    <3>5. DocumentHasJob'
      <4>1. \A d \in EndDocs : /\ \E j \in EndJobs : DocOf(j) = d
                               /\ Kept(d.offer) \/ Deleting
        BY <2>2, <3>2 DEF MatchInv, DocumentHasJob, EndDocs
      <4> QED BY <2>1, <2>2, <2>3, <2>4, <2>7, <3>2, <4>1
              DEF DocumentHasJob, Live
    <3>6. CancelPhases' /\ OfferHasEnd'
      BY <3>1, <3>2 DEF CancelPhases, OfferHasEnd
    <3> QED BY <2>5, <2>6, <3>3, <3>4, <3>5, <3>6 DEF MatchInv
  <2>8. CASE req[r].kind = "End"
    <3>1. EndTimers = {} /\ EndDocs' = {}
      BY <2>1, <2>4, <2>8 DEF MatchInv, CancelPhases, Cancelled
    <3>2. \/ req[r].op = "update" /\ req'[r].pc = "schedule"
          \/ \A o \in Offers : ~Kept(o)
      <4>1. CASE req[r].op = "update"
        BY <1>5, <2>8, <4>1 DEF CancelDropDoc, Goto, TypeOK, Request
      <4>2. CASE req[r].op = "deleteMultiple"
        BY <2>1, <4>2 DEF PromptInv, CallShape
      <4> QED BY <2>1, <4>1, <4>2
    <3>3. OfferHasEnd'
      BY <2>1, <3>2 DEF OfferHasEnd, Live
    <3>4. (JobHasDocument /\ EndsAim /\ DocumentHasJob /\ CancelPhases)'
      BY <2>3, <3>1
         DEF JobHasDocument, EndsAim, DocumentHasJob, CancelPhases
    <3> QED BY <2>5, <2>6, <3>3, <3>4 DEF MatchInv
  <2> QED BY <2>1, <2>7, <2>8 DEF Kinds
<1>6. ASSUME UpdatePromoOfferFind(r) PROVE MatchInv'
  <2>1. /\ Quiet /\ Settled /\ up /\ UNCHANGED <<offer, abandoned>>
        /\ req'[r].pc = "cancel" /\ req'[r].op = "update"
        /\ \A x \in Requests : x # r => req'[x] = req[x]
    BY <1>6 DEF UpdatePromoOfferFind, MayStart, Prompt, TypeOK, Quiet
  <2>2. ~Cancelled' /\ ~Unscheduled' /\ \A x \in Requests : req'[x].pc # "set"
    BY <2>1, SettledEnds DEF Cancelled, Unscheduled
  <2>3. \A j \in EndJobs : (Kept(j.offer) /\ Aims(j.at, j.offer))'
    BY <2>1, <2>2, SettledEnds DEF Live, Aims
  <2>4. \A d \in EndDocs : Kept(d.offer)' /\ \E j \in EndJobs : DocOf(j) = d
    BY <2>1, SettledEnds DEF Live
  <2>5. (DocumentHasJob /\ EndsAim /\ CancelPhases /\ OfferHasEnd)'
    BY <1>1, <2>1, <2>2, <2>3, <2>4, SettledEnds
       DEF DocumentHasJob, EndsAim, CancelPhases, OfferHasEnd
  <2> QED BY <1>1, <2>1, <2>5 DEF MatchInv
<1>7. ASSUME SchedulePromoOffer(r) PROVE MatchInv'
  <2> DEFINE o == req[r].offer
             w == req[r].win
             jobs == JobsToSchedule(o, w)
             job(id, j) == [id |-> id[j], kind |-> j.kind, offer |-> j.offer,
                            at |-> j.at, by |-> "request"]
  <2>1. /\ o \in Offers /\ w \in Window /\ w.end > now /\ Live(o)
        /\ req[r].op \in {"add", "update"} /\ InFlight(r)
        /\ req[r].op = "add" => offer[o] = w
        /\ req[r].pc = "schedule"
        /\ UNCHANGED <<offer, jobDocs, up, registry, timers, saved, running,
                       boot, now>>
    <3>1. /\ req[r].pc = "schedule" /\ InFlight(r)
          /\ UNCHANGED <<offer, jobDocs, up, registry, timers, saved, running,
                         boot, now>>
      BY <1>7 DEF SchedulePromoOffer, InFlight
    <3>2. o \in Offers /\ w \in Window
      BY <3>1 DEF TypeOK, Request, RequestEndSubmitted, SubmittedEnds, UsesOffer
    <3>3. /\ w.end > now /\ Live(o) /\ req[r].op \in {"add", "update"}
          /\ req[r].op = "add" => offer[o] = w
      BY <1>0, <3>1, <3>2 DEF PromptInv, CallShape, Live
    <3> QED BY <3>1, <3>2, <3>3
  <2>2. PICK id \in [jobs -> JobIds \ IdsInUse] :
            saving' = saving \union {job(id, j) : j \in jobs}
    BY <1>7 DEF SchedulePromoOffer
  <2> DEFINE e == [kind |-> "End", offer |-> o, at |-> w.end]
             new == job(id, e)
  <2>3. e \in jobs /\ \A j \in jobs : j.kind = "End" => j = e
    BY <1>0, <2>1 DEF JobsToSchedule
  <2>4. /\ EndTimers = {} /\ EndDocs = {} /\ saving = {} /\ saved = {}
        /\ EndJobs = {} /\ EndCalls = {}
        /\ up /\ boot.pc = "off" /\ boot.left = {} /\ running = {}
        /\ \A x \in Requests : InFlight(x) => x = r
    BY <2>1, InFlightEnds DEF MatchInv, CancelPhases, Unscheduled
  <2>5. o \notin abandoned'
    <3>1. jobs # {}
      BY <2>3
    <3> HIDE DEF e
    <3> QED BY <1>7, <3>1 DEF SchedulePromoOffer
  <2>6. new \in saving' /\ \A j \in saving' : j.kind = "End" => j = new
    <3> HIDE DEF jobs, e
    <3> QED BY <2>2, <2>3, <2>4
  <2>7. new.kind = "End" /\ new.offer = o /\ new.at = w.end
    OBVIOUS
  <2> HIDE DEF jobs, e, new
  <2>8. /\ EndTimers' = {} /\ EndDocs' = {} /\ EndCalls' = {}
        /\ EndJobs' = {new}
    BY <2>1, <2>4, <2>6, <2>7 DEF EndTimers, EndDocs, EndCalls, EndJobs
  <2>9. (RecoveryAlone /\ OneEnd /\ JobHasDocument /\ DocumentHasJob)'
    BY <2>1, <2>4, <2>6, <2>8
       DEF RecoveryAlone, OneEnd, JobHasDocument, DocumentHasJob
  <2>10. RegistryKnows' /\ CancelPhases'
    BY <2>1, <2>8 DEF MatchInv, RegistryKnows, CancelPhases
  <2>11. OfferHasEnd'
    BY <2>1, <2>7, <2>8 DEF OfferHasEnd, Live, PromptInv, OneAtATime,
                            SingleDocument
  <2>12. EndsAim'
    BY <2>1, <2>6, <2>7, <2>8, <2>5 DEF EndsAim, Live, PromptInv,
       SavesAim
  <2> QED BY <2>9, <2>10, <2>11, <2>12 DEF MatchInv
<1>8. ASSUME UpdatePromoOfferSet(r) PROVE MatchInv'
  <2> DEFINE o == req[r].offer
             w == req[r].win
  <2>1. /\ o \in Offers /\ w \in Window /\ Live(o) /\ InFlight(r)
        /\ Quiet /\ req[r].pc = "set"
        /\ \A x \in Offers : Live(x) => x = o
        /\ \A x \in Requests : InFlight(x) => x = r
        /\ ~Deleting /\ ~Cancelled /\ EndCalls = {}
        /\ \A d \in jobDocs : ~Recovering(d) /\ ~Dropping(d)
    <3>1. InFlight(r) /\ req[r].pc = "set" /\ Quiet
      BY <1>8 DEF UpdatePromoOfferSet, InFlight, Quiet
    <3>2. /\ o \in Offers /\ w \in Window /\ Live(o) /\ req[r].op = "update"
          /\ \A x \in Offers : Live(x) => x = o
      BY <3>1 DEF TypeOK, Request, SubmittedEnds, RequestEndSubmitted,
                  UsesOffer, PromptInv, OneAtATime, SingleDocument, CallShape
    <3> QED BY <3>1, <3>2, InFlightEnds DEF Deleting, Cancelled, InFlight
  <2>2. /\ \A x \in Requests : req'[x] = IF x = r THEN Answered ELSE req[x]
        /\ \A x \in Offers : offer'[x] = IF x = o THEN w ELSE offer[x]
        /\ UNCHANGED abandoned
    BY <1>8, <2>1 DEF UpdatePromoOfferSet, SetWindow, Respond, TypeOK
  <2>3. /\ \A x \in Requests : req'[x].pc \in {"idle", "answered"}
        /\ \A x \in Offers : Live(x)' <=> x = o
    BY <1>0, <2>1, <2>2 DEF InFlight, Live
  <2>4. \A j \in EndJobs : j.offer = o /\ j.at = w.end /\ o \notin abandoned
    <3>1. \A j \in EndJobs : j.offer \in Offers
      BY DEF EndJobs, TypeOK, Job
    <3>2. \A j \in EndJobs : Kept(j.offer) /\ Aims(j.at, j.offer)
      BY <2>1 DEF MatchInv, EndsAim
    <3> QED BY <2>1, <3>1, <3>2 DEF Aims, InFlight
  <2>5. EndsAim'
    BY <1>1, <2>1, <2>2, <2>3, <2>4 DEF EndsAim, Aims
  <2>6. DocumentHasJob'
    <3>1. \A d \in EndDocs : /\ Kept(d.offer) /\ d.offer \in Offers
                             /\ \E j \in EndJobs : DocOf(j) = d
      BY <2>1 DEF MatchInv, DocumentHasJob, EndDocs, TypeOK, JobDoc
    <3> QED BY <1>1, <2>1, <2>2, <2>3, <3>1 DEF DocumentHasJob
  <2>7. OfferHasEnd'
    <3>1. Kept(o) => \E j \in EndJobs : j.offer = o
      BY <2>1 DEF MatchInv, OfferHasEnd, InFlight, EndDocs
    <3> QED BY <1>1, <2>1, <2>2, <2>3, <3>1 DEF OfferHasEnd
  <2>8. CancelPhases'
    BY <2>3 DEF CancelPhases, Cancelled, Unscheduled
  <2> QED BY <1>1, <2>1, <2>5, <2>6, <2>7, <2>8 DEF MatchInv
<1>9. ASSUME DeleteMultiplePromoOffer(r) PROVE MatchInv'
  <2>1. /\ Quiet /\ Settled /\ up
        /\ req'[r].pc = "cancel" /\ req'[r].op = "deleteMultiple"
        /\ \A x \in Requests : x # r => req'[x] = req[x]
    BY <1>9, RequestTypes DEF DeleteMultiplePromoOffer, MayStart, Prompt,
                              TypeOK, Quiet, Request
  <2>2. \A o \in Offers : ~Kept(o)'
    BY <2>1 DEF PromptInv, CallShape, InFlight
  <2>3. Deleting' /\ ~Cancelled' /\ ~Unscheduled'
    BY <2>1, SettledEnds DEF Deleting, Cancelled, Unscheduled, InFlight
  <2>4. /\ EndCalls = {}
        /\ \A d \in EndDocs : \E j \in EndJobs : DocOf(j) = d
    BY <2>1, SettledEnds
  <2>5. (DocumentHasJob /\ EndsAim /\ CancelPhases /\ OfferHasEnd)'
    BY <1>1, <2>1, <2>2, <2>3, <2>4
       DEF DocumentHasJob, EndsAim, CancelPhases, OfferHasEnd
  <2> QED BY <1>1, <2>1, <2>5 DEF MatchInv
<1>10. ASSUME \/ InsertManyPromoOfferStart(r) \/ InsertManyPromoOffer(r)
              \/ UpdateMultiplePromoOffer(r) \/ DeletePromoOffer(r)
              \/ RequestFails(r)
       PROVE  FALSE
  BY <1>10 DEF InsertManyPromoOfferStart, InsertManyPromoOffer,
               UpdateMultiplePromoOffer, DeletePromoOffer, RequestFails,
               MayStart, Prompt, PromptInv, CallShape, InFlight
<1> QED
  BY <1>2, <1>3, <1>4, <1>5, <1>6, <1>7, <1>8, <1>9, <1>10
  DEF RequestStart, RequestStep

\* Background saves, timers and callbacks keep them matched.
LEMMA MatchJobs ==
    ASSUME Prompt, TypeOK, TypeOK', SubmittedEnds, PromptInv, PromptInv',
           MatchInv, UniqueIds', ScheduleStep \/ JobStep
    PROVE  MatchInv'
<1> USE DEF dbVars, scheduleVars, jobVars, envVars, obsVars, Kept
<1>0. /\ \A k \in Kinds : registry[k] # NoJob => registry[k].kind = k
      /\ \A d : Live(d) <=> offer[d] # NoOffer
      /\ now \in Nat
  BY ConstantsAssumption DEF MatchInv, RegistryKnows, Live, TypeOK, Times
<1>1. ASSUME NEW j \in saving, SaveJob(j) PROVE MatchInv'
  <2>1. /\ UNCHANGED <<offer, abandoned, up, registry, timers, running, req,
                       boot, now>>
        /\ jobDocs' = jobDocs \union {DocOf(j)}
        /\ saving' = saving \ {j} /\ saved' = saved \union {j}
        /\ up /\ boot.pc = "off" /\ boot.left = {} /\ running = {}
    BY <1>1 DEF SaveJob, PromptInv, BusyIsPrompt, Busy, DownIsEmpty
  <2>2. /\ EndJobs' = EndJobs /\ EndCalls' = EndCalls /\ EndTimers' = EndTimers
        /\ \A d : Recovering(d)' = Recovering(d) /\ Dropping(d)' = Dropping(d)
        /\ \A d \in jobDocs' : ~Recovering(d) /\ ~Dropping(d)
        /\ Deleting' = Deleting /\ Cancelled' = Cancelled
        /\ Unscheduled' = Unscheduled
    BY <2>1 DEF EndJobs, EndCalls, EndTimers, Recovering, Dropping, Deleting,
                Cancelled, Unscheduled, InFlight
  <2>3. EndCalls = {} /\ ~Deleting /\ ~Unscheduled /\ ~Cancelled
    BY <1>1, <2>1 DEF EndCalls, Deleting, Unscheduled, Cancelled, InFlight,
                      PromptInv, BusyIsPrompt, CallShape
  <2>4. RecoveryAlone'
    BY <2>1, <2>2 DEF RecoveryAlone, EndDocs
  <2>5. EndsAim' /\ OfferHasEnd' /\ RegistryKnows' /\ CancelPhases'
    <3>1. EndsAim'
      BY <2>1, <2>2 DEF MatchInv, EndsAim, Live, Aims
    <3>2. OfferHasEnd'
      BY <2>1, <2>2 DEF MatchInv, OfferHasEnd, Live, EndDocs
    <3>3. RegistryKnows' /\ CancelPhases'
      BY <2>1, <2>2, <2>3 DEF MatchInv, RegistryKnows, CancelPhases
    <3> QED BY <3>1, <3>2, <3>3
  <2>6. CASE j.kind = "Start"
    <3>1. EndDocs' = EndDocs
      BY <2>1, <2>6 DEF EndDocs, DocOf
    <3>2. OneEnd'
      BY <2>2, <3>1 DEF MatchInv, OneEnd
    <3>3. JobHasDocument'
      BY <2>1, <2>2, <2>3, <2>6, <3>1 DEF MatchInv, JobHasDocument, EndJobs
    <3>4. DocumentHasJob'
      BY <2>1, <2>2, <3>1 DEF MatchInv, DocumentHasJob, Live
    <3> QED BY <2>4, <2>5, <3>2, <3>3, <3>4 DEF MatchInv
  <2>7. CASE j.kind = "End"
    <3>1. j \in EndJobs /\ \A i \in EndJobs : i = j
      BY <2>7 DEF EndJobs, MatchInv, OneEnd
    <3>2. EndDocs' = {DocOf(j)}
      <4>1. EndDocs = {} /\ DocOf(j).kind = "End"
        BY <1>1, <2>7, <3>1 DEF MatchInv, JobHasDocument, DocOf
      <4> QED BY <2>1, <4>1 DEF EndDocs
    <3>3. OneEnd'
      BY <2>2, <2>3, <3>1, <3>2 DEF OneEnd
    <3>4. JobHasDocument'
      BY <2>1, <2>2, <2>3, <3>1 DEF JobHasDocument
    <3>5. DocumentHasJob'
      <4>1. Kept(j.offer)
        BY <2>3, <3>1 DEF MatchInv, EndsAim
      <4>2. DocOf(j).offer = j.offer
        BY DEF DocOf
      <4> QED BY <2>1, <2>2, <3>1, <3>2, <4>1, <4>2 DEF DocumentHasJob, Live
    <3> QED BY <2>4, <2>5, <3>3, <3>4, <3>5 DEF MatchInv
  <2> QED BY <2>6, <2>7 DEF TypeOK, Job, Kinds
<1>2. ASSUME NEW j \in saved, AddOfferSchedule(j) PROVE MatchInv'
  <2>1. j.at > now /\ j.at \in Nat
    BY ConstantsAssumption DEF PromptInv, BusyIsPrompt, Busy, TypeOK, Job, Times
  <2>2. /\ UNCHANGED <<offer, abandoned, jobDocs, up, saving, running, req,
                       boot, now>>
        /\ registry' = [registry EXCEPT ![j.kind] = j]
        /\ timers' = timers \union {j} /\ saved' = saved \ {j}
        /\ up /\ boot.pc = "off" /\ boot.left = {} /\ running = {}
    BY <1>0, <1>2, <2>1 DEF AddOfferSchedule, ScheduleJob, PromptInv,
                            BusyIsPrompt, Busy, DownIsEmpty
  <2>3. /\ EndJobs' = EndJobs /\ EndCalls' = EndCalls /\ EndDocs' = EndDocs
        /\ \A d : Recovering(d)' = Recovering(d) /\ Dropping(d)' = Dropping(d)
        /\ \A d \in jobDocs' : ~Recovering(d) /\ ~Dropping(d)
        /\ Deleting' = Deleting /\ Cancelled' = Cancelled
        /\ Unscheduled' = Unscheduled
    BY <2>2 DEF EndJobs, EndCalls, EndDocs, Recovering, Dropping, Deleting,
                Cancelled, Unscheduled, InFlight
  <2>4. ~Unscheduled /\ ~Cancelled
    BY <1>2 DEF Unscheduled, Cancelled, InFlight, PromptInv, BusyIsPrompt
  <2>5. RecoveryAlone' /\ OneEnd' /\ JobHasDocument'
    BY <2>2, <2>3
       DEF MatchInv, RecoveryAlone, OneEnd, JobHasDocument, EndDocs
  <2>6. EndsAim' /\ DocumentHasJob' /\ OfferHasEnd'
    BY <2>2, <2>3 DEF MatchInv, EndsAim, DocumentHasJob, OfferHasEnd, Live,
                      Aims, EndDocs
  <2>7. RegistryKnows'
    <3>1. \A k \in Kinds : registry'[k] = NoJob \/ registry'[k].kind = k
      BY <1>0, <2>2 DEF TypeOK
    <3>2. \A t \in EndTimers' : registry'["End"] = t
      <4>1. CASE j.kind = "End"
        <5>1. \A t \in EndTimers' : t = j
          BY <2>2, <4>1 DEF EndTimers, EndJobs, MatchInv, OneEnd
        <5> QED BY <2>2, <4>1, <5>1 DEF TypeOK, Kinds
      <4>2. CASE j.kind # "End"
        <5>1. EndTimers' = EndTimers
          BY <2>2, <4>2 DEF EndTimers
        <5> QED BY <2>2, <4>2, <5>1 DEF MatchInv, RegistryKnows, TypeOK, Kinds
      <4> QED BY <4>1, <4>2
    <3> QED BY <3>1, <3>2 DEF RegistryKnows
  <2> QED BY <2>3, <2>4, <2>5, <2>6, <2>7 DEF MatchInv, CancelPhases
<1>3. ASSUME NEW t \in timers, FireJob(t) PROVE MatchInv'
  <2>1. /\ UNCHANGED <<offer, abandoned, jobDocs, up, saving, saved, req, boot,
                       now>>
        /\ registry' = [registry EXCEPT ![t.kind] = NoJob]
        /\ timers' = timers \ {t}
        /\ running' = running \union {[job |-> t, next |-> "dropJob"]}
        /\ t.at \in Nat /\ t.at <= now /\ t \in Job /\ t.kind \in Kinds
    BY <1>3, ConstantsAssumption DEF FireJob, TypeOK, Job, Times
  <2>2. /\ ~Busy /\ up /\ boot.pc = "off" /\ boot.left = {}
    BY <1>0, <1>3, <2>1 DEF PromptInv, BusyIsPrompt, DownIsEmpty, MatchInv,
                            RecoveryAlone
  <2>3. /\ saving = {} /\ saved = {} /\ \A x \in Requests : ~InFlight(x)
        /\ ~Deleting /\ ~Cancelled /\ ~Unscheduled
        /\ ~Deleting' /\ ~Cancelled' /\ ~Unscheduled'
        /\ \A d : ~Recovering(d) /\ ~Dropping(d)
        /\ \A d : ~Recovering(d)' /\ ~Dropping(d)'
    BY <2>1, <2>2 DEF Busy, Deleting, Cancelled, Unscheduled, InFlight,
                      Recovering, Dropping
  <2>4. EndDocs' = EndDocs /\ EndJobs = EndTimers /\ EndJobs' = EndTimers'
    BY <2>1, <2>3 DEF EndDocs, EndJobs, EndTimers
  <2>5. RecoveryAlone' /\ CancelPhases'
    BY <2>1, <2>2, <2>3 DEF RecoveryAlone, CancelPhases, EndDocs
  <2>6. CASE t.kind = "Start"
    <3>1. EndTimers' = EndTimers
      BY <2>1, <2>6 DEF EndTimers
    <3>2. EndCalls' = EndCalls
      BY <2>1, <2>6 DEF EndCalls
    <3>3. OneEnd' /\ JobHasDocument'
      BY <2>1, <2>4, <3>1, <3>2 DEF MatchInv, OneEnd, JobHasDocument
    <3>4. DocumentHasJob' /\ EndsAim'
      BY <2>1, <2>3, <2>4, <3>1, <3>2
         DEF MatchInv, DocumentHasJob, EndsAim, Aims, Live
    <3>5. OfferHasEnd'
      BY <2>1, <2>3, <2>4, <3>1, <3>2 DEF MatchInv, OfferHasEnd, Live, InFlight
    <3>6. RegistryKnows'
      BY <1>0, <2>1, <2>6, <3>1 DEF MatchInv, RegistryKnows, TypeOK, Kinds
    <3> QED BY <2>5, <3>3, <3>4, <3>5, <3>6 DEF MatchInv
  <2>7. CASE t.kind = "End"
    <3> DEFINE b == [job |-> t, next |-> "dropJob"]
    <3>1. t \in EndJobs
      BY <2>4, <2>7 DEF EndTimers
    <3>2. /\ \A i \in EndJobs : i = t
          /\ EndCalls = {}
          /\ DocOf(t) \in jobDocs /\ \A d \in EndDocs : d = DocOf(t)
      <4>1. (\A i \in EndJobs : i = t) /\ EndCalls = {}
        BY <3>1 DEF MatchInv, OneEnd
      <4>2. DocOf(t) \in jobDocs /\ DocOf(t) \in EndDocs
        BY <2>3, <2>7, <3>1 DEF MatchInv, JobHasDocument, EndDocs, DocOf
      <4> QED BY <4>1, <4>2 DEF MatchInv, OneEnd
    <3>3. Kept(t.offer) /\ offer[t.offer].end = t.at
      BY <2>3, <3>1 DEF MatchInv, EndsAim, Aims, InFlight
    <3>4. b.job = t /\ b.next = "dropJob"
      OBVIOUS
    <3>5. EndCalls' = {b} /\ EndTimers' = {} /\ EndJobs' = {}
      <4> HIDE DEF b
      <4>1. running' = running \union {b}
        BY <2>1 DEF b
      <4>2. EndTimers' = {}
        BY <2>1, <2>4, <3>2 DEF EndTimers
      <4> QED BY <2>4, <2>7, <3>2, <3>4, <4>1, <4>2 DEF EndCalls
    <3> HIDE DEF b
    <3>6. OneEnd' /\ JobHasDocument'
      BY <2>1, <2>4, <3>2, <3>4, <3>5 DEF MatchInv, OneEnd, JobHasDocument
    <3>7. EndsAim'
      BY <2>1, <3>3, <3>4, <3>5 DEF EndsAim, Live
    <3>8. DocumentHasJob'
      <4>1. \A d \in EndDocs : Kept(d.offer)
        BY <2>3 DEF MatchInv, DocumentHasJob
      <4> QED BY <2>1, <2>4, <3>2, <3>4, <3>5, <4>1 DEF DocumentHasJob, Live
    <3>9. OfferHasEnd'
      <4>1. \A o \in Offers : Live(o) => o = t.offer
        BY <2>1, <3>3 DEF PromptInv, OneAtATime, SingleDocument, Job
      <4> QED BY <2>1, <3>4, <3>5, <4>1 DEF OfferHasEnd, Live
    <3>10. RegistryKnows'
      BY <1>0, <2>1, <3>5 DEF RegistryKnows, TypeOK
    <3> QED BY <2>5, <3>6, <3>7, <3>8, <3>9, <3>10 DEF MatchInv
  <2> QED BY <2>1, <2>6, <2>7 DEF Kinds
<1>4. ASSUME NEW c \in running, CallbackDropJob(c) PROVE MatchInv'
  <2>1. /\ UNCHANGED <<offer, abandoned, up, registry, timers, saving, saved,
                       req, boot, now>>
        /\ c.next = "dropJob" /\ c.job.kind \in Kinds
        /\ jobDocs' = {d \in jobDocs : d.id # c.job.id}
        /\ running' = (running \ {c}) \union
                      (IF c.job.kind = "End"
                       THEN {[job |-> c.job, next |-> "dropOffer"]} ELSE {})
    BY <1>4 DEF CallbackDropJob, DropJobDoc, TypeOK, Callback, Job
  <2>2. /\ ~Busy /\ up /\ boot.pc = "off" /\ boot.left = {}
    BY <1>4 DEF PromptInv, BusyIsPrompt, DownIsEmpty, MatchInv, RecoveryAlone
  <2>3. /\ saving = {} /\ saved = {} /\ \A x \in Requests : ~InFlight(x)
        /\ ~Deleting /\ ~Cancelled /\ ~Unscheduled
        /\ ~Deleting' /\ ~Cancelled' /\ ~Unscheduled'
        /\ \A d : ~Recovering(d) /\ ~Dropping(d)
        /\ \A d : ~Recovering(d)' /\ ~Dropping(d)'
    BY <2>1, <2>2 DEF Busy, Deleting, Cancelled, Unscheduled, InFlight,
                      Recovering, Dropping
  <2>4. EndJobs' = EndJobs /\ EndTimers' = EndTimers
    BY <2>1 DEF EndJobs, EndTimers
  <2>5. RecoveryAlone' /\ CancelPhases' /\ RegistryKnows'
    BY <2>1, <2>2, <2>3, <2>4
       DEF MatchInv, RecoveryAlone, CancelPhases, EndDocs, RegistryKnows
  <2>6. CASE c.job.kind = "Start"
    <3>1. \A d \in jobDocs : d.id = c.job.id => d = DocOf(c.job)
      <4>1. DocOf(c.job) \in DocsInUse /\ jobDocs \subseteq DocsInUse
        BY <1>4 DEF DocsInUse
      <4>2. DocOf(c.job).id = c.job.id
        BY DEF DocOf
      <4> QED BY <4>1, <4>2 DEF MatchInv, UniqueIds
    <3>2. EndDocs' = EndDocs
      BY <2>1, <2>6, <3>1 DEF EndDocs, DocOf
    <3>3. EndCalls' = EndCalls
      BY <2>1, <2>6 DEF EndCalls
    <3>4. OneEnd'
      BY <2>4, <3>2, <3>3 DEF MatchInv, OneEnd
    <3>5. JobHasDocument'
      <4>1. \A j : DocOf(j) \in EndDocs <=> (DocOf(j) \in jobDocs /\ j.kind = "End")
        BY DEF EndDocs, DocOf
      <4>2. \A j : DocOf(j) \in jobDocs /\ j.kind = "End" => DocOf(j) \in jobDocs'
        BY <3>2, <4>1 DEF EndDocs
      <4> QED BY <2>1, <2>3, <2>4, <3>2, <3>3, <4>2
              DEF MatchInv, JobHasDocument, EndJobs, EndCalls
    <3>6. DocumentHasJob' /\ EndsAim'
      BY <2>1, <2>3, <2>4, <3>2, <3>3
         DEF MatchInv, DocumentHasJob, EndsAim, Aims, Live
    <3>7. OfferHasEnd'
      BY <2>1, <2>3, <2>4, <3>2, <3>3
         DEF MatchInv, OfferHasEnd, Live, InFlight
    <3> QED BY <2>5, <3>4, <3>5, <3>6, <3>7 DEF MatchInv
  <2>7. CASE c.job.kind = "End"
    <3> DEFINE b == [job |-> c.job, next |-> "dropOffer"]
    <3>1. c \in EndCalls
      BY <1>4, <2>7 DEF EndCalls
    <3>2. /\ \A a \in EndCalls : a = c
          /\ EndJobs = {} /\ Kept(c.job.offer)
          /\ offer[c.job.offer].end <= now
          /\ DocOf(c.job) \in jobDocs
      BY <2>1, <3>1 DEF MatchInv, OneEnd, EndsAim, JobHasDocument
    <3>3. b.job = c.job /\ b.next = "dropOffer"
      OBVIOUS
    <3>4. EndCalls' = {b}
      <4> HIDE DEF b
      <4>1. running' = (running \ {c}) \union {b}
        BY <2>1, <2>7 DEF b
      <4> QED BY <2>7, <3>2, <3>3, <4>1 DEF EndCalls
    <3> HIDE DEF b
    <3>5. EndDocs' = {}
      <4>1. DocOf(c.job) \in EndDocs /\ DocOf(c.job).id = c.job.id
        BY <2>7, <3>2 DEF EndDocs, DocOf
      <4> QED BY <2>1, <4>1 DEF EndDocs, MatchInv, OneEnd
    <3>6. /\ (OneEnd /\ JobHasDocument)'
          /\ (DocumentHasJob /\ EndsAim)'
      BY <2>1, <2>4, <3>2, <3>3, <3>4, <3>5
         DEF OneEnd, JobHasDocument, DocumentHasJob, EndsAim, Live
    <3>7. OfferHasEnd'
      <4>1. \A o \in Offers : Live(o) => o = c.job.offer
        BY <3>2 DEF PromptInv, OneAtATime, SingleDocument, TypeOK, Callback, Job
      <4> QED BY <2>1, <3>3, <3>4, <4>1 DEF OfferHasEnd, Live
    <3> QED BY <2>5, <3>6, <3>7 DEF MatchInv
  <2> QED BY <2>1, <2>6, <2>7 DEF Kinds
<1>5. ASSUME NEW c \in running, CallbackDropOffer(c) PROVE MatchInv'
  <2>1. /\ UNCHANGED <<jobDocs, up, registry, timers, saving, saved, req, boot,
                       now>>
        /\ c.next = "dropOffer" /\ c \in EndCalls
        /\ running' = running \ {c}
        /\ \A o \in Offers : Live(o)' => Live(o) /\ o # c.job.offer
    BY <1>5 DEF CallbackDropOffer, RemoveOffers, SubmittedEnds, CallbackDue,
                EndCalls, Live
  <2>2. /\ ~Busy /\ up /\ boot.pc = "off" /\ boot.left = {}
    BY <1>5 DEF PromptInv, BusyIsPrompt, DownIsEmpty, MatchInv, RecoveryAlone
  <2>3. /\ \A a \in EndCalls : a = c
        /\ EndJobs = {} /\ EndDocs = {} /\ Live(c.job.offer)
    BY <2>1 DEF MatchInv, OneEnd, EndsAim, JobHasDocument
  <2>4. EndJobs' = {} /\ EndTimers' = {} /\ EndDocs' = {} /\ EndCalls' = {}
    BY <2>1, <2>3 DEF EndJobs, EndTimers, EndDocs, EndCalls
  <2>5. \A o \in Offers : ~Live(o)'
    BY <2>1, <2>3 DEF PromptInv, OneAtATime, SingleDocument, TypeOK, Callback,
                      Job
  <2>6. RecoveryAlone'
    BY <2>1, <2>2, <2>4 DEF RecoveryAlone
  <2>7. (OneEnd /\ JobHasDocument /\ DocumentHasJob /\ EndsAim)'
    BY <2>4 DEF OneEnd, JobHasDocument, DocumentHasJob, EndsAim
  <2>8. (OfferHasEnd /\ RegistryKnows /\ CancelPhases)'
    BY <2>1, <2>4, <2>5 DEF OfferHasEnd, MatchInv, RegistryKnows, CancelPhases
  <2> QED BY <2>6, <2>7, <2>8 DEF MatchInv
<1> QED BY <1>1, <1>2, <1>3, <1>4, <1>5 DEF ScheduleStep, JobStep

\* The recovery, a clean stop and the clock keep them matched.
LEMMA MatchRecovery ==
    ASSUME Prompt, ~DirtyStops, TypeOK, TypeOK', SubmittedEnds, PromptInv,
           PromptInv', MatchInv, UniqueIds',
           BootStep \/ StartProcess \/ Crash \/ Tick \/ UNCHANGED vars
    PROVE  MatchInv'
<1> USE DEF dbVars, scheduleVars, jobVars, envVars, obsVars, Kept
<1>0. /\ \A k \in Kinds : registry[k] # NoJob => registry[k].kind = k
      /\ now \in Nat
  BY ConstantsAssumption DEF MatchInv, RegistryKnows, TypeOK, Times
<1> DEFINE Still == UNCHANGED <<offer, abandoned, up, registry, timers, saving,
                                saved, running, req, now>>
<1>1. ASSUME boot.pc # "off"
      PROVE  /\ up /\ ~Busy /\ saving = {} /\ saved = {} /\ running = {}
             /\ \A t \in timers : t.at > now
             /\ EndJobs = EndTimers /\ EndCalls = {}
             /\ ~Deleting /\ ~Cancelled /\ ~Unscheduled
             /\ \A x \in Requests : req[x].pc \in {"idle", "answered"}
  BY <1>1 DEF PromptInv, BusyIsPrompt, Busy, MatchInv, RecoveryAlone, EndJobs,
              EndTimers, EndCalls, Deleting, Cancelled, Unscheduled, InFlight
<1>2. ASSUME Still
      PROVE  /\ EndJobs' = EndJobs /\ EndCalls' = EndCalls
             /\ EndTimers' = EndTimers /\ RegistryKnows' /\ EndsAim'
             /\ Deleting' = Deleting /\ Cancelled' = Cancelled
             /\ Unscheduled' = Unscheduled
             /\ \A d : Live(d)' = Live(d)
             /\ UNCHANGED abandoned
  <2>1. /\ EndJobs' = EndJobs /\ EndCalls' = EndCalls
        /\ EndTimers' = EndTimers
        /\ Deleting' = Deleting /\ Cancelled' = Cancelled
        /\ Unscheduled' = Unscheduled
        /\ \A d : Live(d)' = Live(d)
        /\ UNCHANGED abandoned
    BY <1>2 DEF EndJobs, EndCalls, EndTimers, Deleting, Cancelled, Unscheduled,
                InFlight, Live
  <2>2. RegistryKnows' /\ EndsAim'
    BY <1>2, <2>1 DEF MatchInv, RegistryKnows, EndsAim, Aims
  <2> QED BY <2>1, <2>2
<1> HIDE DEF Still
<1>3. ASSUME BootFind PROVE MatchInv'
  <2>1. /\ Still /\ jobDocs' = jobDocs /\ boot.pc = "find"
        /\ boot'.pc = "next" /\ boot'.left = jobDocs /\ boot'.doc = NoJob
    BY <1>3 DEF BootFind, BootDone, Still
  <2>2. /\ EndDocs' = EndDocs /\ EndDocs \subseteq jobDocs
        /\ \A d : Recovering(d) /\ ~Dropping(d) /\ ~Dropping(d)'
        /\ \A d \in jobDocs : Recovering(d)'
    BY <2>1 DEF EndDocs, Recovering, Dropping
  <2>3. RecoveryAlone'
    <3>1. NoJob \notin jobDocs
      BY ConstantsAssumption DEF TypeOK
    <3> QED BY <1>1, <1>2, <2>1, <2>2, <3>1 DEF MatchInv, RecoveryAlone, Still
  <2>4. OneEnd' /\ JobHasDocument'
    BY <1>2, <2>1, <2>2 DEF MatchInv, OneEnd, JobHasDocument, Still
  <2>5. DocumentHasJob' /\ OfferHasEnd' /\ CancelPhases'
    BY <1>2, <2>1, <2>2
       DEF MatchInv, DocumentHasJob, OfferHasEnd, CancelPhases, Still
  <2> QED BY <1>2, <2>1, <2>3, <2>4, <2>5 DEF MatchInv
<1>4. ASSUME BootNext PROVE MatchInv'
  <2>1. /\ Still /\ jobDocs' = jobDocs /\ boot.pc = "next"
    BY <1>4 DEF BootNext, Still
  <2>2. PICK d \in boot.left :
            boot' = IF Live(d.offer)
                    THEN [boot EXCEPT !.pc = "decide", !.left = @ \ {d},
                                      !.doc = d, !.win = offer[d.offer]]
                    ELSE [boot EXCEPT !.left = @ \ {d}]
    BY <1>4 DEF BootNext
  <2>3. /\ boot'.left = boot.left \ {d} /\ d \in jobDocs
        /\ Live(d.offer) => boot'.pc = "decide" /\ boot'.doc = d
        /\ ~Live(d.offer) => boot'.pc = "next" /\ boot'.doc = boot.doc
    BY <2>1, <2>2 DEF TypeOK, Boot, MatchInv, RecoveryAlone
  <2>4. ~Live(d.offer) => d \notin EndDocs
    BY <1>1, <2>1 DEF MatchInv, DocumentHasJob, Dropping
  <2>5. /\ EndDocs' = EndDocs
        /\ \A e \in EndDocs : Recovering(e)' = Recovering(e)
        /\ \A e : ~Dropping(e) /\ ~Dropping(e)'
    BY <1>1, <2>1, <2>3, <2>4 DEF EndDocs, Recovering, Dropping, Still
  <2>6. RecoveryAlone'
    BY <1>1, <1>2, <2>1, <2>3, <2>5 DEF MatchInv, RecoveryAlone, Still
  <2>7. OneEnd' /\ JobHasDocument'
    BY <1>2, <2>1, <2>5 DEF MatchInv, OneEnd, JobHasDocument, Still
  <2>8. DocumentHasJob' /\ OfferHasEnd' /\ CancelPhases'
    BY <1>2, <2>1, <2>5
       DEF MatchInv, DocumentHasJob, OfferHasEnd, CancelPhases, Still
  <2> QED BY <1>2, <2>1, <2>6, <2>7, <2>8 DEF MatchInv
<1>5. ASSUME BootEnd PROVE MatchInv'
  <2>1. /\ Still /\ jobDocs' = jobDocs /\ boot.pc = "next" /\ boot.left = {}
        /\ boot'.pc = "off" /\ boot'.left = {} /\ boot'.doc = NoJob
    BY <1>5 DEF BootEnd, BootDone, Still
  <2>2. /\ EndDocs' = EndDocs
        /\ \A e : ~Recovering(e) /\ ~Recovering(e)'
        /\ \A e : ~Dropping(e) /\ ~Dropping(e)'
    BY <1>1, <2>1 DEF EndDocs, Recovering, Dropping, Still
  <2>3. RecoveryAlone'
    BY <2>1, <2>2 DEF RecoveryAlone
  <2>4. OneEnd' /\ JobHasDocument'
    BY <1>2, <2>1, <2>2 DEF MatchInv, OneEnd, JobHasDocument, Still
  <2>5. DocumentHasJob' /\ OfferHasEnd' /\ CancelPhases'
    BY <1>2, <2>1, <2>2
       DEF MatchInv, DocumentHasJob, OfferHasEnd, CancelPhases, Still
  <2> QED BY <1>2, <2>1, <2>3, <2>4, <2>5 DEF MatchInv
<1>6. ASSUME BootArm PROVE MatchInv'
  <2> DEFINE j == [id |-> boot.doc.id, kind |-> boot.doc.kind,
                   offer |-> boot.doc.offer, at |-> BootAt, by |-> "boot"]
             d == boot.doc
  <2>1. /\ UNCHANGED <<offer, abandoned, jobDocs, up, saving, saved, running,
                       req, now>>
        /\ boot.pc = "decide" /\ boot'.pc = "next" /\ boot'.left = boot.left
        /\ boot'.doc = NoJob
        /\ timers' = timers \union {j} /\ j.at > now
        /\ registry' = [registry EXCEPT ![d.kind] = j]
    <3>1. BootAt > now /\ BootAt \in Nat
      BY <1>6, WindowType, ConstantsAssumption
         DEF BootArm, BootAt, TypeOK, Boot, Times
    <3> QED BY <1>0, <1>6, <3>1 DEF BootArm, ScheduleJob, BackToNext, BootDone
  <2>2. d \in JobDoc /\ d \in jobDocs /\ d \notin boot.left /\ d.kind \in Kinds
    BY <2>1 DEF SubmittedEnds, BootEndSubmitted, MatchInv, RecoveryAlone, JobDoc
  <2>3. DocOf(j) = d /\ j.kind = d.kind /\ j.offer = d.offer /\ j.at = BootAt
    BY <2>2 DEF DocOf, JobDoc
  <2> HIDE DEF j
  <2>4. /\ EndDocs' = EndDocs /\ EndCalls' = {} /\ EndJobs' = EndTimers'
        /\ \A e : ~Dropping(e) /\ ~Dropping(e)'
        /\ \A e : Recovering(e)' <=> e \in boot.left
        /\ \A e : Recovering(e) <=> e \in boot.left \/ e = d
        /\ ~Deleting' /\ ~Cancelled' /\ ~Unscheduled'
    BY <1>1, <2>1 DEF EndDocs, EndCalls, EndJobs, EndTimers, Dropping,
                      Recovering, Deleting, Cancelled, Unscheduled, InFlight
  <2>5. /\ boot'.pc # "off" => up' /\ running' = {}
                               /\ \A t \in timers' : t.at > now'
        /\ \A e \in boot'.left : e \in jobDocs' /\ e # boot'.doc
        /\ boot'.pc \notin {"decide", "dropOffer", "dropJob"}
    <3>1. NoJob \notin jobDocs
      BY ConstantsAssumption DEF TypeOK
    <3> QED BY <1>1, <2>1, <3>1 DEF MatchInv, RecoveryAlone
  <2>6. CASE d.kind = "End"
    <3>1. d \in EndDocs /\ \A e \in EndDocs : e = d
      BY <2>2, <2>6 DEF EndDocs, MatchInv, OneEnd
    <3>2. EndJobs = {}
      BY <2>4, <3>1 DEF MatchInv, RecoveryAlone
    <3>3. EndTimers' = {j}
      BY <1>1, <2>1, <2>3, <2>6, <3>2 DEF EndTimers
    <3>4. Kept(d.offer)
      BY <1>1, <2>1, <2>4, <3>1 DEF MatchInv, DocumentHasJob
    <3>5. j.at = offer[d.offer].end
      BY <2>1, <2>3, <2>6, <3>4 DEF BootAt, PromptInv, BootWindow
    <3>6. RecoveryAlone'
      BY <2>2, <2>4, <2>5, <3>1 DEF RecoveryAlone
    <3>7. OneEnd'
      BY <2>4, <3>1, <3>3 DEF OneEnd
    <3>8. JobHasDocument'
      BY <1>1, <2>1, <2>2, <2>3, <2>4, <3>3 DEF JobHasDocument
    <3>9. DocumentHasJob'
      BY <2>1, <2>3, <2>4, <3>1, <3>3, <3>4 DEF DocumentHasJob, Live
    <3>10. EndsAim'
      BY <1>1, <2>1, <2>3, <2>4, <3>3, <3>4, <3>5 DEF EndsAim, Live, Aims
    <3>11. OfferHasEnd'
      <4>1. d.offer \in Offers /\ \A o \in Offers : Live(o) => o = d.offer
        BY <2>2, <3>4 DEF PromptInv, OneAtATime, SingleDocument, JobDoc
      <4> QED BY <2>1, <2>3, <2>4, <3>3, <4>1 DEF OfferHasEnd, Live
    <3>12. RegistryKnows'
      BY <1>0, <2>1, <2>3, <2>6, <3>3 DEF RegistryKnows, TypeOK, Kinds
    <3> QED BY <2>4, <3>6, <3>7, <3>8, <3>9, <3>10, <3>11, <3>12
            DEF MatchInv, CancelPhases
  <2>7. CASE d.kind = "Start"
    <3>1. EndTimers' = EndTimers /\ d \notin EndDocs
      BY <2>1, <2>3, <2>7 DEF EndTimers, EndDocs
    <3>2. \A e \in EndDocs : Recovering(e)' <=> Recovering(e)
      BY <2>4, <3>1
    <3>3. RecoveryAlone'
      BY <1>1, <2>1, <2>4, <2>5, <3>1, <3>2 DEF MatchInv, RecoveryAlone
    <3>4. OneEnd' /\ JobHasDocument'
      BY <1>1, <2>1, <2>4, <3>1 DEF MatchInv, OneEnd, JobHasDocument
    <3>5. DocumentHasJob' /\ EndsAim'
      BY <1>1, <2>1, <2>4, <3>1, <3>2
         DEF MatchInv, DocumentHasJob, EndsAim, Live, Aims
    <3>6. OfferHasEnd'
      BY <1>1, <2>1, <2>4, <3>1, <3>2 DEF MatchInv, OfferHasEnd, Live
    <3>7. RegistryKnows'
      BY <1>0, <2>1, <2>3, <2>7, <3>1
         DEF MatchInv, RegistryKnows, TypeOK, Kinds
    <3> QED BY <2>4, <3>3, <3>4, <3>5, <3>6, <3>7 DEF MatchInv, CancelPhases
  <2> QED BY <2>2, <2>6, <2>7 DEF Kinds
<1>7. ASSUME BootOverdue PROVE MatchInv'
  <2>1. /\ Still /\ jobDocs' = jobDocs /\ boot.pc = "decide"
        /\ boot'.left = boot.left /\ boot'.doc = boot.doc
        /\ IF boot.doc.kind = "Start" THEN boot'.pc = "dropJob"
                                      ELSE boot'.pc = "dropOffer"
    BY <1>7 DEF BootOverdue, Still, TypeOK, Boot
  <2>2. /\ EndDocs' = EndDocs
        /\ \A e \in EndDocs : Recovering(e)' <=> Recovering(e)
        /\ \A e \in EndDocs : ~Dropping(e) /\ ~Dropping(e)'
        /\ boot.doc.kind \in Kinds
    BY <1>1, <2>1 DEF EndDocs, Recovering, Dropping, Still, JobDoc,
                      SubmittedEnds, BootEndSubmitted
  <2>3. RecoveryAlone'
    BY <1>1, <1>2, <2>1, <2>2 DEF Kinds, MatchInv, RecoveryAlone, Still
  <2>4. OneEnd' /\ JobHasDocument'
    BY <1>2, <2>1, <2>2 DEF MatchInv, OneEnd, JobHasDocument, Still
  <2>5. DocumentHasJob' /\ OfferHasEnd' /\ CancelPhases'
    BY <1>2, <2>1, <2>2
       DEF MatchInv, DocumentHasJob, OfferHasEnd, CancelPhases, Still
  <2> QED BY <1>2, <2>1, <2>3, <2>4, <2>5 DEF MatchInv
<1>8. ASSUME BootDropOffer PROVE MatchInv'
  <2> DEFINE d == boot.doc
  <2>1. /\ UNCHANGED <<jobDocs, up, registry, timers, saving, saved, running,
                       req, now>>
        /\ boot.pc = "dropOffer"
        /\ boot'.left = boot.left /\ boot'.doc = d /\ boot'.pc = "dropJob"
        /\ \A o \in Offers : Live(o)' => Live(o) /\ o # d.offer
    BY <1>8 DEF BootDropOffer, RemoveOffers, TypeOK, Boot, Live
  <2>2. /\ d \in EndDocs /\ d.offer \in Offers /\ \A e \in EndDocs : e = d
    BY <2>1 DEF SubmittedEnds, BootEndSubmitted, JobDoc, MatchInv, RecoveryAlone,
                OneEnd, EndDocs
  <2>3. /\ EndDocs' = EndDocs /\ EndTimers' = EndTimers /\ EndJobs' = EndJobs
        /\ EndCalls' = {}
        /\ Recovering(d) /\ ~Dropping(d) /\ \A e \in {d} : Dropping(e)'
    BY <1>1, <2>1 DEF EndDocs, EndTimers, EndJobs, EndCalls, Recovering,
                      Dropping
  <2>4. EndJobs = {} /\ Live(d.offer)
    BY <1>1, <2>1, <2>2, <2>3 DEF MatchInv, RecoveryAlone, DocumentHasJob
  <2>5. \A o \in Offers : ~Live(o)'
    BY <2>1, <2>2, <2>4 DEF PromptInv, OneAtATime, SingleDocument
  <2>6. RecoveryAlone'
    BY <1>1, <2>1, <2>2, <2>3, <2>4 DEF MatchInv, RecoveryAlone, EndDocs
  <2>7. OneEnd' /\ JobHasDocument' /\ EndsAim' /\ RegistryKnows'
    BY <2>1, <2>3, <2>4
       DEF MatchInv, OneEnd, JobHasDocument, EndsAim, RegistryKnows
  <2>8. DocumentHasJob' /\ OfferHasEnd'
    BY <2>2, <2>3, <2>5 DEF DocumentHasJob, OfferHasEnd
  <2>9. CancelPhases'
    BY <1>1, <2>1 DEF CancelPhases, Cancelled, Unscheduled
  <2> QED BY <2>6, <2>7, <2>8, <2>9 DEF MatchInv
<1>9. ASSUME BootDropJob PROVE MatchInv'
  <2> DEFINE d == boot.doc
  <2>1. /\ Still /\ boot.pc = "dropJob"
        /\ boot'.left = boot.left /\ boot'.doc = NoJob /\ boot'.pc = "next"
        /\ jobDocs' = {e \in jobDocs : e.id # d.id}
    BY <1>9 DEF BootDropJob, BackToNext, BootDone, DropJobDoc, Still
  <2>2. /\ d \in jobDocs /\ d \notin boot.left
        /\ jobDocs' = jobDocs \ {d} /\ EndDocs' = EndDocs \ {d}
    <3>1. d \in jobDocs /\ d \notin boot.left
      BY <2>1 DEF MatchInv, RecoveryAlone
    <3>2. \A e \in jobDocs : e.id = d.id => e = d
      BY <3>1 DEF MatchInv, UniqueIds, DocsInUse
    <3> QED BY <2>1, <3>1, <3>2 DEF EndDocs
  <2>3. /\ \A e : Recovering(e)' <=> Recovering(e)
        /\ \A e : ~Dropping(e)' /\ (Dropping(e) <=> e = d)
    BY <1>1, <2>1 DEF Recovering, Dropping, Still
  <2>4. d \in EndDocs => EndJobs = {}
    BY <2>3 DEF MatchInv, RecoveryAlone
  <2>5. RecoveryAlone'
    <3>1. NoJob \notin jobDocs
      BY ConstantsAssumption DEF TypeOK
    <3> QED BY <1>1, <1>2, <2>1, <2>2, <2>3, <3>1
            DEF MatchInv, RecoveryAlone, Still
  <2>6. OneEnd'
    BY <1>2, <2>1, <2>2 DEF MatchInv, OneEnd
  <2>7. JobHasDocument'
    <3>1. \A j \in EndJobs : DocOf(j) # d
      BY <2>2, <2>4 DEF EndJobs, EndDocs, DocOf
    <3> QED BY <1>1, <1>2, <2>1, <2>2, <3>1
            DEF MatchInv, JobHasDocument, Still
  <2>8. DocumentHasJob' /\ OfferHasEnd' /\ CancelPhases'
    <3>1. DocumentHasJob'
      BY <1>1, <1>2, <2>1, <2>2, <2>3 DEF MatchInv, DocumentHasJob, EndDocs
    <3>2. ~Recovering(d)
      BY <1>1, <2>1, <2>2 DEF Recovering
    <3>3. OfferHasEnd'
      BY <1>2, <2>1, <2>2, <2>3, <3>2 DEF MatchInv, OfferHasEnd, Still
    <3>4. CancelPhases'
      BY <1>1, <1>2, <2>1 DEF CancelPhases
    <3> QED BY <3>1, <3>3, <3>4
  <2> QED BY <1>2, <2>1, <2>5, <2>6, <2>7, <2>8 DEF MatchInv
<1>10. ASSUME StartProcess PROVE MatchInv'
  <2>1. /\ UNCHANGED <<offer, abandoned, jobDocs, registry, timers, saving,
                       saved, running, req, now>>
        /\ ~up /\ up' /\ boot'.pc = "find" /\ boot'.left = {}
        /\ timers = {} /\ running = {} /\ saving = {} /\ saved = {}
        /\ \A x \in Requests : ~InFlight(x)
        /\ boot.pc = "off"
    BY <1>10 DEF StartProcess, BootDone, PromptInv, DownIsEmpty, Busy
  <2>2. /\ EndDocs' = EndDocs /\ EndTimers' = {} /\ EndJobs' = {}
        /\ EndCalls' = {} /\ EndJobs = {} /\ EndCalls = {}
        /\ \A e : Recovering(e)' /\ ~Dropping(e)
        /\ ~Deleting /\ ~Cancelled' /\ ~Unscheduled'
        /\ \A x \in Requests :
              req[x].pc \notin {"cancel", "drop", "schedule"}
    BY <2>1 DEF EndDocs, EndTimers, EndJobs, EndCalls, Recovering, Dropping,
                Deleting, Cancelled, Unscheduled, InFlight
  <2>3. RecoveryAlone'
    BY <2>1, <2>2 DEF RecoveryAlone
  <2>4. OneEnd' /\ JobHasDocument' /\ EndsAim' /\ RegistryKnows'
    BY <2>1, <2>2
       DEF MatchInv, OneEnd, JobHasDocument, EndsAim, RegistryKnows
  <2>5. DocumentHasJob' /\ OfferHasEnd' /\ CancelPhases'
    BY <2>1, <2>2
       DEF MatchInv, DocumentHasJob, OfferHasEnd, CancelPhases, Live
  <2> QED BY <2>3, <2>4, <2>5 DEF MatchInv
<1>11. ASSUME Crash PROVE MatchInv'
  <2>1. /\ Settled /\ up /\ ~up'
        /\ UNCHANGED <<offer, abandoned, jobDocs, now>>
        /\ timers' = {} /\ saving' = {} /\ saved' = {} /\ running' = {}
        /\ boot'.pc = "off" /\ boot'.left = {} /\ boot'.doc = NoJob
        /\ registry' = [k \in Kinds |-> NoJob]
        /\ req' = req
    <3>1. Settled
      BY <1>11 DEF Crash
    <3>2. req' = [r \in Requests |-> req[r]]
      BY <1>11, <3>1 DEF Crash, Settled
    <3> QED BY <1>11, <3>1, <3>2 DEF Crash, BootDone, TypeOK
  <2>2. /\ EndDocs' = EndDocs /\ EndTimers' = {} /\ EndJobs' = {}
        /\ EndCalls' = {}
        /\ \A e : Recovering(e)'
        /\ ~Cancelled' /\ ~Unscheduled'
    BY <2>1, SettledEnds DEF EndDocs, EndTimers, EndJobs, EndCalls, Recovering,
                             Cancelled, Unscheduled
  <2>3. RecoveryAlone' /\ JobHasDocument' /\ EndsAim' /\ RegistryKnows'
    BY <2>1, <2>2 DEF RecoveryAlone, JobHasDocument, EndsAim, RegistryKnows
  <2>4. OneEnd' /\ CancelPhases'
    BY <2>2 DEF MatchInv, OneEnd, CancelPhases
  <2>5. DocumentHasJob'
    BY <2>1, <2>2, SettledEnds DEF DocumentHasJob, Live
  <2>6. OfferHasEnd'
    <3>1. \A j : DocOf(j).offer = j.offer
      BY DEF DocOf
    <3> QED BY <2>1, <2>2, <3>1, SettledEnds DEF OfferHasEnd, Live
  <2> QED BY <2>3, <2>4, <2>5, <2>6 DEF MatchInv
<1>12. ASSUME Tick PROVE MatchInv'
  <2>1. /\ UNCHANGED <<offer, abandoned, jobDocs, up, registry, timers, saving,
                       saved, running, req, boot>>
        /\ now' = now + 1 /\ boot.pc = "off"
    BY <1>12 DEF Tick, Prompt, Settled, MatchInv, RecoveryAlone
  <2>2. /\ EndDocs' = EndDocs /\ EndTimers' = EndTimers /\ EndJobs' = EndJobs
        /\ EndCalls' = EndCalls
        /\ \A d : /\ Recovering(d)' <=> Recovering(d)
                  /\ Dropping(d)' <=> Dropping(d)
        /\ Deleting' <=> Deleting
        /\ Cancelled' <=> Cancelled
        /\ Unscheduled' <=> Unscheduled
    BY <2>1 DEF EndDocs, EndTimers, EndJobs, EndCalls, Recovering, Dropping,
                Deleting, Cancelled, Unscheduled, InFlight
  <2>3. RecoveryAlone' /\ OneEnd' /\ JobHasDocument'
    BY <2>1, <2>2 DEF MatchInv, RecoveryAlone, OneEnd, JobHasDocument
  <2>4. DocumentHasJob' /\ OfferHasEnd' /\ RegistryKnows' /\ CancelPhases'
    BY <2>1, <2>2 DEF MatchInv, DocumentHasJob, OfferHasEnd, RegistryKnows,
                      CancelPhases, Live
  <2>5. EndsAim'
    <3>1. \A c \in EndCalls : offer[c.job.offer].end <= now + 1
      <4> SUFFICES ASSUME NEW c \in EndCalls
                   PROVE  offer[c.job.offer].end <= now + 1
        OBVIOUS
      <4>1. /\ Live(c.job.offer) /\ offer[c.job.offer].end <= now
            /\ c.job.offer \in Offers
        BY DEF MatchInv, EndsAim, EndCalls, TypeOK, Callback, Job
      <4>2. offer[c.job.offer].end \in Nat
        BY <4>1, WindowType, ConstantsAssumption DEF TypeOK, Live, Times
      <4> QED BY <1>0, <4>1, <4>2
    <3> QED BY <2>1, <2>2, <3>1 DEF MatchInv, EndsAim, Live, Aims
  <2> QED BY <2>3, <2>4, <2>5 DEF MatchInv
<1>13. CASE UNCHANGED vars
  BY <1>13
  DEF vars, MatchInv, RecoveryAlone, OneEnd, JobHasDocument, DocumentHasJob,
      EndsAim, OfferHasEnd, RegistryKnows, CancelPhases, EndDocs, EndTimers,
      EndJobs, EndCalls, Recovering, Dropping, Deleting, Cancelled, Unscheduled,
      InFlight, Live, Aims
<1> QED
  BY <1>3, <1>4, <1>5, <1>6, <1>7, <1>8, <1>9, <1>10, <1>11, <1>12, <1>13
  DEF BootStep

\* Nothing is stored or armed at the first start.
LEMMA MatchInit == Init => MatchInv
<1> SUFFICES ASSUME Init PROVE MatchInv
  OBVIOUS
<1>1. /\ EndDocs = {} /\ EndJobs = {} /\ EndCalls = {} /\ EndTimers = {}
      /\ DocsInUse = {} /\ boot.pc = "off" /\ boot.left = {}
      /\ ~Cancelled /\ ~Unscheduled /\ \A o \in Offers : ~Live(o)
  BY BootTypes DEF Init, EndDocs, EndJobs, EndCalls, EndTimers, DocsInUse,
                   BootDone, Cancelled, Unscheduled, IdleRequest, Live
<1> QED
  BY <1>1 DEF Init, MatchInv, RecoveryAlone, OneEnd, JobHasDocument, Kept,
              DocumentHasJob, EndsAim, OfferHasEnd, RegistryKnows,
              CancelPhases, UniqueIds

\* Every step of a prompt process that stops cleanly keeps them matched.
LEMMA MatchNext ==
    ASSUME Prompt, ~DirtyStops, Ops \subseteq {"add", "update", "deleteMultiple"},
           TypeOK, SubmittedEnds, PromptInv, MatchInv, [Next]_vars
    PROVE  MatchInv'
<1>1. TypeOK' /\ PromptInv' /\ UniqueIds'
  BY TypeOKNext, PromptNext, UniqueIdsNext DEF MatchInv
<1> QED BY <1>1, MatchCall, MatchJobs, MatchRecovery DEF Next

\* In every reachable state of a prompt process that stops cleanly, the calls,
\* documents, timers and callbacks are as the invariants say.
LEMMA MatchInvariant ==
    ASSUME Prompt, ~DirtyStops, Ops \subseteq {"add", "update", "deleteMultiple"}
    PROVE  Spec => [](TypeOK /\ SubmittedEnds /\ PromptInv /\ MatchInv)
<1>1. Init => PromptInv /\ MatchInv
  BY PromptInit, MatchInit
<1>2. /\ TypeOK /\ SubmittedEnds /\ PromptInv /\ MatchInv /\ [Next]_vars
      => (PromptInv /\ MatchInv)'
  BY PromptNext, MatchNext
<1> QED BY <1>1, <1>2, Invariance, PTL DEF Spec

\* On a prompt server with clean stops, whenever nothing is on its way the
\* armed end jobs are exactly those the windows of the kept offers call for,
\* and each has its document: adding, updating, deleting any ids, firing and
\* recovering all leave it so.  An offer whose jobs a deletion of other ids
\* has cancelled has no end job until an update schedules one.
THEOREM EndJobsMatchOffersAlways ==
    ASSUME Prompt, ~DirtyStops, Ops \subseteq {"add", "update", "deleteMultiple"}
    PROVE  Spec => []EndJobsMatchOffers
<1>1. TypeOK /\ PromptInv /\ MatchInv => EndJobsMatchOffers
  <2> SUFFICES ASSUME TypeOK, PromptInv, MatchInv, up, Settled
               PROVE  /\ {<<t.offer, t.at>> : t \in EndTimers}
                           = {<<o, offer[o].end>> :
                                o \in {x \in Offers : Kept(x)}}
                      /\ {DocOf(t) : t \in EndTimers} = EndDocs
    BY DEF EndJobsMatchOffers
  <2>1. /\ EndJobs = EndTimers
        /\ \A t \in EndTimers : /\ t.offer \in Offers /\ Kept(t.offer)
                                /\ t.at = offer[t.offer].end
                                /\ DocOf(t) \in EndDocs
        /\ \A d \in EndDocs : \E t \in EndTimers : DocOf(t) = d
        /\ \A o \in Offers : Kept(o) => \E t \in EndTimers : t.offer = o
    BY SettledEnds DEF EndJobs, EndTimers, TypeOK, Job
  <2> QED BY <2>1
<1> QED BY <1>1, MatchInvariant, PTL

\* On a prompt server with clean stops the scheduler never ends an offer before
\* its stored end: no timer and no recovery step of a replaced window is left.
THEOREM NeverEndedEarlyAlways ==
    ASSUME Prompt, ~DirtyStops, Ops \subseteq {"add", "update", "deleteMultiple"}
    PROVE  Spec => NeverEndedEarly
<1> DEFINE Early == \E o \in Offers : /\ fate[o] = "live" /\ fate'[o] = "expired"
                                      /\ ~(offer[o].end <= now)
<1>1. TypeOK /\ SubmittedEnds /\ PromptInv /\ MatchInv /\ [Next]_vars => ~Early
  <2> SUFFICES ASSUME TypeOK, SubmittedEnds, PromptInv, MatchInv, [Next]_vars,
                      NEW o \in Offers, fate[o] = "live", fate'[o] = "expired"
               PROVE  offer[o].end <= now
    OBVIOUS
  <2> USE DEF dbVars, scheduleVars, jobVars, envVars, obsVars
  <2>1. Live(o)
    BY DEF SubmittedEnds, FateMatchesStore
  <2>2. ASSUME NEW c \in running, CallbackDropOffer(c) PROVE offer[o].end <= now
    <3>1. c \in EndCalls /\ o = c.job.offer
      BY <2>2 DEF CallbackDropOffer, RemoveOffers, SubmittedEnds, CallbackDue,
                  EndCalls
    <3> QED BY <3>1 DEF MatchInv, EndsAim
  <2>3. ASSUME BootDropOffer PROVE offer[o].end <= now
    <3>1. boot.pc = "dropOffer" /\ o = boot.doc.offer
      BY <2>3 DEF BootDropOffer, RemoveOffers
    <3> QED BY <2>1, <3>1
            DEF SubmittedEnds, BootEndSubmitted, PromptInv, BootWindow
  <2>4. ASSUME NEW r \in Requests, RequestStart(r) PROVE FALSE
    BY <2>4 DEF RequestStart, AddPromoOfferCheck, InsertManyPromoOfferStart,
                UpdatePromoOfferFind, UpdateMultiplePromoOffer,
                DeletePromoOffer, DeleteMultiplePromoOffer, RemoveOffers
  <2>5. ASSUME NEW r \in Requests, RequestStep(r) \/ RequestFails(r) PROVE FALSE
    BY <2>5 DEF RequestStep, AddPromoOfferSave, InsertManyPromoOffer,
                InsertOffers, CancelJob, CancelDropDoc, SchedulePromoOffer,
                UpdatePromoOfferSet, RequestFails
  <2>6. CASE ScheduleStep \/ \E t \in timers : FireJob(t)
    BY <2>6 DEF ScheduleStep, SaveJob, AddOfferSchedule, FireJob
  <2>7. ASSUME NEW c \in running, CallbackDropJob(c) PROVE FALSE
    BY <2>7 DEF CallbackDropJob
  <2>8. CASE \/ BootFind \/ BootNext \/ BootEnd \/ BootArm \/ BootOverdue
             \/ BootDropJob
    BY <2>8 DEF BootFind, BootNext, BootEnd, BootArm, BootOverdue, BootDropJob
  <2>9. CASE StartProcess \/ Crash \/ Tick \/ UNCHANGED vars
    BY <2>9 DEF StartProcess, Crash, Tick, vars
  <2> QED
    BY <2>2, <2>3, <2>4, <2>5, <2>6, <2>7, <2>8, <2>9 DEF Next, JobStep, BootStep
<1>2. ~Early <=> \A o \in Offers : fate[o] = "live" /\ fate'[o] = "expired"
                                     => offer[o].end <= now
  OBVIOUS
<1> HIDE DEF Early
<1>3. [Next]_vars /\ ~Early
      => [\A o \in Offers : fate[o] = "live" /\ fate'[o] = "expired"
                               => offer[o].end <= now]_vars
  BY <1>2
<1> QED BY <1>1, <1>3, MatchInvariant, PTL DEF Spec, NeverEndedEarly
==============================================================================
