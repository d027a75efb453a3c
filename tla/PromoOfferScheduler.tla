------------------------- MODULE PromoOfferScheduler -------------------------
(***************************************************************************)
(* Promotional offers and the jobs that end them: PromoOfferService        *)
(* (pages/offers/promo-offer), JobSchedulerService (shared/job-scheduler)  *)
(* and the node-schedule registry they share.                              *)
(*                                                                         *)
(* A handler is a sequence of awaited database calls; other handlers,      *)
(* timers and the crash of the process come between any two of them.  Each *)
(* action is the code from one database call, as the database executes it, *)
(* to the next.  The clock counts seconds, the unit of getDateDifference.  *)
(***************************************************************************)
EXTENDS Naturals

CONSTANTS
    Offers,         \* ids a promo offer may get
    JobIds,         \* ids of the job documents alive at one time
    Requests,       \* administrator calls that may be in flight together
    Endless,        \* an answered call makes room for another one
    MaxTime,        \* the clock stops here
    MaxCrashes,     \* how often the process may stop
    Starts,         \* the start times administrators submit
    Ops,            \* the operations the administrators use
    Serial,         \* one call at a time, finished within its second
    ValidWindows,   \* only future, ordered windows are submitted
    DirtyStops,     \* the process may stop with work in flight
    CallsFail,      \* a request's database call may fail
    NoOffer, NoJob  \* "there is none"

AllOps == {"add", "insertMany", "update", "updateMultiple",
           "delete", "deleteMultiple"}
Kinds  == {"Start", "End"}
Times  == 0..MaxTime
Window == [start: Times, end: Times]
NoWindow == [start |-> 0, end |-> 0]

\* A scheduled job: the closure that addOfferScheduleOnStart/End hands to
\* node-schedule; "by" tells a request's closure from reAddScheduler's.
Job == [id: JobIds, kind: Kinds, offer: Offers, at: Times,
        by: {"request", "boot"}]
JobDoc == [id: JobIds, kind: Kinds, offer: Offers]
DocOf(j) == [id |-> j.id, kind |-> j.kind, offer |-> j.offer]

ASSUME ConstantsAssumption ==
    /\ MaxTime \in Nat
    /\ MaxCrashes \in Nat
    /\ Starts \subseteq Times
    /\ Ops \subseteq AllOps
    /\ Endless \in BOOLEAN
    /\ Serial \in BOOLEAN
    /\ ValidWindows \in BOOLEAN
    /\ DirtyStops \in BOOLEAN
    /\ CallsFail \in BOOLEAN
    /\ NoOffer \notin Offers \union Window
    /\ NoJob \notin Job \union JobDoc

VARIABLES
    \* The database, which survives a crash.
    offer,      \* promooffers: the window of each document, or NoOffer
    jobDocs,    \* jobschedulers: the persisted jobs
    \* The process.
    up,         \* the process runs
    registry,   \* node-schedule's scheduledJobs: the last job of each name
    timers,     \* node-schedule's armed invocations
    saving,     \* addOfferScheduleOn* calls awaiting save()
    saved,      \* the same calls after save(), before scheduleJob
    running,    \* job callbacks in flight, with their next database call
    req,        \* the administrators' calls
    boot,       \* the reAddScheduler call
    \* The environment.
    now, crashes,
    \* Observation only: what became of each id, which ends it was given, and
    \* the offers whose jobs a deletion of other ids has cancelled.
    fate, requested, abandoned

dbVars      == <<offer, jobDocs>>
scheduleVars == <<registry, timers>>
jobVars     == <<saving, saved, running>>
envVars     == <<now, crashes>>
obsVars     == <<fate, requested, abandoned>>
vars == <<offer, jobDocs, up, registry, timers, saving, saved, running, req,
          boot, now, crashes, fate, requested, abandoned>>

\* A call in flight: where it is, and the arguments it will still use.
RequestPcs == {"idle", "answered", "save", "insert", "cancel", "drop",
               "schedule", "set"}
Request == [pc: RequestPcs, op: AllOps \union {"none"}, kind: Kinds,
            offer: Offers \union {NoOffer}, win: Window]
IdleRequest == [pc |-> "idle", op |-> "none", kind |-> "Start",
                offer |-> NoOffer, win |-> NoWindow]
Answered == [IdleRequest EXCEPT !.pc = IF Endless THEN "idle" ELSE "answered"]

\* reAddScheduler: the documents left, the one in hand and its offer's window.
BootPcs == {"off", "find", "next", "decide", "dropOffer", "dropJob"}
Boot == [pc: BootPcs, left: SUBSET JobDoc, doc: JobDoc \union {NoJob},
         win: Window]
BootDone == [pc |-> "off", left |-> {}, doc |-> NoJob, win |-> NoWindow]

\* A job callback in flight, with its next database call.
Callback == [job: Job, next: {"dropJob", "dropOffer"}]

TypeOK ==
    /\ offer \in [Offers -> Window \union {NoOffer}]
    /\ jobDocs \subseteq JobDoc
    /\ up \in BOOLEAN
    /\ registry \in [Kinds -> Job \union {NoJob}]
    /\ timers \subseteq Job
    /\ saving \subseteq Job
    /\ saved \subseteq Job
    /\ running \subseteq Callback
    /\ req \in [Requests -> Request]
    /\ boot \in Boot
    /\ now \in Times
    /\ crashes \in 0..MaxCrashes
    /\ fate \in [Offers -> {"unborn", "live", "deleted", "expired"}]
    /\ requested \in [Offers -> SUBSET Times]
    /\ abandoned \subseteq Offers

Init ==
    /\ offer = [o \in Offers |-> NoOffer]
    /\ jobDocs = {}
    /\ up = FALSE
    /\ registry = [k \in Kinds |-> NoJob]
    /\ timers = {}
    /\ saving = {}
    /\ saved = {}
    /\ running = {}
    /\ req = [r \in Requests |-> IdleRequest]
    /\ boot = BootDone
    /\ now = 0
    /\ crashes = 0
    /\ fate = [o \in Offers |-> "unborn"]
    /\ requested = [o \in Offers |-> {}]
    /\ abandoned = {}

(***************************************************************************)
(* What the environment may do, and when                                   *)
(***************************************************************************)
Live(o) == offer[o] # NoOffer

\* Offer o is stored, and its jobs were not cancelled under it.
Kept(o) == Live(o) /\ o \notin abandoned
InFlight(r) == req[r].pc \notin {"idle", "answered"}

\* Nothing is in flight and no timer is due.
Settled ==
    /\ \A r \in Requests : ~InFlight(r)
    /\ saving = {} /\ saved = {} /\ running = {}
    /\ boot.pc = "off"
    /\ \A t \in timers : t.at > now

\* An administrator may submit w.
Submittable(w) ==
    /\ w.start \in Starts
    /\ ValidWindows => now < w.end /\ w.start <= w.end

\* Request r may start operation op.
MayStart(r, op) ==
    /\ up
    /\ op \in Ops
    /\ req[r].pc = "idle"
    /\ Serial => Settled

Goto(r, pc) == req' = [req EXCEPT ![r].pc = pc]
Respond(r)  == req' = [req EXCEPT ![r] = Answered]

IdsInUse == {d.id : d \in jobDocs \union saving \union saved \union timers}
            \union {c.job.id : c \in running}
            \union {d.id : d \in boot.left}
            \union (IF boot.doc = NoJob THEN {} ELSE {boot.doc.id})

(***************************************************************************)
(* Removing documents                                                      *)
(***************************************************************************)
\* The offers S leave the collection; those that were there meet end f.
RemoveOffers(S, f) ==
    /\ offer' = [o \in Offers |-> IF o \in S THEN NoOffer ELSE offer[o]]
    /\ fate' = [o \in Offers |-> IF o \in S /\ Live(o) THEN f ELSE fate[o]]
    /\ UNCHANGED requested

DropJobDoc(id) == jobDocs' = {d \in jobDocs : d.id # id}

\* New documents for the windows W, a function from fresh ids.
InsertOffers(W) ==
    /\ \A o \in DOMAIN W : fate[o] = "unborn"
    /\ offer' = [o \in Offers |-> IF o \in DOMAIN W THEN W[o] ELSE offer[o]]
    /\ fate' = [o \in Offers |-> IF o \in DOMAIN W THEN "live" ELSE fate[o]]
    /\ requested' = [o \in Offers |-> IF o \in DOMAIN W
                                      THEN requested[o] \union {W[o].end}
                                      ELSE requested[o]]
    /\ UNCHANGED abandoned

(***************************************************************************)
(* addPromoOffer                                                           *)
(***************************************************************************)
\* findOne() found no document; with one, the call returns and changes nothing.
AddPromoOfferCheck(r) ==
    /\ MayStart(r, "add")
    /\ \A o \in Offers : ~Live(o)
    /\ \E w \in Window :
          /\ Submittable(w)
          /\ req' = [req EXCEPT ![r] = [IdleRequest EXCEPT
                          !.pc = "save", !.op = "add", !.win = w]]
    /\ UNCHANGED <<dbVars, up, scheduleVars, jobVars, boot, envVars, obsVars>>

\* newData.save()
AddPromoOfferSave(r) ==
    /\ req[r].pc = "save"
    /\ \E o \in Offers :
          /\ InsertOffers([x \in {o} |-> req[r].win])
          /\ req' = [req EXCEPT ![r] = [@ EXCEPT !.pc = "schedule",
                                                  !.offer = o]]
    /\ UNCHANGED <<jobDocs, up, scheduleVars, jobVars, boot, envVars>>

(***************************************************************************)
(* insertManyPromoOffer: no job is scheduled                               *)
(***************************************************************************)
\* Without the deleteMany option the call goes straight to insertMany.
InsertManyPromoOfferStart(r) ==
    /\ MayStart(r, "insertMany")
    /\ req' = [req EXCEPT ![r] = [IdleRequest EXCEPT !.pc = "insert",
                                                     !.op = "insertMany"]]
    /\ \/ RemoveOffers(Offers, "deleted")
       \/ UNCHANGED <<offer, fate, requested>>
    /\ UNCHANGED <<jobDocs, up, scheduleVars, jobVars, boot, envVars,
                   abandoned>>

InsertManyPromoOffer(r) ==
    /\ req[r].pc = "insert"
    /\ \E S \in SUBSET Offers : \E W \in [S -> Window] :
          /\ \A o \in S : Submittable(W[o])
          /\ InsertOffers(W)
    /\ Respond(r)
    /\ UNCHANGED <<jobDocs, up, scheduleVars, jobVars, boot, envVars>>

(***************************************************************************)
(* cancelOfferJobScheduler, called for the start name, then the end name   *)
(***************************************************************************)
\* Mutant of CancelJob: the name is forgotten, the timer goes on.
CancelJobForgets(r) ==
    /\ req[r].pc = "cancel"
    /\ registry' = [registry EXCEPT ![req[r].kind] = NoJob]
    /\ Goto(r, "drop")
    /\ UNCHANGED <<dbVars, up, timers, jobVars, boot, envVars, obsVars>>

\* schedule.cancelJob(name): only the job the registry holds is cancelled.
CancelJob(r) ==
    LET k == req[r].kind IN
    /\ req[r].pc = "cancel"
    /\ timers' = timers \ {registry[k]}
    /\ registry' = [registry EXCEPT ![k] = NoJob]
    /\ Goto(r, "drop")
    /\ UNCHANGED <<dbVars, up, jobVars, boot, envVars, obsVars>>

\* jobSchedulerModel.deleteOne({collectionName, name}): some document of that
\* name goes, whichever offer it belongs to.
DeleteOneJobDoc(k) ==
    \/ \E d \in jobDocs : d.kind = k /\ DropJobDoc(d.id)
    \/ (\A d \in jobDocs : d.kind # k) /\ UNCHANGED jobDocs

CancelDropDoc(r) ==
    /\ req[r].pc = "drop"
    /\ DeleteOneJobDoc(req[r].kind)
    /\ CASE req[r].kind = "Start" ->
               req' = [req EXCEPT ![r].pc = "cancel", ![r].kind = "End"]
         [] req[r].kind = "End" /\ req[r].op = "update" -> Goto(r, "schedule")
         [] OTHER -> Respond(r)
    /\ UNCHANGED <<offer, up, scheduleVars, jobVars, boot, envVars, obsVars>>

(***************************************************************************)
(* updatePromoOfferById                                                    *)
(***************************************************************************)
\* findById(id); a missing document makes the title check throw.
UpdatePromoOfferFind(r) ==
    /\ MayStart(r, "update")
    /\ \E o \in Offers, w \in Window :
          /\ Live(o)
          /\ Submittable(w)
          /\ req' = [req EXCEPT ![r] = [pc |-> "cancel", op |-> "update",
                         kind |-> "Start", offer |-> o, win |-> w]]
          /\ requested' = [requested EXCEPT ![o] = @ \union {w.end}]
    /\ UNCHANGED <<dbVars, up, scheduleVars, jobVars, boot, envVars, fate,
                   abandoned>>

\* Mutant of JobsToSchedule: the end job gets the start date.
JobsToScheduleSwapped(o, w) ==
    IF w.end <= now THEN {}
    ELSE [kind: {"End"}, offer: {o}, at: {w.start}] \union
         IF w.start <= now THEN {}
         ELSE [kind: {"Start"}, offer: {o}, at: {w.start}]

\* The tail that addPromoOffer and updatePromoOfferById share: nothing is
\* scheduled when the end is past, a start job only when the start is not.
\* The two addOfferScheduleOn* calls are not awaited.
JobsToSchedule(o, w) ==
    IF w.end <= now THEN {}
    ELSE [kind: {"End"}, offer: {o}, at: {w.end}] \union
         IF w.start <= now THEN {}
         ELSE [kind: {"Start"}, offer: {o}, at: {w.start}]

SchedulePromoOffer(r) ==
    LET jobs == JobsToSchedule(req[r].offer, req[r].win) IN
    /\ req[r].pc = "schedule"
    /\ \E id \in [jobs -> JobIds \ IdsInUse] :
          /\ \A j, k \in jobs : id[j] = id[k] => j = k
          /\ saving' = saving \union
                {[id |-> id[j], kind |-> j.kind, offer |-> j.offer,
                  at |-> j.at, by |-> "request"] : j \in jobs}
    /\ IF req[r].op = "update" /\ jobs # {} THEN Goto(r, "set") ELSE Respond(r)
    /\ abandoned' = IF jobs = {} THEN abandoned
                                 ELSE abandoned \ {req[r].offer}
    /\ UNCHANGED <<dbVars, up, scheduleVars, saved, running, boot, envVars,
                   fate, requested>>

\* Mutant of SetWindow: the update creates a document that is gone.
SetWindowUpsert(S, w) ==
    offer' = [o \in Offers |-> IF o \in S THEN w ELSE offer[o]]

\* The offers of S that still exist get window w; no document is created.
SetWindow(S, w) ==
    offer' = [o \in Offers |-> IF o \in S /\ Live(o) THEN w ELSE offer[o]]

\* findByIdAndUpdate(id, {$set: finalData})
UpdatePromoOfferSet(r) ==
    /\ req[r].pc = "set"
    /\ SetWindow({req[r].offer}, req[r].win)
    /\ Respond(r)
    /\ UNCHANGED <<jobDocs, up, scheduleVars, jobVars, boot, envVars, obsVars>>

\* updateMultiplePromoOfferById: one updateMany, the jobs stay as they are.
UpdateMultiplePromoOffer(r) ==
    /\ MayStart(r, "updateMultiple")
    /\ \E S \in SUBSET Offers, w \in Window :
          /\ Submittable(w)
          /\ SetWindow(S, w)
          /\ requested' = [o \in Offers |-> IF o \in S /\ Live(o)
                                            THEN requested[o] \union {w.end}
                                            ELSE requested[o]]
    /\ Respond(r)
    /\ UNCHANGED <<jobDocs, up, scheduleVars, jobVars, boot, envVars,
                   fate, abandoned>>

(***************************************************************************)
(* deletePromoOfferById, deleteMultiplePromoOfferById                      *)
(***************************************************************************)
\* The jobs of the deleted offer are not cancelled.
DeletePromoOffer(r) ==
    /\ MayStart(r, "delete")
    /\ \E o \in Offers : Live(o) /\ RemoveOffers({o}, "deleted")
    /\ Respond(r)
    /\ UNCHANGED <<jobDocs, up, scheduleVars, jobVars, boot, envVars,
                   abandoned>>

\* deleteMany({_id: mIds}), then cancelOfferJobScheduler for both names, even
\* when the ids match nothing (S is empty) and another offer has the jobs.
DeleteMultiplePromoOffer(r) ==
    /\ MayStart(r, "deleteMultiple")
    /\ \E S \in SUBSET {o \in Offers : Live(o)} :
          /\ RemoveOffers(S, "deleted")
          /\ abandoned' = abandoned \union {o \in Offers \ S : Live(o)}
    /\ req' = [req EXCEPT ![r] = [IdleRequest EXCEPT
                                    !.pc = "cancel", !.op = "deleteMultiple"]]
    /\ UNCHANGED <<jobDocs, up, scheduleVars, jobVars, boot, envVars>>

\* A database call of request r fails: the handler answers 500 and stops.
RequestFails(r) ==
    /\ CallsFail
    /\ InFlight(r)
    /\ Respond(r)
    /\ UNCHANGED <<dbVars, up, scheduleVars, jobVars, boot, envVars, obsVars>>

(***************************************************************************)
(* addOfferScheduleOnStart, addOfferScheduleOnEnd                          *)
(***************************************************************************)
\* jobScheduler.save()
SaveJob(j) ==
    /\ j \in saving
    /\ jobDocs' = jobDocs \union {DocOf(j)}
    /\ saving' = saving \ {j}
    /\ saved' = saved \union {j}
    /\ UNCHANGED <<offer, up, scheduleVars, running, req, boot, envVars,
                   obsVars>>

\* Mutant of ScheduleJob: the registry gets the document, not the job.
ScheduleJobDoc(j) ==
    /\ registry' = [registry EXCEPT ![j.kind] = DocOf(j)]
    /\ timers' = IF j.at >= now THEN timers \union {j} ELSE timers

\* schedule.scheduleJob: the name now means j; a date already past is
\* accepted and never armed.
ScheduleJob(j) ==
    /\ registry' = [registry EXCEPT ![j.kind] = j]
    /\ timers' = IF j.at >= now THEN timers \union {j} ELSE timers

AddOfferSchedule(j) ==
    /\ j \in saved
    /\ ScheduleJob(j)
    /\ saved' = saved \ {j}
    /\ UNCHANGED <<dbVars, up, saving, running, req, boot, envVars, obsVars>>

\* A due timer runs its callback up to the first database call, and
\* node-schedule forgets the name, whichever job it now means.
FireJob(t) ==
    /\ t \in timers
    /\ t.at <= now
    /\ timers' = timers \ {t}
    /\ registry' = [registry EXCEPT ![t.kind] = NoJob]
    /\ running' = running \union {[job |-> t, next |-> "dropJob"]}
    /\ UNCHANGED <<dbVars, up, saving, saved, req, boot, envVars, obsVars>>

\* jobSchedulerModel.deleteOne({_id}); the end callback has one call more.
CallbackDropJob(c) ==
    /\ c \in running
    /\ c.next = "dropJob"
    /\ DropJobDoc(c.job.id)
    /\ running' = (running \ {c}) \union
                  (IF c.job.kind = "End"
                   THEN {[job |-> c.job, next |-> "dropOffer"]} ELSE {})
    /\ UNCHANGED <<offer, up, scheduleVars, saving, saved, req, boot, envVars,
                   obsVars>>

\* promoOfferModel.findByIdAndDelete(id)
CallbackDropOffer(c) ==
    /\ c \in running
    /\ c.next = "dropOffer"
    /\ RemoveOffers({c.job.offer}, "expired")
    /\ running' = running \ {c}
    /\ UNCHANGED <<jobDocs, up, scheduleVars, saving, saved, req, boot,
                   envVars, abandoned>>

(***************************************************************************)
(* reAddScheduler, called by AppService's constructor                      *)
(***************************************************************************)
BootFind ==
    /\ boot.pc = "find"
    /\ boot' = [BootDone EXCEPT !.pc = "next", !.left = jobDocs]
    /\ UNCHANGED <<dbVars, up, scheduleVars, jobVars, req, envVars, obsVars>>

\* The loop takes a document of the list and looks its offer up; a document
\* whose offer is gone is passed over.
BootNext ==
    /\ boot.pc = "next"
    /\ \E d \in boot.left :
          boot' = IF Live(d.offer)
                  THEN [boot EXCEPT !.pc = "decide", !.left = @ \ {d},
                                    !.doc = d, !.win = offer[d.offer]]
                  ELSE [boot EXCEPT !.left = @ \ {d}]
    /\ UNCHANGED <<dbVars, up, scheduleVars, jobVars, req, envVars, obsVars>>

BootEnd ==
    /\ boot.pc = "next"
    /\ boot.left = {}
    /\ boot' = BootDone
    /\ UNCHANGED <<dbVars, up, scheduleVars, jobVars, req, envVars, obsVars>>

\* Mutant of BootAt: the end job is armed for the start date.
BootAtStart == boot.win.start

BootAt == IF boot.doc.kind = "Start" THEN boot.win.start ELSE boot.win.end

BackToNext == boot' = [BootDone EXCEPT !.pc = "next", !.left = boot.left]

\* The job's time is still to come: it is armed under its old document.
BootArm ==
    /\ boot.pc = "decide"
    /\ BootAt > now
    /\ ScheduleJob([id |-> boot.doc.id, kind |-> boot.doc.kind,
                    offer |-> boot.doc.offer, at |-> BootAt, by |-> "boot"])
    /\ BackToNext
    /\ UNCHANGED <<dbVars, up, jobVars, req, envVars, obsVars>>

\* Mutant of BootOverdue: the overdue document goes, the offer stays.
BootOverdueSkipsOffer ==
    /\ boot.pc = "decide"
    /\ BootAt <= now
    /\ boot' = [boot EXCEPT !.pc = "dropJob"]
    /\ UNCHANGED <<dbVars, up, scheduleVars, jobVars, req, envVars, obsVars>>

\* Mutant of BootOverdue: every job found at boot counts as overdue.
BootOverdueAlways ==
    /\ boot.pc = "decide"
    /\ boot' = [boot EXCEPT !.pc = IF boot.doc.kind = "Start"
                                   THEN "dropJob" ELSE "dropOffer"]
    /\ UNCHANGED <<dbVars, up, scheduleVars, jobVars, req, envVars, obsVars>>

\* It passed while the process was down: it is done now.
BootOverdue ==
    /\ boot.pc = "decide"
    /\ BootAt <= now
    /\ boot' = [boot EXCEPT !.pc = IF boot.doc.kind = "Start"
                                   THEN "dropJob" ELSE "dropOffer"]
    /\ UNCHANGED <<dbVars, up, scheduleVars, jobVars, req, envVars, obsVars>>

BootDropOffer ==
    /\ boot.pc = "dropOffer"
    /\ RemoveOffers({boot.doc.offer}, "expired")
    /\ boot' = [boot EXCEPT !.pc = "dropJob"]
    /\ UNCHANGED <<jobDocs, up, scheduleVars, jobVars, req, envVars, abandoned>>

BootDropJob ==
    /\ boot.pc = "dropJob"
    /\ DropJobDoc(boot.doc.id)
    /\ BackToNext
    /\ UNCHANGED <<offer, up, scheduleVars, jobVars, req, envVars, obsVars>>

(***************************************************************************)
(* The process and the clock                                               *)
(***************************************************************************)
StartProcess ==
    /\ ~up
    /\ up' = TRUE
    /\ boot' = [BootDone EXCEPT !.pc = "find"]
    /\ UNCHANGED <<dbVars, scheduleVars, jobVars, req, envVars, obsVars>>

\* The process stops and loses everything but the database.
Crash ==
    /\ up
    /\ crashes < MaxCrashes
    /\ DirtyStops \/ Settled
    /\ crashes' = crashes + 1
    /\ up' = FALSE
    /\ registry' = [k \in Kinds |-> NoJob]
    /\ timers' = {}
    /\ saving' = {}
    /\ saved' = {}
    /\ running' = {}
    /\ req' = [r \in Requests |-> IF InFlight(r) THEN Answered ELSE req[r]]
    /\ boot' = BootDone
    /\ UNCHANGED <<dbVars, now, obsVars>>

Tick ==
    /\ now < MaxTime
    /\ Serial /\ up => Settled
    /\ now' = now + 1
    /\ UNCHANGED <<dbVars, up, scheduleVars, jobVars, req, boot, crashes,
                   obsVars>>

\* A call arrives.
RequestStart(r) ==
    \/ AddPromoOfferCheck(r)
    \/ InsertManyPromoOfferStart(r)
    \/ UpdatePromoOfferFind(r)
    \/ UpdateMultiplePromoOffer(r)
    \/ DeletePromoOffer(r)
    \/ DeleteMultiplePromoOffer(r)

\* A call in flight goes on.
RequestStep(r) ==
    \/ AddPromoOfferSave(r)
    \/ InsertManyPromoOffer(r)
    \/ CancelJob(r)
    \/ CancelDropDoc(r)
    \/ SchedulePromoOffer(r)
    \/ UpdatePromoOfferSet(r)

ScheduleStep ==
    \/ \E j \in saving : SaveJob(j)
    \/ \E j \in saved : AddOfferSchedule(j)

JobStep ==
    \/ \E t \in timers : FireJob(t)
    \/ \E c \in running : CallbackDropJob(c) \/ CallbackDropOffer(c)

BootStep ==
    \/ BootFind \/ BootNext \/ BootEnd \/ BootArm \/ BootOverdue
    \/ BootDropOffer \/ BootDropJob

Next ==
    \/ \E r \in Requests : RequestStart(r) \/ RequestStep(r) \/ RequestFails(r)
    \/ ScheduleStep
    \/ JobStep
    \/ BootStep
    \/ StartProcess
    \/ Crash
    \/ Tick

Spec == Init /\ [][Next]_vars

\* Time passes whatever the administrators do, a stopped process is started
\* again, and the event loop gets to every answer of the database and to every
\* due timer.
Fairness ==
    /\ SF_vars(Tick)
    /\ WF_vars(StartProcess)
    /\ \A r \in Requests : WF_vars(RequestStep(r))
    /\ WF_vars(ScheduleStep)
    /\ WF_vars(JobStep)
    /\ WF_vars(BootStep)

FairSpec == Spec /\ Fairness

(***************************************************************************)
(* Properties                                                              *)
(***************************************************************************)
\* The collection keeps the promises of PromoOfferLifecycle through every
\* interleaving of calls, callbacks, crashes and reAddScheduler: an offer
\* expires only when an end submitted for it has come, and an update that
\* races with the expiry never brings the offer back.
Lifecycle == INSTANCE PromoOfferLifecycle WITH
    Offers <- Offers, NoOffer <- NoOffer, MaxTime <- MaxTime,
    offer <- offer, fate <- fate, requested <- requested, now <- now
ImplementsLifecycle == Lifecycle!Spec

\* Request r still needs its offer argument.
UsesOffer(r) == \/ req[r].pc \in {"schedule", "set"}
                \/ req[r].pc \in {"cancel", "drop"} /\ req[r].op = "update"

FateMatchesStore == \A o \in Offers : fate[o] = "live" <=> Live(o)

StoredEndSubmitted == \A o \in Offers : Live(o) => offer[o].end \in requested[o]

RequestEndSubmitted ==
    \A r \in Requests : UsesOffer(r) =>
        req[r].offer \in Offers /\ req[r].win.end \in requested[req[r].offer]

JobEndSubmitted ==
    \A j \in saving \union saved \union timers :
        j.kind = "End" => j.at \in requested[j.offer]

\* A submitted end of offer o has come.
EndHasCome(o) == \E e \in requested[o] : e <= now

CallbackDue ==
    \A c \in running :
        /\ c.job.kind = "End" => EndHasCome(c.job.offer)
        /\ c.next = "dropOffer" => c.job.kind = "End"

BootEndSubmitted ==
    boot.pc \in {"decide", "dropOffer", "dropJob"} =>
        /\ boot.doc \in JobDoc
        /\ boot.win.end \in requested[boot.doc.offer]
        /\ boot.pc = "dropOffer" => boot.win.end <= now

\* Whatever may yet end an offer (a stored window, a call, a background save,
\* a timer, a callback, the recovery) carries an end submitted for that very
\* offer, and once it is past the last check that end has come.  This is why
\* the collection keeps the promises above.
SubmittedEnds ==
    /\ FateMatchesStore
    /\ StoredEndSubmitted
    /\ RequestEndSubmitted
    /\ JobEndSubmitted
    /\ CallbackDue
    /\ BootEndSubmitted

\* The armed end jobs are exactly those the stored windows call for, and each
\* has its document, so a restart finds them again (addPromoOffer,
\* updatePromoOfferById, the callbacks and reAddScheduler together).  Left
\* out are the offers whose jobs deleteMultiplePromoOfferById cancelled while
\* deleting other ids, until an update schedules them anew: they have none.
EndTimers == {t \in timers : t.kind = "End"}
EndDocs == {d \in jobDocs : d.kind = "End"}

EndJobsMatchOffers ==
    up /\ Settled =>
        /\ {<<t.offer, t.at>> : t \in EndTimers}
             = {<<o, offer[o].end>> : o \in {x \in Offers : Kept(x)}}
        /\ {DocOf(t) : t \in EndTimers} = EndDocs

\* The scheduler never ends an offer before its stored end: a timer of an
\* earlier window does not outlive the update that replaced the window.
NeverEndedEarly ==
    [][\A o \in Offers : fate[o] = "live" /\ fate'[o] = "expired"
                            => offer[o].end <= now]_vars

\* Every stored offer is eventually removed when its end comes, across clean
\* restarts: the callback of addOfferScheduleOnEnd or reAddScheduler does it,
\* unless a deletion of other ids cancels its jobs first.
EveryOfferEnds ==
    \A o \in Offers : Kept(o) ~> ~Live(o) \/ o \in abandoned

\* After recovery, an offer with a persisted end job has an armed one for its
\* stored end, wherever the process stopped before (reAddScheduler), if no
\* deletion of other ids has cancelled its jobs.
PersistedEndIsArmed ==
    up /\ Settled => \A d \in EndDocs :
        Kept(d.offer) => \E t \in EndTimers : /\ t.offer = d.offer
                                              /\ t.at = offer[d.offer].end

\* addPromoOffer: "Its a Single Document Collection".
SingleDocument == \A o, p \in Offers : Live(o) /\ Live(p) => o = p

\* updatePromoOfferById: "CANCEL EXISTING JOB SCHEDULE" has cancelled every
\* job of the offer by the time the new dates are scheduled.
ExistingScheduleCancelled ==
    \A r \in Requests : req[r].pc = "schedule" /\ req[r].op = "update" =>
        \A t \in timers : t.offer # req[r].offer
==============================================================================
