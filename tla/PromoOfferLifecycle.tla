------------------------- MODULE PromoOfferLifecycle -------------------------
(***************************************************************************)
(* What the promo-offer collection promises, whatever the scheduler, the   *)
(* registry and the crashes do: an offer is born once, its window is one   *)
(* that an administrator submitted for it, the scheduler ends it only when *)
(* some end submitted for it has come, and nothing brings it back.         *)
(***************************************************************************)
EXTENDS Naturals

CONSTANTS Offers, NoOffer, MaxTime

Times  == 0..MaxTime
Window == [start: Times, end: Times]

VARIABLES offer, fate, requested, now

vars == <<offer, fate, requested, now>>

Init ==
    /\ offer = [o \in Offers |-> NoOffer]
    /\ fate = [o \in Offers |-> "unborn"]
    /\ requested = [o \in Offers |-> {}]
    /\ now = 0

\* An administrator submits window w for offer o.
Request(o, w) ==
    /\ fate[o] = "live"
    /\ requested' = [requested EXCEPT ![o] = @ \union {w.end}]
    /\ UNCHANGED <<offer, fate, now>>

\* The offers in S change their windows to submitted ones.
Reschedule(S) ==
    /\ \A o \in S : fate[o] = "live"
    /\ \E w \in Window :
          /\ offer' = [o \in Offers |-> IF o \in S THEN w ELSE offer[o]]
          /\ requested' \in [Offers -> SUBSET Times]
          /\ \A o \in Offers :
                IF o \in S THEN /\ requested[o] \subseteq requested'[o]
                                /\ requested'[o] \subseteq requested[o] \union {w.end}
                                /\ w.end \in requested'[o]
                           ELSE requested'[o] = requested[o]
    /\ UNCHANGED <<fate, now>>

\* New offers are stored, for ids never used before.
Create(S) ==
    /\ \A o \in S : fate[o] = "unborn"
    /\ \E W \in [S -> Window] :
          /\ offer' = [o \in Offers |-> IF o \in S THEN W[o] ELSE offer[o]]
          /\ requested' = [o \in Offers |->
                IF o \in S THEN requested[o] \union {W[o].end} ELSE requested[o]]
    /\ fate' = [o \in Offers |-> IF o \in S THEN "live" ELSE fate[o]]
    /\ UNCHANGED now

\* An administrator deletes the offers in S.
Delete(S) ==
    /\ offer' = [o \in Offers |-> IF o \in S THEN NoOffer ELSE offer[o]]
    /\ fate' = [o \in Offers |->
                   IF o \in S /\ fate[o] = "live" THEN "deleted" ELSE fate[o]]
    /\ UNCHANGED <<requested, now>>

\* The scheduler ends o: one of the ends submitted for it has come.
Expire(o) ==
    /\ fate[o] = "live"
    /\ \E e \in requested[o] : e <= now
    /\ offer' = [offer EXCEPT ![o] = NoOffer]
    /\ fate' = [fate EXCEPT ![o] = "expired"]
    /\ UNCHANGED <<requested, now>>

Tick ==
    /\ now < MaxTime
    /\ now' = now + 1
    /\ UNCHANGED <<offer, fate, requested>>

Next ==
    \/ \E o \in Offers, w \in Window : Request(o, w)
    \/ \E S \in SUBSET Offers : Reschedule(S) \/ Create(S) \/ Delete(S)
    \/ \E o \in Offers : Expire(o)
    \/ Tick

Spec == Init /\ [][Next]_vars
==============================================================================
