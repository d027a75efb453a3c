------------------------------ MODULE OneTimeCode ------------------------------
(***************************************************************************)
(* OtpService: one-time codes for e-mail addresses.  A request looks for   *)
(* the old code, deletes it, saves a new one and mails it, in that many    *)
(* calls to the database, with those of other requests in between.  The    *)
(* unique index on the address decides between racing saves.               *)
(*                                                                         *)
(* The clock counts half seconds: expireTime is stored as a string without *)
(* the milliseconds, and the time left is counted in whole seconds.        *)
(***************************************************************************)
EXTENDS Naturals, FiniteSets

CONSTANTS
    Emails, Codes,
    Requests,    \* calls to generateOtpWithEmail at the same time
    MaxSerial,   \* bounds the codes saved
    Life,        \* addMinuteInCurrentTime(5), in half seconds
    MaxClock,    \* bounds the clock
    NoSerial, NoEmail

Serials == 1..MaxSerial

ASSUME CodeAssumption ==
    /\ Codes # {}
    /\ MaxSerial \in Nat
    /\ Life \in Nat
    /\ MaxClock \in Nat
    /\ NoSerial \notin Serials
    /\ NoEmail \notin Emails

VARIABLES
    otps,      \* the collection: address -> _id of its document, or NoSerial
    code,      \* _id -> code
    made,      \* _id -> when its expiry was computed, before the save
    codesOf,   \* address -> the _ids of all documents it ever had
    mails,     \* address -> the _ids of the codes mailed to it
    asks,      \* the requests in progress
    lost,      \* addresses for which a request has failed half-way
    clock

codeVars == <<otps, code, made, codesOf, mails, asks, lost, clock>>

Ask == [pc: {"idle", "delete", "save", "send"}, email: Emails \union {NoEmail},
        id: Serials \union {NoSerial}, at: 0..MaxClock]
NoAsk == [pc |-> "idle", email |-> NoEmail, id |-> NoSerial, at |-> 0]

\* The expiry as it is stored, and the seconds that are left of it.
ExpireTime(i) == ((made[i] + Life) \div 2) * 2
\* Mutant of SecondsLeft: the distance to the expiry, before or after it.
SecondsLeftAbs(i) == IF clock >= ExpireTime(i)
                       THEN (clock - ExpireTime(i)) \div 2
                       ELSE (ExpireTime(i) - clock) \div 2

SecondsLeft(i) == IF clock >= ExpireTime(i) THEN 0
                                            ELSE (ExpireTime(i) - clock) \div 2

Used == UNION {codesOf[e] : e \in Emails}

CodeTypeOK ==
    /\ otps \in [Emails -> Serials \union {NoSerial}]
    /\ code \in [Serials -> Codes]
    /\ made \in [Serials -> 0..MaxClock]
    /\ codesOf \in [Emails -> SUBSET Serials]
    /\ mails \in [Emails -> SUBSET Serials]
    /\ asks \in [Requests -> Ask]
    /\ lost \subseteq Emails
    /\ clock \in 0..MaxClock

CodeInit ==
    /\ otps = [e \in Emails |-> NoSerial]
    /\ code = [i \in Serials |-> CHOOSE c \in Codes : TRUE]
    /\ made = [i \in Serials |-> 0]
    /\ codesOf = [e \in Emails |-> {}]
    /\ mails = [e \in Emails |-> {}]
    /\ asks = [r \in Requests |-> NoAsk]
    /\ lost = {}
    /\ clock = 0

(***************************************************************************)
(* generateOtpWithEmail                                                    *)
(***************************************************************************)
\* findOne({email}).  The expiry of the new code is computed when the save is
\* called, which may be a while before the document is there.
GenerateOtp(r, e) ==
    /\ asks[r] = NoAsk
    /\ asks' = [asks EXCEPT ![r] =
                  [pc |-> IF otps[e] = NoSerial THEN "save" ELSE "delete",
                   email |-> e, id |-> otps[e],
                   at |-> IF otps[e] = NoSerial THEN clock ELSE 0]]
    /\ UNCHANGED <<otps, code, made, codesOf, mails, lost, clock>>

\* Mutant of Withdrawn: the branch for an old code saves no new one.
WithdrawnOnly(a) == NoAsk

Withdrawn(a) == [a EXCEPT !.pc = "save", !.id = NoSerial, !.at = clock]

\* findByIdAndDelete(otpData._id), the document that was found.
DeleteOld(r) ==
    LET a == asks[r] IN
    /\ a.pc = "delete"
    /\ otps' = IF otps[a.email] = a.id
                 THEN [otps EXCEPT ![a.email] = NoSerial] ELSE otps
    /\ asks' = [asks EXCEPT ![r] = Withdrawn(a)]
    /\ UNCHANGED <<code, made, codesOf, mails, lost, clock>>

\* Mutant of Refused: the address has no unique index.
RefusedNever(e) == FALSE

Refused(e) == otps[e] # NoSerial

\* newData.save() with a random code; the unique index refuses a second
\* document of the address, and the request answers with an error.
SaveCode(r) ==
    LET a == asks[r] IN
    /\ a.pc = "save"
    /\ \/ /\ Refused(a.email)
          /\ asks' = [asks EXCEPT ![r] = NoAsk]
          /\ UNCHANGED <<otps, code, made, codesOf>>
       \/ /\ ~Refused(a.email)
          /\ \E i \in Serials \ Used, c \in Codes :
                /\ \A j \in Serials \ Used : i <= j
                /\ otps' = [otps EXCEPT ![a.email] = i]
                /\ code' = [code EXCEPT ![i] = c]
                /\ made' = [made EXCEPT ![i] = a.at]
                /\ codesOf' = [codesOf EXCEPT ![a.email] = @ \union {i}]
                /\ asks' = [asks EXCEPT ![r] = [a EXCEPT !.pc = "send",
                                                         !.id = i]]
    /\ UNCHANGED <<mails, lost, clock>>

\* sendEmail, which is not awaited.
SendCode(r) ==
    LET a == asks[r] IN
    /\ a.pc = "send"
    /\ mails' = [mails EXCEPT ![a.email] = @ \union {a.id}]
    /\ asks' = [asks EXCEPT ![r] = NoAsk]
    /\ UNCHANGED <<otps, code, made, codesOf, lost, clock>>

\* A database call fails, or the process stops: the request does no more.
GenerateFails(r) ==
    /\ asks[r] # NoAsk
    /\ lost' = lost \union {asks[r].email}
    /\ asks' = [asks EXCEPT ![r] = NoAsk]
    /\ UNCHANGED <<otps, code, made, codesOf, mails, clock>>

(***************************************************************************)
(* validateOtpWithEmail: a read and two comparisons; the code stays.       *)
(***************************************************************************)
ValidateOtp(e, c) ==
    /\ otps[e] # NoSerial
    /\ SecondsLeft(otps[e]) > 0
    /\ code[otps[e]] = c

CodeTick ==
    /\ clock < MaxClock
    /\ clock' = clock + 1
    /\ UNCHANGED <<otps, code, made, codesOf, mails, asks, lost>>

Generating(r) == DeleteOld(r) \/ SaveCode(r) \/ SendCode(r) \/ GenerateFails(r)

CodeNext ==
    \/ \E r \in Requests : Generating(r) \/ \E e \in Emails : GenerateOtp(r, e)
    \/ CodeTick

CodeSpec == CodeInit /\ [][CodeNext]_codeVars

(***************************************************************************)
(* Properties                                                              *)
(***************************************************************************)
Promise == INSTANCE CodePromise WITH
    Emails <- Emails, Serials <- Serials, NoSerial <- NoSerial,
    good <- otps, issued <- codesOf, mailed <- mails

\* generateOtpWithEmail keeps the promise however requests overlap and fail:
\* it never puts a code in the place of a good one, and mails no code that the
\* unique index has refused.
ImplementsPromise == Promise!PromiseSpec

\* Once all requests for an address have answered and none has failed, the
\* stored code, if any code was mailed, is there and is a mailed one: what a
\* request deletes, saves and mails does not leave the user with dead codes only.
CodeReachesUser ==
    \A e \in Emails :
        /\ mails[e] # {}
        /\ e \notin lost
        /\ \A r \in Requests : asks[r].email # e
        => otps[e] \in mails[e]

\* validateOtpWithEmail accepts a stored code for its life less two seconds and
\* never after its life: the lost milliseconds and the rounding to seconds cost
\* no more.  The life is counted from the moment the expiry is computed; what
\* the save takes is lost to the user.
CodeLasts ==
    \A e \in Emails :
        otps[e] # NoSerial =>
            LET age == clock - made[otps[e]] IN
            /\ age + 4 <= Life => ValidateOtp(e, code[otps[e]])
            /\ age >= Life => \A c \in Codes : ~ValidateOtp(e, c)
===============================================================================
