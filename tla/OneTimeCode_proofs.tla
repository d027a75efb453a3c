-------------------------- MODULE OneTimeCode_proofs --------------------------
(***************************************************************************)
(* Proofs about OneTimeCode, for every set of addresses, codes and         *)
(* requests and every life of a code.                                      *)
(***************************************************************************)
EXTENDS OneTimeCode, TLAPS

(***************************************************************************)
(* The inductive invariant                                                 *)
(***************************************************************************)
\* A request in progress is for an address; one that is about to mail a code
\* has saved it for this address.
AsksCoherent ==
    \A r \in Requests :
        /\ asks[r] # NoAsk => asks[r].email \in Emails
        /\ asks[r].pc = "send" => asks[r].id \in codesOf[asks[r].email]

\* An address from which a code was taken has a request that will save one, and
\* a code that is stored and not mailed has a request that will mail it, unless
\* a request has failed.
Saving(r, e) == asks[r].email = e /\ asks[r].pc = "save"
Sending(r, e) ==
    asks[r].email = e /\ asks[r].pc = "send" /\ asks[r].id = otps[e]

CodeUnderWay ==
    \A e \in Emails \ lost :
        /\ otps[e] = NoSerial /\ codesOf[e] # {}
           => \E r \in Requests : Saving(r, e)
        /\ otps[e] # NoSerial /\ otps[e] \notin mails[e]
           => \E r \in Requests : Sending(r, e)

\* Only codes that were saved are mailed.
MailsSaved == \A e \in Emails : mails[e] \subseteq codesOf[e]

CodeInv == CodeTypeOK /\ AsksCoherent /\ MailsSaved /\ CodeUnderWay

\* The idle request is a request.
LEMMA NoAskType == NoAsk \in Ask /\ NoAsk.pc = "idle" /\ NoAsk.email = NoEmail
BY CodeAssumption DEF NoAsk, Ask

\* No request is in progress at first.
LEMMA CodeInvInit == CodeInit => CodeInv
<1> SUFFICES ASSUME CodeInit PROVE CodeInv
  OBVIOUS
<1>1. (CHOOSE c \in Codes : TRUE) \in Codes
  BY CodeAssumption
<1>2. CodeTypeOK
  BY <1>1, NoAskType, CodeAssumption DEF CodeInit, CodeTypeOK
<1>3. AsksCoherent
  BY NoAskType DEF CodeInit, AsksCoherent
<1>4. MailsSaved /\ CodeUnderWay
  BY DEF CodeInit, MailsSaved, CodeUnderWay, Saving, Sending
<1> QED BY <1>2, <1>3, <1>4 DEF CodeInv

\* findOne: the request goes on to delete or to save.
LEMMA GenerateOtpKeeps ==
    ASSUME CodeInv, NEW r \in Requests, NEW e \in Emails, GenerateOtp(r, e)
    PROVE  CodeInv'
<1> DEFINE a == [pc |-> IF otps[e] = NoSerial THEN "save" ELSE "delete",
                 email |-> e, id |-> otps[e],
                 at |-> IF otps[e] = NoSerial THEN clock ELSE 0]
<1>1. a \in Ask /\ asks' = [asks EXCEPT ![r] = a]
  BY CodeAssumption DEF CodeInv, CodeTypeOK, GenerateOtp, Ask
<1>2. CodeTypeOK'
  BY <1>1 DEF CodeInv, CodeTypeOK, GenerateOtp
<1>3. AsksCoherent' /\ MailsSaved'
  BY <1>1 DEF CodeInv, CodeTypeOK, AsksCoherent, MailsSaved, GenerateOtp
<1>4. CodeUnderWay'
  BY <1>1, NoAskType
  DEF CodeInv, CodeTypeOK, CodeUnderWay, Saving, Sending, GenerateOtp
<1> QED BY <1>2, <1>3, <1>4 DEF CodeInv

\* The delete of an old code: its own request has still to save the new one.
LEMMA DeleteOldKeeps ==
    ASSUME CodeInv, NEW r \in Requests, DeleteOld(r)
    PROVE  CodeInv'
<1> DEFINE a == [asks[r] EXCEPT !.pc = "save", !.id = NoSerial, !.at = clock]
           f == asks[r].email
<1>1. /\ asks[r] \in Ask /\ asks[r].pc = "delete" /\ f \in Emails
      /\ asks' = [asks EXCEPT ![r] = a] /\ a \in Ask
      /\ a.pc = "save" /\ a.email = f
  BY NoAskType DEF CodeInv, CodeTypeOK, AsksCoherent, DeleteOld, Withdrawn, Ask
<1>2. CodeTypeOK'
  BY <1>1 DEF CodeInv, CodeTypeOK, DeleteOld
<1>3. AsksCoherent' /\ MailsSaved'
  BY <1>1 DEF CodeInv, CodeTypeOK, AsksCoherent, MailsSaved, DeleteOld
<1>4. \A e \in Emails : e # f => otps'[e] = otps[e]
  BY <1>1 DEF CodeInv, CodeTypeOK, DeleteOld
<1>5. otps'[f] \in {otps[f], NoSerial}
  BY <1>1 DEF CodeInv, CodeTypeOK, DeleteOld
<1>6. ASSUME NEW q \in Requests, q # r PROVE asks'[q] = asks[q]
  BY <1>1, <1>6 DEF CodeInv, CodeTypeOK
<1>7. asks'[r] = a /\ UNCHANGED <<codesOf, mails, lost>>
  BY <1>1 DEF CodeInv, CodeTypeOK, DeleteOld
<1>8. CodeUnderWay'
  <2> SUFFICES ASSUME NEW e \in Emails, e \notin lost
               PROVE  /\ otps'[e] = NoSerial /\ codesOf[e] # {}
                         => \E q \in Requests : Saving(q, e)'
                      /\ otps'[e] # NoSerial /\ otps'[e] \notin mails[e]
                         => \E q \in Requests : Sending(q, e)'
    BY <1>7 DEF CodeUnderWay
  <2>1. CASE e = f
    <3>1. Saving(r, e)'
      BY <1>1, <1>7, <2>1 DEF Saving
    <3>2. ASSUME otps'[e] # NoSerial, otps'[e] \notin mails[e]
          PROVE  \E q \in Requests : Sending(q, e)'
      <4>1. otps'[e] = otps[e]
        BY <1>5, <2>1, <3>2
      <4>2. PICK q \in Requests : Sending(q, e)
        BY <3>2, <4>1 DEF CodeInv, CodeUnderWay
      <4>3. q # r
        BY <1>1, <4>2 DEF Sending
      <4> QED BY <1>6, <4>1, <4>2, <4>3 DEF Sending
    <3> QED BY <3>1, <3>2
  <2>2. CASE e # f
    BY <1>1, <1>4, <1>6, <1>7, <2>2
    DEF CodeInv, CodeUnderWay, Saving, Sending
  <2> QED BY <2>1, <2>2
<1> QED BY <1>2, <1>3, <1>8 DEF CodeInv

\* The save of a code: its own request has still to mail it.
LEMMA SaveCodeKeeps ==
    ASSUME CodeInv, NEW r \in Requests, SaveCode(r)
    PROVE  CodeInv'
<1> DEFINE a == asks[r]
           f == asks[r].email
<1>1. a \in Ask /\ a.pc = "save" /\ f \in Emails
  BY NoAskType DEF CodeInv, CodeTypeOK, AsksCoherent, SaveCode
<1>2. CASE Refused(f) /\ asks' = [asks EXCEPT ![r] = NoAsk]
           /\ UNCHANGED <<otps, code, made, codesOf>>
  <2>1. CodeTypeOK'
    BY <1>2, NoAskType DEF CodeInv, CodeTypeOK, SaveCode
  <2>2. AsksCoherent' /\ MailsSaved'
    BY <1>2, NoAskType
    DEF CodeInv, CodeTypeOK, AsksCoherent, MailsSaved, SaveCode
  <2>3. ASSUME NEW q \in Requests
        PROVE  q # r => asks'[q] = asks[q]
    BY <1>2 DEF CodeInv, CodeTypeOK
  <2>4. asks'[r] = NoAsk /\ UNCHANGED <<otps, codesOf, mails, lost>>
    BY <1>2 DEF CodeInv, CodeTypeOK, SaveCode
  <2>5. CodeUnderWay'
    <3> SUFFICES ASSUME NEW e \in Emails, e \notin lost
                 PROVE  /\ otps[e] = NoSerial /\ codesOf[e] # {}
                           => \E q \in Requests : Saving(q, e)'
                        /\ otps[e] # NoSerial /\ otps[e] \notin mails[e]
                           => \E q \in Requests : Sending(q, e)'
      BY <2>4 DEF CodeUnderWay
    <3>1. CASE e = f
      BY <1>1, <1>2, <2>3, <2>4, <3>1
      DEF CodeInv, CodeUnderWay, Saving, Sending, Refused
    <3>2. CASE e # f
      BY <1>1, <2>3, <2>4, <3>2 DEF CodeInv, CodeUnderWay, Saving, Sending
    <3> QED BY <3>1, <3>2
  <2> QED BY <2>1, <2>2, <2>5 DEF CodeInv
<1>3. ASSUME NEW i \in Serials \ Used, NEW c \in Codes,
             otps' = [otps EXCEPT ![f] = i],
             code' = [code EXCEPT ![i] = c],
             made' = [made EXCEPT ![i] = asks[r].at],
             codesOf' = [codesOf EXCEPT ![f] = @ \union {i}],
             asks' = [asks EXCEPT ![r] = [a EXCEPT !.pc = "send", !.id = i]]
      PROVE  CodeInv'
  <2> DEFINE b == [a EXCEPT !.pc = "send", !.id = i]
  <2>1. b \in Ask /\ b.pc = "send" /\ b.email = f /\ b.id = i
    BY <1>1 DEF Ask
  <2>2. CodeTypeOK'
    <3>1. asks[r].at \in 0..MaxClock
      BY <1>1 DEF Ask
    <3> QED BY <1>1, <1>3, <2>1, <3>1 DEF CodeInv, CodeTypeOK, SaveCode
  <2>3. ASSUME NEW q \in Requests, q # r PROVE asks'[q] = asks[q]
    BY <1>3, <2>3 DEF CodeInv, CodeTypeOK
  <2>4. asks'[r] = b /\ UNCHANGED <<mails, lost>>
    BY <1>3 DEF CodeInv, CodeTypeOK, SaveCode
  <2>5. /\ codesOf'[f] = codesOf[f] \union {i} /\ otps'[f] = i
        /\ \A e \in Emails : /\ codesOf[e] \subseteq codesOf'[e]
                             /\ e # f => /\ otps'[e] = otps[e]
                                         /\ codesOf'[e] = codesOf[e]
    BY <1>1, <1>3 DEF CodeInv, CodeTypeOK
  <2>6. AsksCoherent'
    <3> SUFFICES ASSUME NEW q \in Requests
                 PROVE  /\ asks'[q] # NoAsk => asks'[q].email \in Emails
                        /\ asks'[q].pc = "send"
                           => asks'[q].id \in codesOf'[asks'[q].email]
      BY DEF AsksCoherent
    <3>1. CASE q = r
      BY <1>1, <2>1, <2>4, <2>5, <3>1
    <3>2. CASE q # r
      BY <2>3, <2>5, <3>2, NoAskType DEF CodeInv, AsksCoherent
    <3> QED BY <3>1, <3>2
  <2>7. MailsSaved'
    BY <2>4, <2>5 DEF CodeInv, MailsSaved
  <2>8. i # NoSerial
    BY CodeAssumption
  <2>9. CodeUnderWay'
    <3> SUFFICES ASSUME NEW e \in Emails, e \notin lost
                 PROVE  /\ otps'[e] = NoSerial /\ codesOf'[e] # {}
                           => \E q \in Requests : Saving(q, e)'
                        /\ otps'[e] # NoSerial /\ otps'[e] \notin mails[e]
                           => \E q \in Requests : Sending(q, e)'
      BY <2>4 DEF CodeUnderWay
    <3>1. CASE e = f
      BY <2>1, <2>4, <2>5, <2>8, <3>1 DEF Sending
    <3>2. CASE e # f
      BY <1>1, <2>3, <2>5, <3>2 DEF CodeInv, CodeUnderWay, Saving, Sending
    <3> QED BY <3>1, <3>2
  <2> QED BY <2>2, <2>6, <2>7, <2>9 DEF CodeInv
<1> QED BY <1>2, <1>3 DEF SaveCode

\* The mail of a code that was saved.
LEMMA SendCodeKeeps ==
    ASSUME CodeInv, NEW r \in Requests, SendCode(r)
    PROVE  CodeInv'
<1> DEFINE f == asks[r].email
<1>1. asks[r].pc = "send" /\ f \in Emails /\ asks[r].id \in codesOf[f]
  BY NoAskType DEF CodeInv, CodeTypeOK, AsksCoherent, SendCode
<1>2. CodeTypeOK'
  BY <1>1, NoAskType DEF CodeInv, CodeTypeOK, SendCode
<1>3. AsksCoherent' /\ MailsSaved'
  BY <1>1, NoAskType
  DEF CodeInv, CodeTypeOK, AsksCoherent, MailsSaved, SendCode
<1>4. CodeUnderWay'
  BY <1>1, NoAskType
  DEF CodeInv, CodeTypeOK, CodeUnderWay, Saving, Sending, SendCode
<1> QED BY <1>2, <1>3, <1>4 DEF CodeInv

\* A request that fails is counted as failed for its address.
LEMMA GenerateFailsKeeps ==
    ASSUME CodeInv, NEW r \in Requests, GenerateFails(r)
    PROVE  CodeInv'
<1>1. asks[r].email \in Emails
  BY DEF CodeInv, AsksCoherent, GenerateFails
<1>2. CodeTypeOK'
  BY <1>1, NoAskType DEF CodeInv, CodeTypeOK, GenerateFails
<1>3. AsksCoherent' /\ MailsSaved'
  BY NoAskType
  DEF CodeInv, CodeTypeOK, AsksCoherent, MailsSaved, GenerateFails
<1>4. CodeUnderWay'
  BY <1>1, NoAskType
  DEF CodeInv, CodeTypeOK, CodeUnderWay, Saving, Sending, GenerateFails
<1> QED BY <1>2, <1>3, <1>4 DEF CodeInv

\* Every step of a request and of the clock keeps the invariant.
LEMMA CodeInvNext == CodeInv /\ [CodeNext]_codeVars => CodeInv'
<1> SUFFICES ASSUME CodeInv, [CodeNext]_codeVars PROVE CodeInv'
  OBVIOUS
<1>1. ASSUME CodeTick PROVE CodeInv'
  BY <1>1, CodeAssumption
  DEF CodeInv, CodeTypeOK, AsksCoherent, MailsSaved, CodeUnderWay, Saving,
      Sending, CodeTick
<1>2. ASSUME UNCHANGED codeVars PROVE CodeInv'
  BY <1>2
  DEF CodeInv, CodeTypeOK, AsksCoherent, MailsSaved, CodeUnderWay, Saving,
      Sending, codeVars
<1> QED
  BY <1>1, <1>2, GenerateOtpKeeps, DeleteOldKeeps, SaveCodeKeeps,
     SendCodeKeeps, GenerateFailsKeeps DEF CodeNext, Generating

\* The codes, by the requests in progress.
LEMMA CodeInvariance == CodeSpec => []CodeInv
BY CodeInvInit, CodeInvNext, PTL DEF CodeSpec

(***************************************************************************)
(* The results                                                             *)
(***************************************************************************)
\* Codes, mails and requests keep their types, for every set of addresses.
THEOREM CodeTypeCorrect == CodeSpec => []CodeTypeOK
<1>1. CodeInv => CodeTypeOK
  BY DEF CodeInv
<1> QED BY <1>1, CodeInvariance, PTL

\* However many requests for an address overlap, when they have answered and
\* none has failed, the stored code is one that was mailed.
THEOREM CodeReachesUserAlways == CodeSpec => []CodeReachesUser
<1>1. CodeInv => CodeReachesUser
  <2> SUFFICES ASSUME CodeInv, NEW e \in Emails, mails[e] # {}, e \notin lost,
                      \A r \in Requests : asks[r].email # e
               PROVE  otps[e] \in mails[e]
    BY DEF CodeReachesUser
  <2>1. codesOf[e] # {}
    BY DEF CodeInv, MailsSaved
  <2> QED BY <2>1 DEF CodeInv, CodeUnderWay, Saving, Sending
<1> QED BY <1>1, CodeInvariance, PTL

\* A code is accepted for its life less two seconds, and never after its life,
\* whatever its life is.
THEOREM CodeLastsAlways == CodeSpec => []CodeLasts
<1>1. CodeTypeOK => CodeLasts
  <2> SUFFICES ASSUME CodeTypeOK, NEW e \in Emails, otps[e] # NoSerial
               PROVE  LET age == clock - made[otps[e]] IN
                      /\ age + 4 <= Life => ValidateOtp(e, code[otps[e]])
                      /\ age >= Life => \A c \in Codes : ~ValidateOtp(e, c)
    BY DEF CodeLasts
  <2> DEFINE m == made[otps[e]]
             x == ((m + Life) \div 2) * 2
  <2>1. m \in Nat /\ clock \in Nat /\ Life \in Nat
    BY CodeAssumption DEF CodeTypeOK
  <2>2. x \in Nat /\ m + Life - 1 <= x /\ x <= m + Life
    BY <2>1
  <2>3. ASSUME clock - m + 4 <= Life PROVE ValidateOtp(e, code[otps[e]])
    <3>1. ~(clock >= x) /\ (x - clock) \div 2 > 0
      BY <2>1, <2>2, <2>3
    <3> QED BY <3>1 DEF ValidateOtp, SecondsLeft, ExpireTime
  <2>4. ASSUME clock - m >= Life, NEW c \in Codes PROVE ~ValidateOtp(e, c)
    <3>1. clock >= x
      BY <2>1, <2>2, <2>4
    <3> QED BY <3>1 DEF ValidateOtp, SecondsLeft, ExpireTime
  <2> QED BY <2>3, <2>4
<1> QED BY <1>1, CodeTypeCorrect, PTL

(***************************************************************************)
(* generateOtpWithEmail keeps the promise                                  *)
(***************************************************************************)
LEMMA PromiseStep ==
    CodeInv /\ [CodeNext]_codeVars => [Promise!PromiseNext]_(Promise!promise)
<1> SUFFICES ASSUME CodeInv, [CodeNext]_codeVars
             PROVE  [Promise!PromiseNext]_(Promise!promise)
  OBVIOUS
<1>1. ASSUME NEW r \in Requests, NEW e \in Emails, GenerateOtp(r, e)
      PROVE  UNCHANGED Promise!promise
  BY <1>1 DEF GenerateOtp, Promise!promise
<1>2. ASSUME NEW r \in Requests, DeleteOld(r)
      PROVE  [Promise!PromiseNext]_(Promise!promise)
  <2>1. asks[r].email \in Emails
    BY <1>2, NoAskType DEF CodeInv, AsksCoherent, DeleteOld
  <2>2. Promise!Withdraw(asks[r].email) \/ UNCHANGED Promise!promise
    BY <1>2 DEF DeleteOld, Promise!Withdraw, Promise!promise
  <2> QED BY <2>1, <2>2 DEF Promise!PromiseNext
<1>3. ASSUME NEW r \in Requests, SaveCode(r)
      PROVE  [Promise!PromiseNext]_(Promise!promise)
  <2>1. asks[r].email \in Emails
    BY <1>3, NoAskType DEF CodeInv, AsksCoherent, SaveCode
  <2>2. ASSUME NEW i \in Serials \ Used, ~Refused(asks[r].email),
               otps' = [otps EXCEPT ![asks[r].email] = i],
               codesOf' = [codesOf EXCEPT ![asks[r].email] = @ \union {i}]
        PROVE  Promise!Issue(asks[r].email, i)
    BY <1>3, <2>1, <2>2 DEF SaveCode, Refused, Used, Promise!Issue
  <2>3. UNCHANGED Promise!promise
        \/ \E i \in Serials : Promise!Issue(asks[r].email, i)
    BY <1>3, <2>2 DEF SaveCode, Promise!promise
  <2> QED BY <2>1, <2>3 DEF Promise!PromiseNext
<1>4. ASSUME NEW r \in Requests, SendCode(r)
      PROVE  [Promise!PromiseNext]_(Promise!promise)
  <2>1. /\ asks[r].email \in Emails
        /\ asks[r].id \in codesOf[asks[r].email]
        /\ asks[r].id \in Serials
    BY <1>4, NoAskType DEF CodeInv, CodeTypeOK, AsksCoherent, SendCode
  <2>2. Promise!Mail(asks[r].email, asks[r].id)
    BY <1>4, <2>1 DEF SendCode, Promise!Mail
  <2> QED BY <2>1, <2>2 DEF Promise!PromiseNext
<1>5. ASSUME CodeTick \/ UNCHANGED codeVars
             \/ \E r \in Requests : GenerateFails(r)
      PROVE  UNCHANGED Promise!promise
  BY <1>5 DEF CodeTick, codeVars, GenerateFails, Promise!promise
<1> QED BY <1>1, <1>2, <1>3, <1>4, <1>5 DEF CodeNext, Generating

\* The codes of every address keep the promise: one good code at a time, a new
\* one only after the old one is withdrawn, and none mailed that was not saved.
THEOREM PromiseKept == CodeSpec => ImplementsPromise
<1>1. CodeInit => Promise!PromiseInit
  BY DEF CodeInit, Promise!PromiseInit
<1> QED BY <1>1, PromiseStep, CodeInvariance, PTL
        DEF CodeSpec, ImplementsPromise, Promise!PromiseSpec
===============================================================================
