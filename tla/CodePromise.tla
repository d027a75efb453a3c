------------------------------ MODULE CodePromise ------------------------------
(***************************************************************************)
(* What the one-time codes of an e-mail address promise, without saying    *)
(* how they are stored: one code at a time is good, a new one needs the    *)
(* old one withdrawn, and no code is mailed that was not issued.           *)
(***************************************************************************)
EXTENDS Naturals

CONSTANTS Emails, Serials, NoSerial

VARIABLES
    good,    \* address -> the serial number of its good code, or NoSerial
    issued,  \* address -> the serial numbers of all its codes
    mailed   \* address -> those that were mailed

promise == <<good, issued, mailed>>

PromiseInit ==
    /\ good = [e \in Emails |-> NoSerial]
    /\ issued = [e \in Emails |-> {}]
    /\ mailed = [e \in Emails |-> {}]

Withdraw(e) ==
    /\ good' = [good EXCEPT ![e] = NoSerial]
    /\ UNCHANGED <<issued, mailed>>

Issue(e, i) ==
    /\ good[e] = NoSerial
    /\ \A d \in Emails : i \notin issued[d]
    /\ good' = [good EXCEPT ![e] = i]
    /\ issued' = [issued EXCEPT ![e] = @ \union {i}]
    /\ UNCHANGED mailed

Mail(e, i) ==
    /\ i \in issued[e]
    /\ mailed' = [mailed EXCEPT ![e] = @ \union {i}]
    /\ UNCHANGED <<good, issued>>

PromiseNext ==
    \E e \in Emails :
        \/ Withdraw(e)
        \/ \E i \in Serials : Issue(e, i) \/ Mail(e, i)

PromiseSpec == PromiseInit /\ [][PromiseNext]_promise
===============================================================================
