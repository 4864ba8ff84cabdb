------------------------------ MODULE ArService ------------------------------
(***************************************************************************)
(* What libar promises one caller, without lists, sockets or a dispatcher: *)
(* a call that was opened gets an answer to its own question and to no     *)
(* other, the answer stays until the call is closed, though its text may   *)
(* be replaced by that of a later reply, and each return of ar_waitreply() *)
(* tells the truth about it.                                               *)
(***************************************************************************)
EXTENDS Naturals

CONSTANTS Clients, Questions, Contents, Depth

VARIABLES
    call,     \* per caller: [st, ask, answer, res]
    broken    \* the library has lost its nameservers for good

vars == <<call, broken>>

Answers(a) == [ask : {a}, hop : 0..Depth, says : Contents]

Closed(a) == [st |-> "closed", ask |-> a, answer |-> <<>>, res |-> "none"]

Init ==
    /\ call \in [Clients -> {Closed(a) : a \in Questions}]
    /\ broken = FALSE

Open(c) ==
    /\ call[c].st = "closed"
    /\ \E a \in Questions : call' = [call EXCEPT ![c] = [Closed(a) EXCEPT !.st = "open"]]
    /\ UNCHANGED broken

\* A caller makes up its mind what to ask.
Choose(c) ==
    /\ call[c].st = "closed"
    /\ \E a \in Questions : call' = [call EXCEPT ![c] = Closed(a)]
    /\ UNCHANGED broken

Deliver(c) ==
    /\ call[c].st # "closed" /\ call[c].answer = <<>>
    /\ \E a \in Answers(call[c].ask) : call' = [call EXCEPT ![c].answer = a]
    /\ UNCHANGED broken

\* The question was asked twice, and the second reply is in the buffer now.
Replace(c) ==
    /\ call[c].st # "closed" /\ call[c].answer # <<>>
    /\ \E s \in Contents : call' = [call EXCEPT ![c].answer.says = s]
    /\ UNCHANGED broken

Wait(c) ==
    /\ call[c].st = "open" /\ call[c].answer = <<>>
    /\ call' = [call EXCEPT ![c].st = "waiting", ![c].res = "none"]
    /\ UNCHANGED broken

Truthful(c, r) ==
    \/ r = "SUCCESS" /\ call[c].answer # <<>>
    \/ r \in {"NOREPLY", "EXPIRED"} /\ call[c].answer = <<>>
    \/ r = "ERROR" /\ broken

Return(c) ==
    /\ call[c].st # "closed"
    /\ \E r \in {"SUCCESS", "NOREPLY", "EXPIRED", "ERROR"} :
        /\ Truthful(c, r)
        /\ call' = [call EXCEPT ![c].st = "open", ![c].res = r]
    /\ UNCHANGED broken

Close(c) ==
    /\ call[c].st = "open"
    /\ \E a \in Questions : call' = [call EXCEPT ![c] = Closed(a)]
    /\ UNCHANGED broken

GiveUp == ~broken /\ broken' = TRUE /\ UNCHANGED call

\* What the library does unseen by its callers.
Unseen == UNCHANGED vars

Next ==
    \/ Unseen
    \/ \E c \in Clients : \/ Open(c) \/ Choose(c) \/ Deliver(c) \/ Replace(c)
                          \/ Wait(c) \/ Return(c) \/ Close(c)
    \/ GiveUp

Spec == Init /\ [][Next]_vars
=============================================================================
