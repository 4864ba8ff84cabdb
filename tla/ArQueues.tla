------------------------------ MODULE ArQueues ------------------------------
(***************************************************************************)
(* The three lists of a library handle as sequences: what the linked lists *)
(* of ArLists are meant to be.                                             *)
(***************************************************************************)
EXTENDS Naturals, Sequences, SequencesExt

CONSTANT Handles

VARIABLES pending, active, recycled

vars == <<pending, active, recycled>>

Init == pending = <<>> /\ active = <<>> /\ recycled = <<>>

All == pending \o active \o recycled

\* a new or recycled handle leaves for its caller
Take == recycled # <<>> /\ recycled' = Tail(recycled) /\ UNCHANGED <<pending, active>>

Enqueue(h) ==
    /\ ~Contains(All, h)
    /\ pending' = Append(pending, h) /\ UNCHANGED <<active, recycled>>

Send ==
    /\ pending # <<>>
    /\ pending' = Tail(pending) /\ active' = Append(active, Head(pending))
    /\ UNCHANGED recycled

Requery ==
    \E i \in DOMAIN active :
        /\ active' = RemoveAt(active, i) /\ pending' = <<active[i]>> \o pending
        /\ UNCHANGED recycled

Requeue == pending' = active \o pending /\ active' = <<>> /\ UNCHANGED recycled

AllDead == active' = active \o pending /\ pending' = <<>> /\ UNCHANGED recycled

CancelPending ==
    \E i \in DOMAIN pending :
        /\ pending' = RemoveAt(pending, i) /\ recycled' = <<pending[i]>> \o recycled
        /\ UNCHANGED active

CancelActive ==
    \E i \in DOMAIN active :
        /\ active' = RemoveAt(active, i) /\ recycled' = <<active[i]>> \o recycled
        /\ UNCHANGED pending

Next ==
    \/ Take \/ Send \/ Requery \/ Requeue \/ AllDead \/ CancelPending \/ CancelActive
    \/ \E h \in Handles : Enqueue(h)

Spec == Init /\ [][Next]_vars
=============================================================================
