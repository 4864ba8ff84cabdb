------------------------------- MODULE ArLists -------------------------------
(***************************************************************************)
(* The linked lists of libar/ar.c: one q_next per handle, a head and a     *)
(* tail for the pending and for the active list, a head for the recyclable *)
(* handles.  Every action is the list surgery of one function, pointer by  *)
(* pointer, as ar_lock makes it one step.                                  *)
(***************************************************************************)
EXTENDS Naturals, Sequences, FiniteSets

CONSTANTS Handles, Null

ASSUME ArListsAssumption == Null \notin Handles /\ IsFiniteSet(Handles)

VARIABLES
    next,      \* q_next of every handle
    phead,     \* ar_pending
    ptail,     \* ar_pendingtail
    qhead,     \* ar_queries
    qtail,     \* ar_queriestail
    rhead,     \* ar_recycle
    out        \* handles a caller holds and no list should

vars == <<next, phead, ptail, qhead, qtail, rhead, out>>

Init ==
    /\ next = [h \in Handles |-> Null]
    /\ phead = Null /\ ptail = Null /\ qhead = Null /\ qtail = Null
    /\ rhead = Null /\ out = {}

\* The handles met by following q_next from p; at most Cardinality(Handles)
\* steps are taken, so a cycle shows as a repeated handle.
Walk(p) ==
    LET n == Cardinality(Handles)
        at[i \in 0..n] == IF i = 0 THEN p
                          ELSE IF at[i - 1] = Null THEN Null ELSE next[at[i - 1]]
        len == Cardinality({i \in 0..n : at[i] # Null})
    IN [i \in 1..len |-> at[i - 1]]

OnList(p) == {Walk(p)[i] : i \in DOMAIN Walk(p)}

\* the handle before h on the list that starts at p, Null when h is first
Before(p, h) ==
    LET w == Walk(p) IN
    IF w[1] = h THEN Null
    ELSE w[CHOOSE i \in DOMAIN w : i < Len(w) /\ w[i + 1] = h]

Fresh == Handles \ (OnList(phead) \cup OnList(qhead) \cup OnList(rhead) \cup out)

\* ar_addquery(), lines 1628-1647: a recycled handle, or a new one.
TakeRecycled ==
    /\ rhead # Null
    /\ rhead' = next[rhead] /\ out' = out \cup {rhead}
    /\ UNCHANGED <<next, phead, ptail, qhead, qtail>>

TakeNew(h) ==
    /\ rhead = Null /\ h \in Fresh
    /\ out' = out \cup {h}
    /\ UNCHANGED <<next, phead, ptail, qhead, qtail, rhead>>

\* Lines 1655 and 1680-1689.
Enqueue(h) ==
    /\ h \in out /\ out' = out \ {h}
    /\ IF phead = Null
       THEN phead' = h /\ next' = [next EXCEPT ![h] = Null]
       ELSE next' = [next EXCEPT ![h] = Null, ![ptail] = h] /\ UNCHANGED phead
    /\ ptail' = h
    /\ UNCHANGED <<qhead, qtail, rhead>>

\* Lines 1092-1113.
Send ==
    LET q == phead IN
    /\ q # Null
    /\ phead' = next[q]
    /\ ptail' = IF next[q] = Null THEN Null ELSE ptail
    /\ qtail' = q
    /\ IF qtail = Null
       THEN qhead' = q /\ next' = [next EXCEPT ![q] = Null]
       ELSE next' = [next EXCEPT ![q] = Null, ![qtail] = q] /\ UNCHANGED qhead
    /\ UNCHANGED <<rhead, out>>

\* ar_requery()
Requery(q) ==
    LET last == Before(qhead, q) IN
    /\ q \in OnList(qhead)
    /\ IF last = Null
       THEN /\ qhead' = next[q]
            /\ qtail' = IF next[q] = Null THEN Null ELSE qtail
       ELSE /\ qtail' = IF qtail = q THEN last ELSE qtail
            /\ UNCHANGED qhead
    /\ ptail' = IF phead = Null THEN q ELSE ptail
    /\ phead' = q
    /\ next' = [h \in Handles |-> CASE h = q    -> phead
                                    [] h = last -> next[q]
                                    [] OTHER    -> next[h]]
    /\ UNCHANGED <<rhead, out>>

\* slip of Requeue: what was active goes behind what is pending
RequeueBehind ==
    /\ qhead # Null
    /\ IF phead # Null
       THEN next' = [next EXCEPT ![ptail] = qhead] /\ UNCHANGED phead
       ELSE phead' = qhead /\ UNCHANGED next
    /\ ptail' = qtail
    /\ qhead' = Null /\ qtail' = Null
    /\ UNCHANGED <<rhead, out>>

\* ar_requeue()
Requeue ==
    /\ qhead # Null
    /\ IF phead # Null
       THEN next' = [next EXCEPT ![qtail] = phead] /\ UNCHANGED ptail
       ELSE ptail' = qtail /\ UNCHANGED next
    /\ phead' = qhead
    /\ qhead' = Null /\ qtail' = Null
    /\ UNCHANGED <<rhead, out>>

\* ar_alldead(), lines 412-428
AllDead ==
    /\ phead # Null
    /\ IF qtail # Null
       THEN next' = [next EXCEPT ![qtail] = phead] /\ UNCHANGED qhead
       ELSE qhead' = phead /\ UNCHANGED next
    /\ qtail' = ptail
    /\ phead' = Null /\ ptail' = Null
    /\ UNCHANGED <<rhead, out>>

\* what both halves of ar_cancelquery() do to q, which follows last
Release(q, last) ==
    /\ next' = [h \in Handles |-> CASE h = q    -> rhead
                                    [] h = last -> next[q]
                                    [] OTHER    -> next[h]]
    /\ rhead' = q

\* slip of CancelPending: the tail stays where it was
CancelPendingTail(q) ==
    LET last == Before(phead, q) IN
    /\ q \in OnList(phead)
    /\ phead' = IF last = Null THEN next[q] ELSE phead
    /\ Release(q, last)
    /\ UNCHANGED <<ptail, qhead, qtail, out>>

CancelPending(q) ==
    LET last == Before(phead, q) IN
    /\ q \in OnList(phead)
    /\ IF last = Null
       THEN /\ phead' = next[q]
            /\ ptail' = IF next[q] = Null THEN Null ELSE ptail
       ELSE /\ ptail' = IF ptail = q THEN last ELSE ptail
            /\ UNCHANGED phead
    /\ Release(q, last)
    /\ UNCHANGED <<qhead, qtail, out>>

CancelActive(q) ==
    LET last == Before(qhead, q) IN
    /\ q \notin OnList(phead) /\ q \in OnList(qhead)
    /\ IF last = Null
       THEN /\ qhead' = next[q]
            /\ qtail' = IF next[q] = Null THEN Null ELSE qtail
       ELSE /\ qtail' = IF qtail = q THEN last ELSE qtail
            /\ UNCHANGED qhead
    /\ Release(q, last)
    /\ UNCHANGED <<phead, ptail, out>>

Next ==
    \/ TakeRecycled \/ Send \/ Requeue \/ AllDead
    \/ \E h \in Handles : TakeNew(h) \/ Enqueue(h) \/ Requery(h)
                          \/ CancelPending(h) \/ CancelActive(h)

Spec == Init /\ [][Next]_vars

\* ar_recycle(), which ar_addquery() calls after ar_lock was let go when select()
\* or write() on the control socket failed (line 1732): the query is pending, or
\* was sent in between, and is not taken off its list.
Recycle(h) ==
    /\ h \in OnList(phead) \cup OnList(qhead)
    /\ next' = [next EXCEPT ![h] = rhead] /\ rhead' = h
    /\ UNCHANGED <<phead, ptail, qhead, qtail, out>>

\* Spec is the library whose control socket works; this one with a failing one.
WakeFailsSpec == Init /\ [][Next \/ \E h \in Handles : Recycle(h)]_vars

-----------------------------------------------------------------------------
Ends(head, tail) ==
    /\ (head = Null) = (tail = Null)
    /\ head # Null => Walk(head)[Len(Walk(head))] = tail /\ next[tail] = Null

\* After any sequence of ar_addquery(), ar_cancelquery() and dispatcher passes
\* the tails are the ends of their lists, no list runs into itself or into
\* another one, and a handle a caller holds is on none.
WellLinked ==
    LET all == Walk(phead) \o Walk(qhead) \o Walk(rhead) IN
    /\ Ends(phead, ptail) /\ Ends(qhead, qtail)
    /\ \A i, j \in DOMAIN all : all[i] = all[j] => i = j
    /\ \A i \in DOMAIN all : all[i] \notin out

\* ar.3:275: ar_addquery() returns a newly-initialized handle.  No list of the
\* dispatcher leads to one that is with its caller.
HandedOutFree == \A h \in out : h \notin OnList(phead) \cup OnList(qhead)

\* The pointers implement the sequences of ArQueues: nothing is lost, doubled
\* or reordered by any function.
Queues == INSTANCE ArQueues WITH pending <- Walk(phead),
                                 active <- Walk(qhead),
                                 recycled <- Walk(rhead)

ImplementsQueues == Queues!Spec
=============================================================================
