--------------------------------- MODULE Ar ---------------------------------
(***************************************************************************)
(* The asynchronous resolver, libar/ar.c: a dispatcher thread that owns a  *)
(* socket and three lists of query handles (pending, active, recyclable),  *)
(* and client threads that submit a query, wait for its reply under the    *)
(* handle's own lock and condition variable, and cancel it.                *)
(*                                                                         *)
(* The dispatcher's pass over the lists is one critical section of ar_lock *)
(* (from the return of select() to the next unlock); it is cut here into   *)
(* the steps at which a waiter, which only needs the handle's q_lock, can  *)
(* run in between.  A client's critical sections are single steps.         *)
(*                                                                         *)
(* Time is two facts per query: "due", the retry interval has passed since *)
(* q_sent, and "late", q_timeout has passed.  Query identifiers are taken  *)
(* to be distinct, so a message is known by the handle whose last q_id it  *)
(* carries; a reply to an older q_id of a handle matches nothing and is    *)
(* left out, but its loss is not.                                          *)
(***************************************************************************)
EXTENDS Naturals, Sequences, SequencesExt

CONSTANTS
    Handles,      \* the struct ar_query's that malloc() can return
    Clients,      \* the threads that use one library handle
    Questions,    \* the names a client may ask for
    Contents,     \* what two replies to one question may differ in
    Chain,        \* [Questions -> Nat]: CNAMEs before a question's answer
    Oversized,    \* questions whose replies exceed the caller's buffer
    Unbuildable,  \* questions res_nmkquery() cannot encode (a long label)
    Depth,        \* the depth argument of ar_addquery()
    Retries,      \* ar_retries; 0 is no limit
    UseTCP,       \* AR_FLAG_USETCP
    Timers,       \* subset of {"retry", "query"}: the timers that can run out
    Waits,        \* subset of {"given", "none"}: timeout given to ar_waitreply()
    Limits,       \* subset of {"finite", "infinite"}: timeout of ar_addquery()
    Faults,       \* what the environment may do wrong, see FaultKinds
    MaxBreaks,    \* bound: how often the TCP connection may break
    CtlMax,       \* bound: messages the control socket holds
    NoHandle

FaultKinds == {"loss", "duplicate", "sendfail", "recvfail", "connfail",
               "malformed", "wakefail"}

ASSUME ArAssumption ==
    /\ NoHandle \notin Handles
    /\ Questions # {} /\ Contents # {} /\ Chain \in [Questions -> Nat]
    /\ Oversized \subseteq Questions /\ Unbuildable \subseteq Questions
    /\ Depth \in Nat /\ Retries \in Nat /\ MaxBreaks \in Nat
    /\ CtlMax \in Nat \ {0}
    /\ UseTCP \in BOOLEAN
    /\ Timers \subseteq {"retry", "query"}
    /\ Waits \subseteq {"given", "none"}
    /\ Limits \subseteq {"finite", "infinite"}
    /\ Faults \subseteq FaultKinds

VARIABLES
    pending,    \* ar_pending: handles to be sent, in order
    active,     \* ar_queries: handles sent and not cancelled, in order
    recycled,   \* ar_recycle
    query,      \* the contents of each struct ar_query
    buf,        \* what the caller's q_buf holds: [ask, hop, says] or <<>>
    signalled,  \* handles whose q_reply was signalled with a waiter blocked
    net,        \* per handle: the packets with its current q_id in flight
    client,     \* the threads' program counters and locals
    disp,       \* the dispatcher's program counter and locals
    ctl,        \* messages in the control socket
    closed,     \* ar_control[0] was closed by ar_shutdown()
    conn,       \* "up" or "down": the TCP connection
    breaks,     \* how often the connection broke
    dead        \* AR_FLAG_DEAD

libvars == <<pending, active, recycled, query, buf, signalled, dead>>
netvars == <<net, conn, breaks>>
vars == <<libvars, netvars, client, disp, ctl, closed>>

Linked == ToSet(pending) \cup ToSet(active)

FirstQuestion == CHOOSE a \in Questions : TRUE

\* A struct ar_query as memset() leaves it: q_sent is the epoch, so the
\* retry interval has long passed.
NewQuery == [flags |-> {}, depth |-> 0, tries |-> 0,
             at |-> [ask |-> FirstQuestion, hop |-> 0],
             due |-> TRUE, late |-> FALSE]

Idle == [pc |-> "idle", h |-> NoHandle, ask |-> FirstQuestion,
         mode |-> "none", res |-> "none"]

Init ==
    /\ pending = <<>> /\ active = <<>> /\ recycled = {}
    /\ query = [h \in Handles |-> NewQuery]
    /\ buf = [h \in Handles |-> <<>>]
    /\ signalled = {}
    /\ net = [h \in Handles |-> {}]
    /\ client = [c \in Clients |-> Idle]
    /\ disp = [pc |-> "top", ready |-> {}, write |-> FALSE, q |-> NoHandle]
    /\ ctl = 0 /\ closed = FALSE
    /\ conn = "up" /\ breaks = 0 /\ dead = FALSE

-----------------------------------------------------------------------------
(* Locks.  The dispatcher is the only thread that keeps a lock from one    *)
(* step to the next.                                                       *)

\* ar_lock is free
ArLockFree == disp.pc \in {"select", "reconnRead", "reconnRetry", "exited"}

\* q_lock of h is free: the retry scan keeps it across a TCP reconnect, and for
\* ever when the thread ends there
QLockFree(h) ==
    ~ (disp.pc \in {"reconnRetry", "stuck", "exited", "tangled"} /\ disp.q = h)

\* slip of SignalTo: the flags are set and nobody is told
SignalNobody(H) == signalled

\* the client blocked in pthread_cond_wait() on h, if any, is signalled
SignalTo(H) ==
    signalled \cup {h \in H : \E c \in Clients : client[c].pc = "blocked"
                                                 /\ client[c].h = h}

\* slip of WakeDispatcher: the message is forgotten
WakeNobody == UNCHANGED ctl

\* a NULL message on the control socket, skipped when it is not writable
WakeDispatcher == ctl' = IF ctl < CtlMax THEN ctl + 1 ELSE ctl

\* slip of Unlink: the head of the list is not unlinked
UnlinkBehind(s, h) ==
    IF \E i \in DOMAIN s : i > 1 /\ s[i] = h
    THEN RemoveAt(s, CHOOSE i \in DOMAIN s : s[i] = h)
    ELSE s

\* h taken out of list s
Unlink(s, h) ==
    IF \E i \in DOMAIN s : s[i] = h
    THEN RemoveAt(s, CHOOSE i \in DOMAIN s : s[i] = h)
    ELSE s

-----------------------------------------------------------------------------
(* ar_addquery(), in its two critical sections of ar_lock.                 *)

\* Lines 1617-1647: refuse on a dead library, else take a recycled handle or
\* a new one.
Add(c, a) ==
    /\ client[c].pc = "idle" /\ ArLockFree /\ ~closed /\ ~dead
    /\ \E h \in Handles :
        /\ IF recycled # {}
           THEN h \in recycled
           ELSE h \notin Linked /\ \A d \in Clients : client[d].h # h
        /\ recycled' = recycled \ {h}
        /\ client' = [client EXCEPT ![c] =
                        [Idle EXCEPT !.pc = "building", !.h = h, !.ask = a]]
    /\ UNCHANGED <<pending, active, query, buf, signalled, dead,
                   netvars, disp, ctl, closed>>

\* Lines 1649-1689: fill the handle in and append it to the pending list.  q_id
\* and q_sent keep what the handle's last user left.  AR_FLAG_DEAD is not looked
\* at again.
Submit(c, limit, pc) ==
    LET h == client[c].h IN
    /\ client[c].pc = "building" /\ ArLockFree
    /\ query' = [query EXCEPT ![h] =
                   [flags |-> IF limit = "infinite" THEN {"INFINIWAIT"} ELSE {},
                    depth |-> Depth, tries |-> 0,
                    at |-> [ask |-> client[c].ask, hop |-> 0],
                    due |-> query[h].due, late |-> FALSE]]
    /\ buf' = [buf EXCEPT ![h] = <<>>]
    /\ pending' = Append(pending, h)
    /\ client' = [client EXCEPT ![c].pc = pc]
    /\ UNCHANGED <<active, recycled, signalled, dead, netvars, disp, closed>>

\* Lines 1690-1730: the dispatcher is woken and the handle returned.
Enqueue(c, limit) == Submit(c, limit, "held") /\ WakeDispatcher

\* select() or write() on the control socket fails: nobody is woken, and the
\* query stays where it is while ar_lock is let go.
EnqueueFails(c, limit) ==
    /\ "wakefail" \in Faults
    /\ Submit(c, limit, "failing") /\ UNCHANGED ctl

\* Line 1732: ar_recycle() puts the query on a second list, and the caller is told
\* that there is none.  q_next is overwritten with it, so from here two lists are
\* one and what the dispatcher makes of them is left to ArLists.
Recycle(c) ==
    /\ client[c].pc = "failing" /\ ArLockFree
    /\ recycled' = recycled \cup {client[c].h}
    /\ client' = [client EXCEPT ![c].pc = "refused"]
    /\ disp' = [disp EXCEPT !.pc = "tangled"]
    /\ UNCHANGED <<pending, active, query, buf, signalled, dead, netvars, ctl,
                   closed>>

-----------------------------------------------------------------------------
(* ar_waitreply(), which needs only the handle's q_lock.                   *)

Return(c, r) ==
    client' = [client EXCEPT ![c].pc = "held", ![c].mode = "none",
                             ![c].res = r]

\* May this caller wait (again)?  A caller whose own timeout ran out does.
MayWait(c) == client[c].pc = "held" /\ client[c].res \in {"none", "NOREPLY"}

\* Lines 1863-1881: the outcome is there already.
WaitAtOnce(c) ==
    LET h == client[c].h
        f == query[h].flags IN
    /\ MayWait(c) /\ QLockFree(h)
    /\ \/ "REPLY" \in f /\ Return(c, "SUCCESS")
       \/ "REPLY" \notin f /\ "ERROR" \in f /\ Return(c, "ERROR")
       \/ f \cap {"REPLY", "ERROR"} = {} /\ "NOREPLY" \in f
          /\ Return(c, "EXPIRED")
    /\ UNCHANGED <<libvars, netvars, disp, ctl, closed>>

\* Lines 1883-1935: choose the soonest deadline and block; what an earlier wait said
\* is forgotten.
WaitBlock(c, w) ==
    LET h == client[c].h
        infinite == "INFINIWAIT" \in query[h].flags
        modes == CASE w = "none" /\ infinite  -> {"forever"}
                   [] w = "none" /\ ~infinite -> {"query"}
                   [] w = "given" /\ infinite -> {"call"}
                   [] OTHER                   -> {"call", "query"} IN
    /\ MayWait(c) /\ QLockFree(h)
    /\ query[h].flags \cap {"REPLY", "NOREPLY", "ERROR"} = {}
    /\ \E m \in modes :
        client' = [client EXCEPT ![c].pc = "blocked", ![c].mode = m, ![c].res = "none"]
    /\ UNCHANGED <<libvars, netvars, disp, ctl, closed>>

\* Lines 1946-1964: the flags are looked at again when the wait is over.
AfterWait(c) ==
    LET f == query[client[c].h].flags IN
    Return(c, CASE "ERROR" \in f           -> "ERROR"
                [] f \cap {"ERROR", "REPLY"} = {} ->
                     IF client[c].mode = "query" THEN "EXPIRED" ELSE "NOREPLY"
                [] OTHER                   -> "SUCCESS")

\* Lines 1929-1944: awake, by the signal or for no reason; only a reply or an
\* expiry ends the wait.
Awake(c) ==
    LET h == client[c].h IN
    /\ client[c].pc = "blocked" /\ QLockFree(h)
    /\ signalled' = signalled \ {h}
    /\ IF query[h].flags \cap {"REPLY", "NOREPLY"} # {}
       THEN AfterWait(c)
       ELSE UNCHANGED client
    /\ UNCHANGED <<pending, active, recycled, query, buf, dead,
                   netvars, disp, ctl, closed>>

WakeUp(c) == client[c].h \in signalled /\ Awake(c)

Spurious(c) ==
    /\ client[c].h \notin signalled
    /\ client[c].h # NoHandle
    /\ Awake(c)

\* slip of TimedOut: the wait for the query ends when a retry is due
TimedOutEarly(c) ==
    LET h == client[c].h IN
    /\ client[c].pc = "blocked" /\ QLockFree(h)
    /\ \/ client[c].mode = "query" /\ (query[h].late \/ query[h].due)
       \/ client[c].mode = "call"
    /\ signalled' = signalled \ {h}
    /\ AfterWait(c)
    /\ UNCHANGED <<pending, active, recycled, query, buf, dead,
                   netvars, disp, ctl, closed>>

\* Line 1941: pthread_cond_timedwait() runs out.
TimedOut(c) ==
    LET h == client[c].h IN
    /\ client[c].pc = "blocked" /\ QLockFree(h)
    /\ \/ client[c].mode = "query" /\ query[h].late
       \/ client[c].mode = "call"
    /\ signalled' = signalled \ {h}
    /\ AfterWait(c)
    /\ UNCHANGED <<pending, active, recycled, query, buf, dead,
                   netvars, disp, ctl, closed>>

-----------------------------------------------------------------------------
\* ar_cancelquery(): how every caller in the tree gives a handle back.  The
\* fields that Enqueue overwrites are forgotten; q_sent and q_id are not.
Cancel(c) ==
    LET h == client[c].h IN
    /\ client[c].pc = "held" /\ ArLockFree
    /\ IF h \in ToSet(pending)
       THEN pending' = Unlink(pending, h) /\ UNCHANGED active
       ELSE active' = Unlink(active, h) /\ UNCHANGED pending
    /\ recycled' = IF h \in Linked THEN recycled \cup {h} ELSE recycled
    /\ query' = [query EXCEPT ![h] = [NewQuery EXCEPT !.due = query[h].due]]
    /\ buf' = [buf EXCEPT ![h] = <<>>]
    /\ client' = [client EXCEPT ![c] = Idle]
    /\ UNCHANGED <<signalled, dead, netvars, disp, ctl,
                   closed>>

\* ar_shutdown() before its pthread_join(): the caller is done with all queries.
Shutdown ==
    /\ ~closed
    /\ \A c \in Clients : client[c].pc = "idle"
    /\ closed' = TRUE
    /\ UNCHANGED <<libvars, netvars, client, disp, ctl>>

-----------------------------------------------------------------------------
(* ar_sendquery() on the handles the dispatcher sends, with q_lock held.   *)

Exhausted(h) == Retries > 0 /\ query[h].tries = Retries

\* Retries used up, or no packet can be built: the query is marked and its
\* waiter signalled; q_tries and q_sent stay.
GiveUp(h) ==
    /\ Exhausted(h) \/ query[h].at.ask \in Unbuildable
    /\ query' = [query EXCEPT ![h].flags = @ \cup {"ERROR"}]
    /\ signalled' = SignalTo({h})
    /\ UNCHANGED <<net>>

Request(h) == [kind |-> "request", of |-> query[h].at]

\* slip of Transmit: a query that is sent again keeps its q_id
TransmitSameId(h, ok) ==
    /\ ~Exhausted(h) /\ query[h].at.ask \notin Unbuildable
    /\ query' = [query EXCEPT ![h].due = FALSE]
    /\ net' = [net EXCEPT ![h] = @ \cup {Request(h)}]
    /\ UNCHANGED signalled

\* The packet leaves with a new q_id, so what is under way for the old one can
\* no longer match; on a broken connection it is lost.  A failed send marks the
\* query as replied to.
Transmit(h, ok) ==
    /\ ~Exhausted(h) /\ query[h].at.ask \notin Unbuildable
    /\ query' = [query EXCEPT
                   ![h].flags = IF ok THEN @ ELSE @ \cup {"REPLY"},
                   ![h].tries = IF Retries = 0 THEN 0 ELSE @ + 1,
                   ![h].due = FALSE]
    /\ signalled' = IF ok THEN signalled ELSE SignalTo({h})
    /\ net' = [net EXCEPT ![h] = IF ok /\ conn = "up" THEN {Request(h)} ELSE {}]

SendQuery(h) ==
    \/ GiveUp(h)
    \/ Transmit(h, TRUE)
    \/ "sendfail" \in Faults /\ Transmit(h, FALSE)

-----------------------------------------------------------------------------
(* ar_dispatcher(), one action per part of its loop.                       *)

DispAt(p) == disp.pc = p

\* Lines 806-845: choose what to wait for, drop ar_lock, enter select().
EnterSelect ==
    /\ DispAt("top")
    /\ disp' = [pc |-> "select", ready |-> {}, write |-> pending # <<>>,
                q |-> NoHandle]
    /\ UNCHANGED <<libvars, netvars, client, ctl, closed>>

Replies(h) == {m \in net[h] : m.kind = "reply"}

Readable == conn = "down" \/ \E h \in Handles : Replies(h) # {}

\* A deadline of an active query is behind us; select() was given the nearest.
Overdue ==
    \E h \in ToSet(active) :
        query[h].due \/ (query[h].late /\ "INFINIWAIT" \notin query[h].flags)

\* Lines 847-858: select() reports every descriptor that is ready, or times out.
LeaveSelect ==
    LET ready == (IF Readable THEN {"read"} ELSE {})
                 \cup (IF disp.write THEN {"write"} ELSE {})
                 \cup (IF ctl > 0 \/ closed THEN {"control"} ELSE {}) IN
    /\ DispAt("select")
    /\ ready # {} \/ Overdue
    /\ disp' = [disp EXCEPT !.pc = IF "read" \in ready THEN "read" ELSE "send",
                            !.ready = ready]
    /\ UNCHANGED <<libvars, netvars, client, ctl, closed>>

\* Lines 871-877, 895-909: nothing usable was read; start over.
ReadFails ==
    /\ DispAt("read") /\ conn = "up" /\ "recvfail" \in Faults
    /\ disp' = [disp EXCEPT !.pc = "top"]
    /\ UNCHANGED <<libvars, netvars, client, ctl, closed>>

\* Lines 911-922, 966-976: the connection is gone; ar_lock is dropped.
ReadBroken ==
    /\ DispAt("read") /\ conn = "down"
    /\ disp' = [disp EXCEPT !.pc = "reconnRead"]
    /\ UNCHANGED <<libvars, netvars, client, ctl, closed>>

Received(h, m) == net' = [net EXCEPT ![h] = @ \ {m}]

\* Lines 988-1003: no active query has the reply's q_id.
ReadStray(h) ==
    /\ DispAt("read") /\ conn = "up"
    /\ h \notin ToSet(active)
    /\ \E m \in Replies(h) : Received(h, m)
    /\ disp' = [disp EXCEPT !.pc = "send"]
    /\ UNCHANGED <<libvars, conn, breaks, client, ctl, closed>>

\* The reply names a CNAME, not the end of the chain.
IsAlias(m) == m.of.hop < Chain[m.of.ask]

\* Line 1006: a reply too big for the caller's buffer is not chased.
DepthLeft(h, m) == IF m.of.ask \in Oversized THEN 0 ELSE query[h].depth

\* Lines 1036-1071 and ar_requery(): ask for the CNAME's target next.
ReadAlias(h) ==
    /\ DispAt("read") /\ conn = "up" /\ h \in ToSet(active)
    /\ \E m \in Replies(h) :
        /\ DepthLeft(h, m) > 0 /\ IsAlias(m)
        /\ Received(h, m)
        /\ query' = [query EXCEPT ![h].depth = @ - 1,
                                  ![h].at = [m.of EXCEPT !.hop = @ + 1]]
    /\ active' = Unlink(active, h)
    /\ pending' = <<h>> \o pending
    /\ disp' = [disp EXCEPT !.pc = "send"]
    /\ UNCHANGED <<recycled, buf, signalled, dead, conn, breaks, client, ctl,
                   closed>>

\* slip of Pack: the caller is told of a reply it does not have
PackNothing(h, m) == UNCHANGED buf

\* Lines 1075-1080: the reply is copied into the caller's buffer, whether there
\* is one in it or not ...
Pack(h, m) ==
    buf' = [buf EXCEPT ![h] = [ask |-> m.of.ask, hop |-> m.of.hop, says |-> m.says]]

\* ... and the caller signalled.
ReadAnswer(h) ==
    /\ DispAt("read") /\ conn = "up" /\ h \in ToSet(active)
    /\ \E m \in Replies(h) :
        /\ DepthLeft(h, m) > 0 => ~IsAlias(m)
        /\ Received(h, m)
        /\ query' = [query EXCEPT ![h].depth = DepthLeft(h, m),
                                  ![h].flags = @ \cup {"REPLY"}]
        /\ Pack(h, m)
    /\ signalled' = SignalTo({h})
    /\ disp' = [disp EXCEPT !.pc = "send"]
    /\ UNCHANGED <<pending, active, recycled, dead, conn, breaks, client, ctl,
                   closed>>

\* Lines 1036-1046: the break on an answer that cannot be walked leaves the
\* dispatcher's own loop: the thread ends and ar_lock stays taken.
ReadMalformed(h) ==
    /\ DispAt("read") /\ conn = "up" /\ h \in ToSet(active)
    /\ "malformed" \in Faults
    /\ \E m \in Replies(h) : DepthLeft(h, m) > 0 /\ Received(h, m)
    /\ disp' = [disp EXCEPT !.pc = "exitedLocked"]
    /\ UNCHANGED <<libvars, conn, breaks, client, ctl, closed>>

\* Lines 1089-1114: send the first pending query; sent or not, it is active.
SendPending ==
    LET h == Head(pending) IN
    /\ DispAt("send") /\ "write" \in disp.ready /\ pending # <<>>
    /\ SendQuery(h)
    /\ pending' = Tail(pending)
    /\ active' = Append(active, h)
    /\ disp' = [disp EXCEPT !.pc = "control"]
    /\ UNCHANGED <<recycled, buf, dead, conn, breaks, client, ctl, closed>>

NothingToSend ==
    /\ DispAt("send") /\ ("write" \in disp.ready => pending = <<>>)
    /\ disp' = [disp EXCEPT !.pc = "control"]
    /\ UNCHANGED <<libvars, netvars, client, ctl, closed>>

\* slip of ReadControl: end of file is taken for one more message
ReadControlOn ==
    /\ DispAt("control")
    /\ disp' = [disp EXCEPT !.pc = "expire"]
    /\ ctl' = IF "control" \in disp.ready /\ ctl > 0 THEN ctl - 1 ELSE ctl
    /\ UNCHANGED <<libvars, netvars, client, closed>>

\* Lines 1137-1155: one message at a time; end of file is the shutdown.  What
\* select() said is used up with it.
ReadControl ==
    /\ DispAt("control")
    /\ IF "control" \in disp.ready /\ ctl = 0
       THEN disp' = [disp EXCEPT !.pc = "exited"] /\ UNCHANGED ctl
       ELSE /\ disp' = [disp EXCEPT !.pc = "expire", !.ready = {}, !.write = FALSE]
            /\ ctl' = IF "control" \in disp.ready THEN ctl - 1 ELSE ctl
    /\ UNCHANGED <<libvars, netvars, client, closed>>

Expired(h) ==
    /\ query[h].late
    /\ query[h].flags \cap {"INFINIWAIT", "REPLY", "NOREPLY"} = {}

\* Lines 1157-1168 and ar_expired().
Expire ==
    LET H == {h \in ToSet(active) : Expired(h)} IN
    /\ DispAt("expire")
    /\ query' = [h \in Handles |->
                   IF h \in H THEN [query[h] EXCEPT !.flags = @ \cup {"NOREPLY"}]
                              ELSE query[h]]
    /\ signalled' = SignalTo(H)
    /\ disp' = [disp EXCEPT !.pc = "retry"]
    /\ UNCHANGED <<pending, active, recycled, buf, dead, netvars,
                   client, ctl, closed>>

\* the first active query whose retry interval has passed, replied to or not
RetryNow(i) == query[active[i]].due /\ \A j \in 1..(i - 1) : ~query[active[j]].due

\* Lines 1170-1182: over UDP that query, and no other, is sent again.
RetryUDP ==
    /\ DispAt("retry") /\ ~UseTCP
    /\ \E i \in DOMAIN active : RetryNow(i) /\ SendQuery(active[i])
    /\ disp' = [disp EXCEPT !.pc = "top"]
    /\ UNCHANGED <<pending, active, recycled, buf, dead, conn, breaks, client,
                   ctl, closed>>

\* Lines 1183-1190: over TCP the connection is given up instead; ar_lock is
\* dropped, the query's q_lock is not.
RetryTCP ==
    /\ DispAt("retry") /\ UseTCP
    /\ \E i \in DOMAIN active :
        RetryNow(i) /\ disp' = [disp EXCEPT !.pc = "reconnRetry", !.q = active[i]]
    /\ conn' = "down"
    /\ net' = [h \in Handles |-> {}]
    /\ UNCHANGED <<libvars, breaks, client, ctl, closed>>

NothingToRetry ==
    /\ DispAt("retry") /\ \A h \in ToSet(active) : ~query[h].due
    /\ disp' = [disp EXCEPT !.pc = "top"]
    /\ UNCHANGED <<libvars, netvars, client, ctl, closed>>

\* ar_reconnect() finds a nameserver: ar_lock is taken and ar_requeue() puts
\* everything active in front of the pending list, replied to or not.
Reconnect ==
    /\ disp.pc \in {"reconnRead", "reconnRetry"}
    /\ conn' = "up"
    /\ pending' = active \o pending
    /\ active' = <<>>
    /\ IF active # <<>> THEN WakeDispatcher ELSE UNCHANGED ctl
    /\ disp' = [disp EXCEPT !.pc = "top", !.q = NoHandle]
    /\ UNCHANGED <<recycled, query, buf, signalled, dead, net, breaks,
                   client, closed>>

\* ar_alldead() on the queries in H.
MarkDead(H) ==
    /\ active' = active \o pending
    /\ pending' = <<>>
    /\ query' = [h \in Handles |->
                   IF h \in H
                   THEN [query[h] EXCEPT !.flags = @ \cup {"NOREPLY", "ERROR"}]
                   ELSE query[h]]
    /\ signalled' = SignalTo(H)
    /\ UNCHANGED <<recycled, buf, netvars, client, ctl, closed>>

\* ar_reconnect() finds no nameserver: every query is marked, which takes its
\* q_lock, and the library is dead.  A q_lock that the retry scan holds, of a
\* query that was cancelled meanwhile, is not let go.
AllDead ==
    /\ disp.pc \in {"reconnRead", "reconnRetry"} /\ "connfail" \in Faults
    /\ disp.q \notin Linked
    /\ MarkDead(Linked)
    /\ dead' = TRUE
    /\ disp' = [disp EXCEPT !.pc = "exited"]

\* The same when the retry scan still holds the q_lock of a listed query: the
\* marking stops there and waits for itself, with ar_lock held.
AllDeadStuck ==
    LET all == active \o pending IN
    /\ DispAt("reconnRetry") /\ "connfail" \in Faults
    /\ \E i \in DOMAIN all :
        /\ all[i] = disp.q
        /\ MarkDead({all[j] : j \in 1..(i - 1)})
    /\ disp' = [disp EXCEPT !.pc = "stuck"]
    /\ UNCHANGED dead

\* ar_shutdown() after its pthread_join().
Join ==
    /\ closed /\ disp.pc \in {"exited", "exitedLocked"}
    /\ disp' = [disp EXCEPT !.pc = "joined"]
    /\ UNCHANGED <<libvars, netvars, client, ctl, closed>>

-----------------------------------------------------------------------------
(* The environment: nameservers, the network and the clock.                *)

\* A request that comes twice is answered twice, and not always with the same
\* records in the same order.
Reply(h) ==
    /\ \E m \in net[h], s \in Contents, keep \in BOOLEAN :
        /\ m.kind = "request" /\ (keep => "duplicate" \in Faults)
        /\ net' = [net EXCEPT ![h] = (IF keep THEN @ ELSE @ \ {m})
                         \cup {[kind |-> "reply", of |-> m.of, says |-> s]}]
    /\ UNCHANGED <<libvars, conn, breaks, client, disp, ctl, closed>>

Lose(h) ==
    /\ "loss" \in Faults
    /\ \E m \in net[h] : m.kind = "request" /\ net' = [net EXCEPT ![h] = @ \ {m}]
    /\ UNCHANGED <<libvars, conn, breaks, client, disp, ctl, closed>>

Break ==
    /\ UseTCP /\ conn = "up" /\ breaks < MaxBreaks
    /\ conn' = "down" /\ breaks' = breaks + 1
    /\ net' = [h \in Handles |-> {}]
    /\ UNCHANGED <<libvars, client, disp, ctl, closed>>

\* A pass of the dispatcher takes no time on the scale of the timers, which run
\* out while it sleeps.
RetryElapses(h) ==
    /\ "retry" \in Timers /\ DispAt("select")
    /\ h \in ToSet(active) /\ ~query[h].due
    /\ query' = [query EXCEPT ![h].due = TRUE]
    /\ UNCHANGED <<pending, active, recycled, buf, signalled, dead,
                   netvars, client, disp, ctl, closed>>

QueryElapses(h) ==
    /\ "query" \in Timers
    /\ disp.pc \in {"select", "reconnRead", "reconnRetry", "stuck", "exited",
                   "exitedLocked"}
    /\ h \in Linked /\ "INFINIWAIT" \notin query[h].flags /\ ~query[h].late
    /\ query' = [query EXCEPT ![h].late = TRUE]
    /\ UNCHANGED <<pending, active, recycled, buf, signalled, dead,
                   netvars, client, disp, ctl, closed>>

Finished == disp.pc \in {"joined", "tangled"} /\ UNCHANGED vars

-----------------------------------------------------------------------------
ClientStep(c) ==
    \/ \E a \in Questions : Add(c, a)
    \/ \E l \in Limits : Enqueue(c, l) \/ EnqueueFails(c, l)
    \/ Recycle(c)
    \/ WaitAtOnce(c)
    \/ \E w \in Waits : WaitBlock(c, w)
    \/ WakeUp(c) \/ Spurious(c) \/ TimedOut(c)
    \/ Cancel(c)

Dispatcher ==
    \/ EnterSelect \/ LeaveSelect
    \/ ReadFails \/ ReadBroken
    \/ \E h \in Handles : ReadStray(h) \/ ReadAlias(h) \/ ReadAnswer(h)
                          \/ ReadMalformed(h)
    \/ SendPending \/ NothingToSend
    \/ ReadControl \/ Expire
    \/ RetryUDP \/ RetryTCP \/ NothingToRetry
    \/ Reconnect \/ AllDead \/ AllDeadStuck

Environment ==
    \/ \E h \in Handles : Reply(h) \/ Lose(h) \/ RetryElapses(h) \/ QueryElapses(h)
    \/ Break

Next ==
    \/ \E c \in Clients : ClientStep(c)
    \/ Shutdown \/ Join
    \/ Dispatcher
    \/ Environment
    \/ Finished

Spec == Init /\ [][Next]_vars

\* The threads are scheduled, nameservers answer what reaches them, timers run
\* out; callers need not come back to wait or to cancel.
Fairness ==
    /\ WF_vars(Dispatcher) /\ WF_vars(Join)
    /\ \A c \in Clients : WF_vars(WakeUp(c) \/ TimedOut(c))
    /\ \A h \in Handles :
        /\ SF_vars(DispAt("select") /\ Reply(h))
        /\ SF_vars(ReadAlias(h) \/ ReadAnswer(h))
        /\ WF_vars(RetryElapses(h)) /\ WF_vars(QueryElapses(h))

FairSpec == Spec /\ Fairness

-----------------------------------------------------------------------------
(* Properties.                                                             *)

\* Every handle is in one place: ar_pending and ar_queries hold exactly the
\* handles that one client each has enqueued and not cancelled, each once, and a
\* recyclable handle is nobody's.  So the dispatcher never writes through the
\* q_buf of a caller that has left, whatever list surgery of ar_cancelquery(),
\* ar_requery(), ar_requeue() and ar_alldead() went before.  The one exception is
\* the query of a caller that ar_addquery() refused when it could not wake the
\* dispatcher: it is listed and recyclable.
HandlesPlaced ==
    LET all == pending \o active
        owns(c) == client[c].pc \in {"held", "blocked", "failing", "refused"} IN
    /\ \A i, j \in DOMAIN all : all[i] = all[j] => i = j
    /\ ToSet(all) = {client[c].h : c \in {d \in Clients : owns(d)}}
    /\ \A c, d \in Clients :
        client[c].h = client[d].h /\ client[c].h # NoHandle => c = d
    /\ \A c \in Clients : client[c].h \in recycled => client[c].pc = "refused"

\* A client blocked in ar_waitreply() on a query that was answered or expired
\* has been signalled: between ar_waitreply()'s look at q_flags and its
\* pthread_cond_wait() no pthread_cond_signal() of the dispatcher is missed.
NoLostSignal ==
    \A c \in Clients :
        client[c].pc = "blocked"
        /\ query[client[c].h].flags \cap {"REPLY", "NOREPLY"} # {}
        => client[c].h \in signalled

\* The dispatcher does not sleep in select() without interest in writing while
\* a query that ar_addquery() accepted is pending, unless a message on the control
\* socket wakes it, though ar_addquery() skips that message when the socket is full.
NoLostWakeup ==
    /\ DispAt("select")
    /\ \E c \in Clients : client[c].pc \in {"held", "blocked"} /\ client[c].h \in ToSet(pending)
    => disp.write \/ ctl > 0

\* the question a reply in the buffer answers
Answered(b) == [ask |-> b.ask, hop |-> b.hop]

\* What ar_waitreply() hands over with AR_STAT_SUCCESS is a reply to this call's
\* question, as far down its CNAMEs as the dispatcher has followed them, though
\* handles are recycled and replies to earlier packets arrive late or twice; and
\* that is the end of the chain unless the depth given to ar_addquery() is used
\* up or the reply did not fit.
RightAnswer ==
    \A c \in Clients :
        client[c].res = "SUCCESS" =>
            /\ Answered(buf[client[c].h]) = query[client[c].h].at
            /\ buf[client[c].h].ask = client[c].ask
            /\ LET b == buf[client[c].h] IN
               b.hop \in {Chain[b.ask], Depth} \/ b.ask \in Oversized

\* ar.3:162: a query is sent again after a time "if no reply has been received".
\* The scan of line 1174 looks at q_sent alone; the second reply is copied over
\* the first in the caller's buffer.
ResentUnanswered ==
    [][\A h \in Handles :
        DispAt("retry") /\ query[h].due /\ ~query'[h].due
        => "REPLY" \notin query[h].flags]_vars

\* AR_STAT_EXPIRED is only told when the query's own q_timeout is over, or the
\* library is dead: a caller whose shorter wait ran out may wait again.
ExpiredIsLate ==
    \A c \in Clients :
        client[c].res = "EXPIRED" => query[client[c].h].late \/ dead

\* ar.c:449: if no nameserver can be reached all queries are marked with
\* QUERY_ERROR, at least when the dispatcher has come to its end over it.
AllMarked == DispAt("stuck") => \A h \in Linked : "ERROR" \in query[h].flags

\* ar.3:303: once the library gives up, all pending and future calls of
\* ar_addquery() and ar_waitreply() fail: nobody sleeps on a query.
DeadFails ==
    dead => \A c \in Clients : client[c].pc = "blocked" => query[client[c].h].flags # {}

\* A caller blocked in ar_waitreply() without a timeout returns.
WaitersReturn ==
    \A c \in Clients : client[c].pc = "blocked" ~> client[c].pc # "blocked"

\* A query that ar_addquery() put on the pending list is sent, unless it is
\* cancelled first, however many others are added.
PendingDrains ==
    \A h \in Handles : h \in ToSet(pending) ~> h \notin ToSet(pending)

\* Closing the control socket ends the dispatcher, so ar_shutdown() returns from
\* its pthread_join().
ShutdownCompletes == closed ~> DispAt("joined")

\* How a caller of ArService sees this state: its answer is in its buffer once
\* QUERY_REPLY is set.
CallOf(c) ==
    LET x == client[c] IN
    [st |-> CASE x.pc = "held"    -> "open"
              [] x.pc = "blocked" -> "waiting"
              [] OTHER            -> "closed",
     ask |-> x.ask,
     answer |-> IF /\ x.pc \in {"held", "blocked"}
                   /\ "REPLY" \in query[x.h].flags
                THEN buf[x.h] ELSE <<>>,
     res |-> x.res]

Service == INSTANCE ArService WITH
               call <- [c \in Clients |-> CallOf(c)],
               broken <- dead \/ DispAt("stuck")

\* The dispatcher, its lists and the condition variables together keep the
\* promises of ArService to every caller: an answer to its own question, which
\* only another answer to that question replaces, and truthful returns of
\* ar_waitreply().
ImplementsService == Service!Spec
=============================================================================
