------------------------------- MODULE ArClock -------------------------------
(***************************************************************************)
(* The struct timeval arithmetic of libar/ar.c: how long select() may      *)
(* sleep, when a query is sent again, when it expires, and until when      *)
(* ar_waitreply() waits.  A second has US microseconds here; a time is a   *)
(* record [s, u], and Ticks() is the value it stands for.                  *)
(***************************************************************************)
EXTENDS Integers

CONSTANTS
    US,          \* microseconds in a second
    Seconds,     \* bound: the clock runs from 1 to this many seconds
    Intervals    \* the struct timevals a caller may give

ASSUME ArClockAssumption ==
    /\ US \in Nat \ {0, 1} /\ Seconds \in Nat \ {0}
    /\ Intervals \subseteq [s : Nat, u : 0..(US - 1)]

VARIABLES
    now,       \* gettimeofday()
    sent,      \* q_sent
    retry,     \* ar_retry
    expiry,    \* q_timeout of a query with a timeout
    until      \* what ar_waitreply() computed, in microseconds: [s, u, main]

vars == <<now, sent, retry, expiry, until>>

Time == [s : 0..(2 * Seconds + 1), u : 0..(US - 1)]

Ticks(t) == t.s * US + t.u

Later(a, b) == a.s > b.s \/ (a.s = b.s /\ a.u > b.u)

Normal(t) == [s |-> t.s + t.u \div US, u |-> t.u % US]

Plus(a, b) == [s |-> a.s + b.s, u |-> a.u + b.u]

\* slip of TimeLeft: microseconds are not borrowed from the seconds
TimeLeftUnborrowed(start, length) ==
    LET end == Normal(Plus(start, length)) IN
    IF Later(now, end) THEN [s |-> 0, u |-> 0]
    ELSE [s |-> end.s - now.s, u |-> IF end.u < now.u THEN 0 ELSE end.u - now.u]

\* ar_timeleft() with a start
TimeLeft(start, length) ==
    LET end == Normal(Plus(start, length)) IN
    IF Later(now, end) THEN [s |-> 0, u |-> 0]
    ELSE IF end.u < now.u
    THEN [s |-> end.s - now.s - 1, u |-> end.u - now.u + US]
    ELSE [s |-> end.s - now.s, u |-> end.u - now.u]

\* slip of Elapsed: no carry at all
ElapsedUncarried(start, length) == Later(now, Plus(start, length))

\* ar_elapsed(): the carry is only made beyond a full second
Elapsed(start, length) ==
    LET sum == Plus(start, length)
        end == IF sum.u > US THEN [s |-> sum.s + 1, u |-> sum.u - US] ELSE sum
    IN Later(now, end)

\* ar_expired()
IsExpired(deadline) == deadline.s # 0 /\ Later(now, deadline)

\* ar_addquery(), lines 1667-1674
ExpiryOf(timeout) ==
    LET sum == Plus(now, timeout) IN
    IF sum.u >= US THEN [s |-> sum.s + 1, u |-> sum.u - US] ELSE sum

\* ar_waitreply(), lines 1901-1926: the caller's deadline, unless the query's
\* own comes first.  Its carry is only made beyond a full second too, and here
\* the sum is no struct timeval that is compared but one that is handed on.
CallDeadline(timeout) ==
    LET sum == Plus(now, timeout) IN
    IF sum.u > US THEN [s |-> sum.s + 1, u |-> sum.u - US] ELSE sum

\* slip of UntilOf: the later of the two deadlines is taken
UntilLatest(deadline) ==
    IF Later(deadline, expiry)
    THEN [s |-> deadline.s, u |-> deadline.u, main |-> FALSE]
    ELSE [s |-> expiry.s, u |-> expiry.u, main |-> TRUE]

UntilOf(deadline) ==
    IF Later(deadline, expiry)
    THEN [s |-> expiry.s, u |-> expiry.u, main |-> TRUE]
    ELSE [s |-> deadline.s, u |-> deadline.u, main |-> FALSE]

-----------------------------------------------------------------------------
Start == [s |-> 1, u |-> 0]

Init ==
    /\ now = Start /\ sent = Start
    /\ retry \in Intervals
    /\ expiry \in {ExpiryOf(i) : i \in Intervals}
    /\ until = UntilOf(expiry)

\* the clock advances by one microsecond
Tick ==
    /\ now.s <= Seconds
    /\ now' = Normal([now EXCEPT !.u = @ + 1])
    /\ UNCHANGED <<sent, retry, expiry, until>>

\* ar_sendquery() notes the time
Send == sent' = now /\ UNCHANGED <<now, retry, expiry, until>>

\* ar_addquery() with a timeout
AddQuery(i) == expiry' = ExpiryOf(i) /\ UNCHANGED <<now, sent, retry, until>>

\* ar_waitreply() with a timeout
WaitReply(i) ==
    until' = UntilOf(CallDeadline(i)) /\ UNCHANGED <<now, sent, retry, expiry>>

Next == Tick \/ Send \/ \E i \in Intervals : AddQuery(i) \/ WaitReply(i)

Spec == Init /\ [][Next]_vars

-----------------------------------------------------------------------------
\* What ar_smaller() of ar_timeleft() tells select() to sleep ends exactly when
\* the retry interval does, across second boundaries: never later (the retry
\* would be late), never earlier (the dispatcher would spin).
SleepsExactly ==
    LET left == TimeLeft(sent, retry)
        end == Ticks(sent) + Ticks(retry) IN
    /\ left.u \in 0..(US - 1) /\ left.s >= 0
    /\ Ticks(left) = IF Ticks(now) > end THEN 0 ELSE end - Ticks(now)

\* ar_elapsed() lets a query be sent again as soon as its interval is over and not
\* before; ar_addquery(), ar_timeleft() and ar_expired() agree on a query's end, so
\* that select() does not wake before it for its sake and ar_expired() finds the
\* query expired as soon as it is over.  All of it whatever the carries do.
OnTime ==
    LET due == Ticks(sent) + Ticks(retry)
        left == TimeLeft([s |-> 0, u |-> 0], expiry) IN
    /\ Elapsed(sent, retry) => Ticks(now) >= due
    /\ Ticks(now) > due => Elapsed(sent, retry)
    /\ Ticks(now) + Ticks(left) >= Ticks(expiry)
    /\ Ticks(left) > 0 => ~IsExpired(expiry)
    /\ IsExpired(expiry) <=> Ticks(now) > Ticks(expiry)

\* pthread_cond_timedwait() takes the deadline; it refuses one whose nanoseconds
\* are a full second, with EINVAL, and ar_waitreply(), which only looks for
\* ETIMEDOUT, then calls it again and again with q_lock held.
Valid(deadline) == deadline.u \in 0..(US - 1)

\* ar_waitreply() waits exactly until the earlier of the query's deadline and its
\* caller's, and takes the query's for its own only when it is the earlier; the
\* one sum that makes a deadline it cannot wait for is a full second of
\* microseconds in the caller's.
NeverPastExpiry ==
    [][\A i \in Intervals : until' # until /\ until' = UntilOf(CallDeadline(i)) =>
          /\ Valid(until') => /\ Ticks(until') <= Ticks(expiry)
                              /\ Ticks(until') <= Ticks(now) + Ticks(i)
                              /\ Ticks(until') \in {Ticks(expiry), Ticks(now) + Ticks(i)}
          /\ until'.main => Valid(until') /\ Ticks(expiry) <= Ticks(now) + Ticks(i)
          /\ ~Valid(until') => now.u + i.u = US]_vars

\* ar.3:231: ar_waitreply() waits until either the requested timeout expires or
\* the one set on the query does.  So what it computes must be a time at all.
DeadlineAccepted == Valid(until)
=============================================================================
