---------------------------- MODULE ArClockProofs ----------------------------
(***************************************************************************)
(* Proofs about the struct timeval arithmetic of ArClock for every length  *)
(* of a second, every interval and every length of the run.                *)
(***************************************************************************)
EXTENDS ArClock, TLAPS

\* A normalized time, and one as ar_elapsed() and ar_waitreply() may leave it.
Clock == [s : Nat, u : 0..(US - 1)]
Loose == [s : Nat, u : 0..US]

\* The clock starts at second one, so no deadline is in second zero, which
\* ar_expired() takes for "none".
TypeOK ==
    /\ now \in Clock /\ now.s > 0
    /\ sent \in Clock /\ retry \in Intervals
    /\ expiry \in Clock /\ expiry.s > 0

-----------------------------------------------------------------------------
(* The arithmetic.                                                         *)

\* A whole second more outweighs any microseconds.
LEMMA SecondsWeigh ==
    ASSUME NEW m \in Nat, NEW n \in Nat, m > n
    PROVE  m * US >= n * US + US
<1>. USE ArClockAssumption
<1>1. PICK d \in Nat : m = n + 1 + d
  <2>1. m - n - 1 \in Nat /\ m = n + 1 + (m - n - 1) OBVIOUS
  <2>. QED BY <2>1
<1>2. d * US \in Nat BY <1>1
<1>3. (n + 1 + d) * US = n * US + US + d * US BY <1>1
<1>. QED BY <1>1, <1>2, <1>3

\* Ticks of what the record is.
LEMMA TicksNat == ASSUME NEW t, t.s \in Nat, t.u \in Nat
                  PROVE  Ticks(t) \in Nat /\ t.s * US \in Nat
BY ArClockAssumption DEF Ticks

\* The comparison of two times is that of what they stand for, but for a
\* microsecond field that holds a full second.
LEMMA LooseOrder ==
    ASSUME NEW a \in Loose, NEW b \in Loose
    PROVE  /\ Later(a, b) => Ticks(a) >= Ticks(b)
           /\ ~Later(a, b) => Ticks(a) <= Ticks(b)
<1>. USE ArClockAssumption
<1>1. /\ a.s \in Nat /\ a.u \in Nat /\ a.u <= US
      /\ b.s \in Nat /\ b.u \in Nat /\ b.u <= US
      /\ a.s * US \in Nat /\ b.s * US \in Nat
  BY TicksNat DEF Loose
<1>2. CASE a.s > b.s
  <2>1. a.s * US >= b.s * US + US BY <1>1, <1>2, SecondsWeigh
  <2>. QED BY <1>1, <1>2, <2>1 DEF Ticks, Later
<1>3. CASE a.s < b.s
  <2>1. b.s * US >= a.s * US + US BY <1>1, <1>3, SecondsWeigh
  <2>. QED BY <1>1, <1>3, <2>1 DEF Ticks, Later
<1>4. CASE a.s = b.s BY <1>1, <1>4 DEF Ticks, Later
<1>. QED BY <1>1, <1>2, <1>3, <1>4

\* On normalized times the comparison is exact.
LEMMA Order ==
    ASSUME NEW a \in Clock, NEW b \in Clock
    PROVE  Later(a, b) <=> Ticks(a) > Ticks(b)
<1>. USE ArClockAssumption
<1>1. /\ a.s \in Nat /\ a.u \in Nat /\ a.u < US
      /\ b.s \in Nat /\ b.u \in Nat /\ b.u < US
      /\ a.s * US \in Nat /\ b.s * US \in Nat
  BY TicksNat DEF Clock
<1>2. CASE a.s > b.s
  <2>1. a.s * US >= b.s * US + US BY <1>1, <1>2, SecondsWeigh
  <2>. QED BY <1>1, <1>2, <2>1 DEF Ticks, Later
<1>3. CASE a.s < b.s
  <2>1. b.s * US >= a.s * US + US BY <1>1, <1>3, SecondsWeigh
  <2>. QED BY <1>1, <1>3, <2>1 DEF Ticks, Later
<1>4. CASE a.s = b.s BY <1>1, <1>4 DEF Ticks, Later
<1>. QED BY <1>1, <1>2, <1>3, <1>4

\* Adding times adds what they stand for.
LEMMA PlusTicks ==
    ASSUME NEW a \in Clock, NEW b \in Clock
    PROVE  /\ Plus(a, b).s = a.s + b.s /\ Plus(a, b).u = a.u + b.u
           /\ a.s + b.s \in Nat /\ a.u + b.u \in Nat /\ a.u + b.u < 2 * US
           /\ (a.s + b.s) * US + (a.u + b.u) = Ticks(a) + Ticks(b)
<1>. USE ArClockAssumption
<1>1. a.s \in Nat /\ a.u \in 0..(US - 1) /\ b.s \in Nat /\ b.u \in 0..(US - 1)
  BY DEF Clock
<1>2. (a.s + b.s) * US = a.s * US + b.s * US BY <1>1
<1>3. a.s * US \in Nat /\ b.s * US \in Nat BY <1>1
<1>. QED BY <1>1, <1>2, <1>3 DEF Plus, Ticks

\* A carry keeps what the time stands for.
LEMMA Carry ==
    ASSUME NEW m \in Nat, NEW n \in Nat
    PROVE  (m + 1) * US + (n - US) = m * US + n
<1>. USE ArClockAssumption
<1>1. (m + 1) * US = m * US + US BY TicksNat
<1>2. m * US \in Nat OBVIOUS
<1>. QED BY <1>1, <1>2

\* Division and remainder of less than two seconds.
LEMMA DivUS ==
    ASSUME NEW n \in Nat, n < 2 * US
    PROVE  IF n < US THEN n \div US = 0 /\ n % US = n
                     ELSE n \div US = 1 /\ n % US = n - US
BY ArClockAssumption

\* Normal() keeps what the time stands for.
LEMMA NormalTicks ==
    ASSUME NEW t, t.s \in Nat, t.u \in Nat, t.u < 2 * US
    PROVE  /\ Normal(t) \in Clock /\ Normal(t).s >= t.s
           /\ Ticks(Normal(t)) = t.s * US + t.u
<1>. USE ArClockAssumption
<1>1. CASE t.u < US BY <1>1, DivUS DEF Normal, Clock, Ticks
<1>2. CASE ~(t.u < US)
  <2>1. Normal(t) = [s |-> t.s + 1, u |-> t.u - US] BY <1>2, DivUS DEF Normal
  <2>2. t.u - US \in 0..(US - 1) BY <1>2
  <2>. QED BY <2>1, <2>2, Carry DEF Clock, Ticks
<1>. QED BY <1>1, <1>2

\* The carry of ar_addquery() is exact, that of ar_elapsed() and ar_waitreply()
\* may leave a full second of microseconds.
LEMMA SumTicks ==
    ASSUME NEW a \in Clock, NEW i \in Clock
    PROVE  LET sum == Plus(a, i)
               carried == [s |-> sum.s + 1, u |-> sum.u - US]
               exact == IF sum.u >= US THEN carried ELSE sum
               loose == IF sum.u > US THEN carried ELSE sum IN
           /\ exact \in Clock /\ exact.s >= a.s
           /\ loose \in Loose /\ Ticks(loose) = Ticks(a) + Ticks(i)
<1>. USE ArClockAssumption
<1>. DEFINE sum == Plus(a, i)
            carried == [s |-> sum.s + 1, u |-> sum.u - US]
            exact == IF sum.u >= US THEN carried ELSE sum
            loose == IF sum.u > US THEN carried ELSE sum
<1>1. /\ sum = [s |-> a.s + i.s, u |-> a.u + i.u]
      /\ sum.s \in Nat /\ sum.u \in Nat /\ sum.u < 2 * US
      /\ a.s \in Nat /\ sum.s >= a.s
      /\ sum.s * US + sum.u = Ticks(a) + Ticks(i)
  BY PlusTicks DEF Plus, Clock
<1>. HIDE DEF sum
<1>2. sum.u >= US => sum.u - US \in 0..(US - 1) BY <1>1
<1>3. sum.u < US => sum.u \in 0..(US - 1) BY <1>1
<1>4. exact \in Clock /\ exact.s >= a.s
  <2>1. CASE sum.u >= US BY <1>1, <1>2, <2>1 DEF Clock
  <2>2. CASE ~(sum.u >= US) BY <1>1, <1>3, <2>2 DEF Clock
  <2>. QED BY <2>1, <2>2
<1>5. loose \in Loose /\ Ticks(loose) = Ticks(a) + Ticks(i)
  <2>1. CASE sum.u > US
    <3>1. (sum.s + 1) * US + (sum.u - US) = sum.s * US + sum.u BY <1>1, Carry
    <3>2. carried \in Loose BY <1>1, <1>2, <2>1 DEF Loose
    <3>. QED BY <1>1, <2>1, <3>1, <3>2 DEF Ticks
  <2>2. CASE ~(sum.u > US) BY <1>1, <2>2 DEF Loose, Ticks
  <2>. QED BY <2>1, <2>2
<1>. QED BY <1>4, <1>5 DEF sum

\* The three sums of the code.
LEMMA Sums ==
    ASSUME NEW i \in Clock, now \in Clock, now.s > 0
    PROVE  /\ ExpiryOf(i) \in Clock /\ ExpiryOf(i).s > 0
           /\ CallDeadline(i) \in Loose
           /\ Ticks(CallDeadline(i)) = Ticks(now) + Ticks(i)
           /\ CallDeadline(i).u = US => now.u + i.u = US
           /\ \A a \in Clock : \E end \in Loose :
                 /\ Elapsed(a, i) <=> Later(now, end)
                 /\ Ticks(end) = Ticks(a) + Ticks(i)
<1>1. now.s \in Nat BY DEF Clock
<1>2. ExpiryOf(i) \in Clock /\ ExpiryOf(i).s >= now.s
  BY SumTicks DEF ExpiryOf
<1>3. ExpiryOf(i).s \in Nat BY <1>2 DEF Clock
<1>4. ExpiryOf(i).s > 0 BY <1>1, <1>2, <1>3
<1>5. /\ CallDeadline(i) \in Loose
      /\ Ticks(CallDeadline(i)) = Ticks(now) + Ticks(i)
  BY SumTicks DEF CallDeadline
<1>6. \A a \in Clock : \E end \in Loose :
        /\ Elapsed(a, i) <=> Later(now, end)
        /\ Ticks(end) = Ticks(a) + Ticks(i)
  BY SumTicks DEF Elapsed
<1>7. CallDeadline(i).u = US => now.u + i.u = US
  BY ArClockAssumption DEF CallDeadline, Plus, Clock
<1>. QED BY <1>2, <1>4, <1>5, <1>6, <1>7

-----------------------------------------------------------------------------
(* The theorems.                                                           *)

\* Times stay normalized, and deadlines are never in second zero.
THEOREM TypeCorrect == Spec => []TypeOK
<1>. USE ArClockAssumption
<1>0. Intervals \subseteq Clock BY DEF Clock
<1>1. Init => TypeOK
  <2>. SUFFICES ASSUME Init PROVE TypeOK
    OBVIOUS
  <2>1. now \in Clock /\ now.s > 0 /\ sent \in Clock BY DEF Init, Start, Clock
  <2>2. expiry \in Clock /\ expiry.s > 0 BY <1>0, <2>1, Sums DEF Init
  <2>. QED BY <2>1, <2>2 DEF Init, TypeOK
<1>2. TypeOK /\ [Next]_vars => TypeOK'
  <2>. SUFFICES ASSUME TypeOK, [Next]_vars PROVE TypeOK'
    OBVIOUS
  <2>1. CASE Tick
    <3>. DEFINE t == [now EXCEPT !.u = @ + 1]
    <3>1. now.s \in Nat /\ now.u \in 0..(US - 1) BY DEF TypeOK, Clock
    <3>2. t.s = now.s /\ t.u = now.u + 1 BY DEF TypeOK, Clock
    <3>. HIDE DEF t
    <3>3. t.s \in Nat /\ t.u \in Nat /\ t.u < 2 * US BY <3>1, <3>2
    <3>4. Normal(t) \in Clock /\ Normal(t).s >= t.s BY <3>3, NormalTicks
    <3>5. Normal(t).s \in Nat BY <3>4 DEF Clock
    <3>6. Normal(t).s > 0 BY <3>2, <3>3, <3>4, <3>5 DEF TypeOK
    <3>. QED BY <2>1, <3>4, <3>6 DEF Tick, TypeOK, t
  <2>2. CASE Send BY <2>2 DEF Send, TypeOK
  <2>3. CASE \E i \in Intervals : AddQuery(i)
    BY <1>0, <2>3, Sums DEF AddQuery, TypeOK
  <2>4. CASE \E i \in Intervals : WaitReply(i) BY <2>4 DEF WaitReply, TypeOK
  <2>5. CASE UNCHANGED vars BY <2>5 DEF vars, TypeOK
  <2>. QED BY <2>1, <2>2, <2>3, <2>4, <2>5 DEF Next
<1>. QED BY <1>1, <1>2, PTL DEF Spec

\* ar_timeleft() leaves a normalized time: what is left until the end, or nothing.
LEMMA TimeLeftTicks ==
    ASSUME TypeOK, NEW start \in Clock, NEW length \in Clock
    PROVE  /\ TimeLeft(start, length) \in Clock
           /\ Ticks(TimeLeft(start, length))
                = IF Ticks(now) > Ticks(start) + Ticks(length) THEN 0
                  ELSE Ticks(start) + Ticks(length) - Ticks(now)
<1>. USE ArClockAssumption
<1>. DEFINE e == Normal(Plus(start, length))
            left == TimeLeft(start, length)
<1>1. e \in Clock /\ Ticks(e) = Ticks(start) + Ticks(length)
  BY PlusTicks, NormalTicks
<1>2. left = IF Later(now, e) THEN [s |-> 0, u |-> 0]
             ELSE IF e.u < now.u
             THEN [s |-> e.s - now.s - 1, u |-> e.u - now.u + US]
             ELSE [s |-> e.s - now.s, u |-> e.u - now.u]
  BY DEF TimeLeft
<1>. HIDE DEF e, left
<1>3. /\ e.s \in Nat /\ e.u \in Nat /\ e.u < US
      /\ now.s \in Nat /\ now.u \in Nat /\ now.u < US
      /\ e.s * US \in Nat /\ now.s * US \in Nat
      /\ Ticks(e) \in Nat /\ Ticks(now) \in Nat
  BY <1>1, TicksNat DEF TypeOK, Clock
<1>4. Later(now, e) <=> Ticks(now) > Ticks(e) BY <1>1, Order DEF TypeOK
<1>5. /\ left \in Clock
      /\ Ticks(left) = IF Ticks(now) > Ticks(e) THEN 0 ELSE Ticks(e) - Ticks(now)
  <2>1. CASE Later(now, e)
    <3>1. left = [s |-> 0, u |-> 0] BY <1>2, <2>1
    <3>. QED BY <1>1, <1>4, <2>1, <3>1 DEF Clock, Ticks
  <2>2. CASE ~Later(now, e) /\ e.u < now.u
    <3>1. left = [s |-> e.s - now.s - 1, u |-> e.u - now.u + US]
      BY <1>2, <2>2
    <3>2. e.s > now.s BY <1>3, <2>2 DEF Later
    <3>3. e.s - now.s - 1 \in Nat /\ e.u - now.u + US \in 0..(US - 1)
      BY <1>3, <2>2, <3>2
    <3>4. (e.s - now.s - 1) * US = e.s * US - now.s * US - US BY <1>3
    <3>5. Ticks(left) = Ticks(e) - Ticks(now) BY <1>3, <3>1, <3>4 DEF Ticks
    <3>6. ~(Ticks(now) > Ticks(e)) BY <1>4, <2>2
    <3>. QED BY <1>1, <3>1, <3>3, <3>5, <3>6 DEF Clock
  <2>3. CASE ~Later(now, e) /\ ~(e.u < now.u)
    <3>1. left = [s |-> e.s - now.s, u |-> e.u - now.u] BY <1>2, <2>3
    <3>2. e.s >= now.s BY <1>3, <2>3 DEF Later
    <3>3. e.s - now.s \in Nat /\ e.u - now.u \in 0..(US - 1)
      BY <1>3, <2>3, <3>2
    <3>4. (e.s - now.s) * US = e.s * US - now.s * US BY <1>3
    <3>5. Ticks(left) = Ticks(e) - Ticks(now) BY <1>3, <3>1, <3>4 DEF Ticks
    <3>6. ~(Ticks(now) > Ticks(e)) BY <1>4, <2>3
    <3>. QED BY <1>1, <3>1, <3>3, <3>5, <3>6 DEF Clock
  <2>. QED BY <2>1, <2>2, <2>3
<1>6. /\ Ticks(start) \in Nat /\ Ticks(length) \in Nat
      /\ Ticks(e) \in Nat /\ Ticks(now) \in Nat
  BY <1>1, TicksNat DEF TypeOK, Clock
<1>. QED BY <1>1, <1>5, <1>6 DEF left

\* What ar_timeleft() tells select() to sleep ends exactly when the retry interval
\* does, whatever the carries and borrows.
THEOREM SleepsAlways == Spec => []SleepsExactly
<1>1. TypeOK => SleepsExactly
  <2>. SUFFICES ASSUME TypeOK PROVE SleepsExactly
    OBVIOUS
  <2>1. sent \in Clock /\ retry \in Clock
    BY ArClockAssumption DEF TypeOK, Clock
  <2>. DEFINE left == TimeLeft(sent, retry)
  <2>2. /\ left \in Clock
        /\ Ticks(left) = IF Ticks(now) > Ticks(sent) + Ticks(retry) THEN 0
                         ELSE Ticks(sent) + Ticks(retry) - Ticks(now)
    BY <2>1, TimeLeftTicks
  <2>. HIDE DEF left
  <2>3. left.u \in 0..(US - 1) /\ left.s >= 0 BY <2>2 DEF Clock
  <2>4. /\ Ticks(now) \in Nat /\ Ticks(sent) \in Nat /\ Ticks(retry) \in Nat
    BY <2>1, TicksNat DEF TypeOK, Clock
  <2>. QED BY <2>2, <2>3, <2>4 DEF SleepsExactly, left
<1>. QED BY <1>1, TypeCorrect, PTL

\* The computations of a query's end agree, though they carry differently.
THEOREM OnTimeAlways == Spec => []OnTime
<1>1. TypeOK => OnTime
  <2>. SUFFICES ASSUME TypeOK PROVE OnTime
    OBVIOUS
  <2>. USE ArClockAssumption
  <2>. DEFINE zero == [s |-> 0, u |-> 0]
              left == TimeLeft(zero, expiry)
  <2>1. sent \in Clock /\ retry \in Clock /\ zero \in Clock /\ Ticks(zero) = 0
    BY DEF TypeOK, Clock, Ticks
  <2>2. Ticks(now) \in Nat /\ Ticks(expiry) \in Nat
    BY TicksNat DEF TypeOK, Clock
  <2>3. Ticks(left) = IF Ticks(now) > Ticks(zero) + Ticks(expiry) THEN 0
                      ELSE Ticks(zero) + Ticks(expiry) - Ticks(now)
    BY <2>1, TimeLeftTicks DEF TypeOK
  <2>4. PICK end \in Loose : /\ Elapsed(sent, retry) <=> Later(now, end)
                             /\ Ticks(end) = Ticks(sent) + Ticks(retry)
    BY <2>1, Sums DEF TypeOK
  <2>5. now \in Loose BY DEF TypeOK, Clock, Loose
  <2>6. /\ Later(now, end) => Ticks(now) >= Ticks(end)
        /\ ~Later(now, end) => Ticks(now) <= Ticks(end)
    BY <2>4, <2>5, LooseOrder
  <2>7. Ticks(end) \in Nat BY <2>4, TicksNat DEF Loose
  <2>8. IsExpired(expiry) <=> Ticks(now) > Ticks(expiry)
    BY Order DEF TypeOK, IsExpired
  <2>. HIDE DEF left, zero
  <2>9. /\ Ticks(now) + Ticks(left) >= Ticks(expiry)
        /\ Ticks(left) > 0 => ~(Ticks(now) > Ticks(expiry))
    BY <2>1, <2>2, <2>3
  <2>10. Ticks(now) > Ticks(end) => Elapsed(sent, retry)
    BY <2>2, <2>4, <2>6, <2>7
  <2>. QED BY <2>4, <2>6, <2>8, <2>9, <2>10 DEF OnTime, left, zero
<1>. QED BY <1>1, TypeCorrect, PTL

\* ar_waitreply() waits exactly until the earlier of the query's deadline and its
\* caller's, and takes the query's for its own only when it is the earlier one;
\* only a full second of microseconds makes a deadline that is refused.
THEOREM NeverPast == Spec => NeverPastExpiry
<1>. DEFINE Exact(i) ==
       LET u == UntilOf(CallDeadline(i)) IN
       /\ Valid(u) => /\ Ticks(u) <= Ticks(expiry)
                      /\ Ticks(u) <= Ticks(now) + Ticks(i)
                      /\ Ticks(u) \in {Ticks(expiry), Ticks(now) + Ticks(i)}
       /\ u.main => Valid(u) /\ Ticks(expiry) <= Ticks(now) + Ticks(i)
       /\ ~Valid(u) => now.u + i.u = US
<1>1. TypeOK => \A i \in Intervals : Exact(i)
  <2>. SUFFICES ASSUME TypeOK, NEW i \in Intervals PROVE Exact(i)
    OBVIOUS
  <2>. USE ArClockAssumption
  <2>. DEFINE d == CallDeadline(i)
  <2>1. i \in Clock /\ expiry \in Loose BY DEF TypeOK, Clock, Loose
  <2>2. /\ d \in Loose /\ Ticks(d) = Ticks(now) + Ticks(i)
        /\ d.u = US => now.u + i.u = US
    BY <2>1, Sums DEF TypeOK
  <2>. HIDE DEF d
  <2>3. Ticks(d) \in Nat /\ Ticks(expiry) \in Nat
    BY <2>1, <2>2, TicksNat DEF Loose
  <2>4. /\ Later(d, expiry) => Ticks(d) >= Ticks(expiry)
        /\ ~Later(d, expiry) => Ticks(d) <= Ticks(expiry)
    BY <2>1, <2>2, LooseOrder
  <2>5. CASE Later(d, expiry)
    <3>1. /\ Ticks(UntilOf(d)) = Ticks(expiry) /\ UntilOf(d).main
          /\ UntilOf(d).u = expiry.u
      BY <2>5 DEF UntilOf, Ticks
    <3>2. Valid(UntilOf(d)) BY <3>1 DEF Valid, TypeOK, Clock
    <3>. QED BY <2>2, <2>3, <2>4, <2>5, <3>1, <3>2 DEF d
  <2>6. CASE ~Later(d, expiry)
    <3>1. /\ Ticks(UntilOf(d)) = Ticks(d) /\ ~UntilOf(d).main
          /\ UntilOf(d).u = d.u
      BY <2>6 DEF UntilOf, Ticks
    <3>2. ~Valid(UntilOf(d)) => d.u = US BY <2>2, <3>1 DEF Valid, Loose
    <3>. QED BY <2>2, <2>3, <2>4, <2>6, <3>1, <3>2 DEF d
  <2>. QED BY <2>5, <2>6
<1>. HIDE DEF Exact
<1>2. TypeOK /\ [Next]_vars =>
        [\A i \in Intervals : until' # until /\ until' = UntilOf(CallDeadline(i)) =>
            /\ Valid(until') => /\ Ticks(until') <= Ticks(expiry)
                                /\ Ticks(until') <= Ticks(now) + Ticks(i)
                                /\ Ticks(until') \in {Ticks(expiry), Ticks(now) + Ticks(i)}
            /\ until'.main => Valid(until') /\ Ticks(expiry) <= Ticks(now) + Ticks(i)
            /\ ~Valid(until') => now.u + i.u = US]_vars
  BY <1>1 DEF Exact
<1>. QED BY <1>2, TypeCorrect, PTL DEF Spec, NeverPastExpiry
=============================================================================
