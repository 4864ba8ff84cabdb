---------------------------- MODULE FilterProofs ----------------------------
(***************************************************************************)
(* Proofs about the callbacks of Filter, for all mail, all settings and    *)
(* all failures: what is kept from one message to the next on a            *)
(* connection, whatever libopendkim returns, and that a pass is told only  *)
(* of a signature that is good, from what DkimLibProofs says of the calls. *)
(***************************************************************************)
EXTENDS Filter, DkimLibProofs, FiniteSetTheorems

ContextFields ==
    {"live", "hdrs", "rcpts", "signing", "addheader", "headeronly", "status", "susp",
     "policy", "handle", "dkim"}

\* The MTA is at a place of the transaction that allows for what it has passed.
Placed(m) ==
    /\ DOMAIN m = {"at", "mail", "n", "body", "to"} /\ m.mail \in Mails
    /\ m.n \in Nat /\ m.n <= Len(m.mail.fields)
    /\ m.at = "rcpt" => m.n = 0
    /\ m.at \in {"body", "skip"} => m.n = Len(m.mail.fields)

\* A context holds what the MTA has passed of this message, and signs only mail of
\* our own.
Own(c, m) ==
    c.live =>
        /\ c.hdrs = SubSeq(m.mail.fields, 1, m.n)
        /\ c.rcpts \subseteq m.to
        /\ c.signing => m.at \in {"body", "skip"} /\ m.mail.own /\ m.mail.local

IInv ==
    /\ conf \in Configs
    /\ DOMAIN dfc = ContextFields /\ Placed(mta) /\ DOMAIN out = DOMAIN Nothing
    /\ mta.at # "done" => Own(dfc, mta) /\ out = Nothing
    /\ out.signed = 1 => Mine
    /\ ClaimsRemoved

\* The fields with these numbers are those that the configuration names.
RightOnes(fields, numbers) ==
    \A i \in 1..Len(fields) :
        i \in Removed(fields, numbers) <=> IsAuthRes(fields[i]) /\ Claims(fields[i])

AreRemoved ==
    Delivered /\ Ended /\ out.changes /\ ~Mine => RightOnes(mta.mail.fields, out.gone)

\* ClaimsRemoved in terms of them.
LEMMA ClaimsForm == ClaimsRemoved <=> AreRemoved
BY DEF ClaimsRemoved, AreRemoved, RightOnes

\* The counter of the loop over the fields, and what it makes of a field.
LEMMA NumberCounts ==
    ASSUME NEW fields, NEW i \in Nat
    PROVE  /\ Number(fields, i) \in Nat
           /\ i = 0 => Number(fields, i) = 0
           /\ i # 0 => Number(fields, i) = Number(fields, i - 1) + (IF IsAuthRes(fields[i]) THEN 1 ELSE 0)
<1>. DEFINE Upto(n) == {j \in 1..n : IsAuthRes(fields[j])}
<1>1. \A n \in Nat : IsFiniteSet(Upto(n))
  <2>1. TAKE n \in Nat
  <2>2. IsFiniteSet(1..n) BY FS_Interval
  <2>. QED BY <2>2, FS_Subset
<1>2. Number(fields, i) = Cardinality(Upto(i)) BY DEF Number
<1>3. Number(fields, i) \in Nat BY <1>1, <1>2, FS_CardinalityType
<1>4. ASSUME i = 0 PROVE Number(fields, i) = 0
  <2>1. Upto(i) = {} BY <1>4
  <2>. QED BY <1>2, <2>1, FS_EmptySet
<1>5. ASSUME i # 0
      PROVE  Number(fields, i) = Number(fields, i - 1) + (IF IsAuthRes(fields[i]) THEN 1 ELSE 0)
  <2>1. i - 1 \in Nat /\ Number(fields, i - 1) = Cardinality(Upto(i - 1)) BY <1>5 DEF Number
  <2>2. CASE IsAuthRes(fields[i])
    <3>1. Upto(i) = Upto(i - 1) \cup {i} /\ i \notin Upto(i - 1) BY <1>5, <2>2
    <3>2. Cardinality(Upto(i)) = Cardinality(Upto(i - 1)) + 1
      <4>. HIDE DEF Upto
      <4>. QED BY <1>1, <2>1, <3>1, FS_AddElement
    <3>. QED BY <1>2, <2>1, <2>2, <3>2
  <2>3. CASE ~IsAuthRes(fields[i])
    <3>1. Upto(i) = Upto(i - 1) BY <1>5, <2>3
    <3>2. Cardinality(Upto(i - 1)) \in Nat BY <1>1, <2>1, FS_CardinalityType
    <3>. QED BY <1>2, <2>1, <2>3, <3>1, <3>2
  <2>. QED BY <2>2, <2>3
<1>. QED BY <1>3, <1>4, <1>5

\* What the loop has found in the first i fields: the count, and the numbers of those
\* that are to go, which are among the numbers given so far.
Counted(fields, i, acc) ==
    /\ acc.at = Number(fields, i)
    /\ \A n \in acc.gone : n \in Nat /\ n <= acc.at
    /\ \A j \in 1..i : IsAuthRes(fields[j]) =>
          /\ Number(fields, j) <= acc.at
          /\ Number(fields, j) \in acc.gone <=> Claims(fields[j])

\* One turn of the loop.
LEMMA AresStepCounts ==
    ASSUME NEW fields, NEW i \in Nat, i # 0, NEW acc, Counted(fields, i - 1, acc)
    PROVE  Counted(fields, i, AresStep(acc, fields[i]))
<1>0. i - 1 \in Nat OBVIOUS
<1>1. /\ Number(fields, i - 1) \in Nat
      /\ Number(fields, i) = Number(fields, i - 1) + (IF IsAuthRes(fields[i]) THEN 1 ELSE 0)
      /\ \A j \in 1..i : Number(fields, j) \in Nat
  BY <1>0, NumberCounts
<1>2. PICK r : r = AresStep(acc, fields[i]) OBVIOUS
<1>3. /\ acc.at = Number(fields, i - 1)
      /\ \A n \in acc.gone : n \in Nat /\ n <= acc.at
      /\ \A j \in 1..(i - 1) : IsAuthRes(fields[j]) =>
            /\ Number(fields, j) <= acc.at
            /\ Number(fields, j) \in acc.gone <=> Claims(fields[j])
  BY DEF Counted
<1>4. CASE ~IsAuthRes(fields[i])
  <2>1. r = acc BY <1>2, <1>4 DEF AresStep, IsAuthRes
  <2>2. acc.at = Number(fields, i) BY <1>1, <1>3, <1>4
  <2>3. \A j \in 1..i : IsAuthRes(fields[j]) => j \in 1..(i - 1) BY <1>4
  <2>4. Counted(fields, i, acc) BY <1>3, <2>2, <2>3 DEF Counted
  <2>. QED BY <1>2, <2>1, <2>4
<1>5. CASE IsAuthRes(fields[i])
  <2>1. /\ r.at = acc.at + 1
        /\ r.gone = IF Claims(fields[i]) THEN acc.gone \cup {acc.at + 1} ELSE acc.gone
    <3>1. CASE AresParse(fields[i]).st = "failed"
      <4>1. r = [acc EXCEPT !.at = acc.at + 1] BY <1>2, <1>5, <3>1 DEF AresStep, IsAuthRes
      <4>2. ~Claims(fields[i]) BY <3>1 DEF Claims
      <4>. QED BY <4>1, <4>2
    <3>2. CASE AresParse(fields[i]).st # "failed"
      <4>1. PICK b : b = (MethodMatch(AresParse(fields[i])) /\ HostMatch(AresParse(fields[i]))) OBVIOUS
      <4>2. r = [at |-> acc.at + 1, gone |-> IF b THEN acc.gone \cup {acc.at + 1} ELSE acc.gone]
        BY <1>2, <1>5, <3>2, <4>1, Zenon DEF AresStep, IsAuthRes
      <4>3. AresParse(fields[i]).st = "ok" BY <3>2 DEF AresParse
      <4>4. Claims(fields[i]) <=> b BY <4>1, <4>3 DEF Claims
      <4>. QED BY <4>2, <4>4
    <3>. QED BY <3>1, <3>2
  <2>2. r.at = Number(fields, i) BY <1>1, <1>3, <1>5, <2>1
  <2>3. acc.at + 1 \notin acc.gone /\ acc.at \in Nat BY <1>1, <1>3
  <2>4. \A n \in r.gone : n \in Nat /\ n <= r.at
    BY <1>3, <2>1, <2>3
  <2>5. ASSUME NEW j \in 1..i, IsAuthRes(fields[j])
        PROVE  /\ Number(fields, j) <= r.at
               /\ Number(fields, j) \in r.gone <=> Claims(fields[j])
    <3>1. CASE j = i BY <2>1, <2>2, <2>3, <3>1
    <3>2. CASE j # i
      <4>1. j \in 1..(i - 1) BY <3>2
      <4>2. Number(fields, j) <= acc.at /\ Number(fields, j) \in Nat BY <1>1, <1>3, <2>5, <4>1
      <4>3. Number(fields, j) # acc.at + 1 BY <2>3, <4>2
      <4>4. Number(fields, j) \in r.gone <=> Number(fields, j) \in acc.gone BY <2>1, <4>3
      <4>. QED BY <1>3, <2>1, <2>3, <2>5, <4>1, <4>2, <4>4
    <3>. QED BY <3>1, <3>2
  <2>6. Counted(fields, i, r) BY <2>2, <2>4, <2>5 DEF Counted
  <2>. QED BY <1>2, <2>6
<1>. QED BY <1>4, <1>5

\* What the loop over the fields goes through.
AresRun(run, fields) ==
    run = [i \in 0..Len(fields) |-> IF i = 0 THEN [at |-> 0, gone |-> {}] ELSE AresStep(run[i - 1], fields[i])]

LEMMA AresRunExists ==
    ASSUME NEW fields, Len(fields) \in Nat
    PROVE  \E run : AresRun(run, fields)
<1>0. PICK n \in Nat : n = Len(fields) OBVIOUS
<1>. DEFINE base == [at |-> 0, gone |-> {}]
            S == [at : Nat, gone : SUBSET Nat]
            table == [p \in S \X (1..n) |-> AresStep(p[1], fields[p[2]])]
<1>1. PICK run : IsRun(run, "Table", [step |-> table], base, n) BY RunExists
<1>2. \A i \in 0..n : run[i] = IF i = 0 THEN base ELSE table[<<run[i - 1], i>>] BY <1>1 DEF IsRun, LoopBody
<1>3. ASSUME NEW x \in S, NEW i \in 1..n
      PROVE  AresStep(x, fields[i]) \in S /\ table[<<x, i>>] = AresStep(x, fields[i])
  <2>1. table[<<x, i>>] = AresStep(x, fields[i])
    <3>1. <<x, i>> \in S \X (1..n) OBVIOUS
    <3>. QED BY <3>1
  <2>2. x.at + 1 \in Nat /\ x.gone \cup {x.at + 1} \in SUBSET Nat BY <1>3
  <2>3. AresStep(x, fields[i]) \in S BY <1>3, <2>2 DEF AresStep
  <2>. QED BY <2>1, <2>3
<1>. DEFINE A == {i \in 0..n : run[i] \in S}
<1>4. base \in S OBVIOUS
<1>. HIDE DEF table, S, base
<1>5. 0 \in A
  <2>0. 0 \in 0..n OBVIOUS
  <2>1. run[0] = base BY <1>2, <2>0
  <2>. QED BY <1>4, <2>0, <2>1
<1>6. ASSUME NEW i \in 1..n, i - 1 \in A PROVE i \in A
  <2>1. i \in 0..n /\ i # 0 /\ run[i - 1] \in S BY <1>6
  <2>2. run[i] = table[<<run[i - 1], i>>] BY <1>2, <2>1
  <2>. QED BY <1>3, <2>1, <2>2
<1>7. 0..n \subseteq A
  <2>. HIDE DEF A
  <2>. QED BY <1>5, <1>6, Climb
<1>8. ASSUME NEW i \in 0..n PROVE run[i] = IF i = 0 THEN base ELSE AresStep(run[i - 1], fields[i])
  <2>1. CASE i = 0 BY <1>2, <2>1
  <2>2. CASE i # 0
    <3>1. i \in 1..n /\ run[i - 1] \in S BY <1>7, <2>2
    <3>. QED BY <1>2, <1>3, <2>2, <3>1
  <2>. QED BY <2>1, <2>2
<1>9. run = [i \in 0..n |-> IF i = 0 THEN base ELSE LoopBody("Table", [step |-> table], run[i - 1], i)]
  BY <1>1 DEF IsRun
<1>10. run = [i \in 0..n |-> IF i = 0 THEN base ELSE AresStep(run[i - 1], fields[i])]
  <2>1. run = [i \in 0..n |-> run[i]] BY <1>9
  <2>. QED BY <1>8, <2>1
<1>. QED BY <1>0, <1>10 DEF AresRun, base

\* The numbers that mlfi_eom() tells the MTA are those of the fields to be removed.
LEMMA RemovesRightOnes ==
    ASSUME NEW c, Len(c.hdrs) \in Nat, ~c.signing
    PROVE  RightOnes(c.hdrs, RemoveAuthRes(c))
<1>0. PICK n \in Nat : n = Len(c.hdrs) OBVIOUS
<1>. DEFINE fields == c.hdrs
            made == CHOOSE run : AresRun(run, fields)
<1>1. AresRun(made, fields) BY AresRunExists
<1>2. RemoveAuthRes(c) = made[n].gone BY <1>0 DEF RemoveAuthRes, Repeat, AresRun
<1>. HIDE DEF made
<1>3. ASSUME NEW i \in 0..n
      PROVE  made[i] = IF i = 0 THEN [at |-> 0, gone |-> {}] ELSE AresStep(made[i - 1], fields[i])
  BY <1>0, <1>1 DEF AresRun
<1>. DEFINE A == {i \in 0..n : Counted(fields, i, made[i])}
<1>4. 0 \in A
  <2>1. made[0] = [at |-> 0, gone |-> {}] BY <1>3
  <2>2. Number(fields, 0) = 0 BY NumberCounts
  <2>3. Counted(fields, 0, made[0]) BY <2>1, <2>2 DEF Counted
  <2>. QED BY <2>3
<1>5. ASSUME NEW i \in 1..n, i - 1 \in A PROVE i \in A
  <2>1. i \in 0..n /\ i # 0 /\ Counted(fields, i - 1, made[i - 1]) BY <1>5
  <2>2. Counted(fields, i, AresStep(made[i - 1], fields[i])) BY <2>1, AresStepCounts
  <2>3. made[i] = AresStep(made[i - 1], fields[i]) BY <1>3, <2>1
  <2>. QED BY <2>1, <2>2, <2>3
<1>6. n \in A
  <2>1. 0..n \subseteq A
    <3>. HIDE DEF A
    <3>. QED BY <1>4, <1>5, Climb
  <2>. QED BY <2>1
<1>7. Counted(fields, n, made[n]) BY <1>6
<1>8. \A i \in 1..n : IsAuthRes(fields[i]) => (Number(fields, i) \in made[n].gone <=> Claims(fields[i]))
  BY <1>7 DEF Counted
<1>. QED BY <1>0, <1>2, <1>8 DEF RightOnes, Removed

-----------------------------------------------------------------------------
(* What a callback leaves of the context.                                  *)

\* d is c in another state of the same message.
Kept(c, d) ==
    /\ DOMAIN d = ContextFields /\ d.live = c.live /\ d.hdrs = c.hdrs
    /\ d.rcpts = c.rcpts /\ d.signing = c.signing

\* A new context holds nothing yet.
LEMMA NewContextFields ==
    /\ DOMAIN NewContext = ContextFields /\ NewContext.live = TRUE
    /\ NewContext.hdrs = <<>> /\ NewContext.rcpts = {} /\ NewContext.signing = FALSE
    /\ DOMAIN NoContext = ContextFields /\ NoContext.live = FALSE
BY DEF NewContext, NoContext, ContextFields

\* Passing the fields to the handle leaves the rest alone.
LEMMA RunHeadersKeeps ==
    ASSUME NEW c, DOMAIN c = ContextFields
    PROVE  Kept(c, RunHeaders(c).c)
<1>1. PICK d : RunHeaders(c).c = [c EXCEPT !.dkim = d] BY DEF RunHeaders, Says
<1>. QED BY <1>1 DEF Kept, ContextFields

\* So does telling it that the headers have ended.
LEMMA EohHandleKeeps ==
    ASSUME NEW c, DOMAIN c = ContextFields, NEW w
    PROVE  Kept(c, EohHandle(c, w).c)
<1>1. ASSUME NEW d, NEW st, DOMAIN d = ContextFields PROVE Kept(d, EohStatus(d, st).c)
  BY <1>1 DEF EohStatus, Says, Kept, ContextFields
<1>2. PICK d, st : EohHandle(c, w) = EohStatus([c EXCEPT !.dkim = d], st)
  BY DEF EohHandle, EohTold
<1>3. PICK t : t = [c EXCEPT !.dkim = d] OBVIOUS
<1>4. Kept(c, t) BY <1>3 DEF Kept, ContextFields
<1>5. Kept(t, EohStatus(t, st).c) BY <1>1, <1>4 DEF Kept
<1>6. EohHandle(c, w) = EohStatus(t, st) BY <1>2, <1>3
<1>. QED BY <1>4, <1>5, <1>6 DEF Kept

\* mlfi_eoh() settles whether the message is signed, and nothing else of it.
LEMMA EohKeeps ==
    ASSUME NEW c, DOMAIN c = ContextFields, NEW m, NEW fails, NEW w, c.live
    PROVE  LET d == EohCallback(c, m, fails, w).c
           IN  /\ DOMAIN d = ContextFields
               /\ d.live => /\ d.hdrs = c.hdrs /\ d.rcpts = c.rcpts
                            /\ d.signing => c.signing \/ (m.own /\ m.local)
<1>. DEFINE signing == m.own /\ m.local
            b == [c EXCEPT !.signing = signing, !.addheader = signing \/ @]
            h == [b EXCEPT !.handle = TRUE,
                           !.dkim = New(IF signing THEN "sign" ELSE "verify", conf.lib)]
            run == RunHeaders(h)
            OK(d) == /\ DOMAIN d = ContextFields
                     /\ d.live => /\ d.hdrs = c.hdrs /\ d.rcpts = c.rcpts
                                  /\ d.signing => c.signing \/ signing
<1>1. OK(c) OBVIOUS
<1>2. OK(b) /\ OK(h) /\ DOMAIN h = ContextFields BY DEF ContextFields
<1>3. ASSUME NEW d, OK(d) PROVE OK(BadFormat(d).c)
  BY <1>3 DEF BadFormat, Says, ContextFields
<1>4. ASSUME NEW d, NEW e, OK(d), Kept(d, e) PROVE OK(e)
  BY <1>4 DEF Kept
<1>5. OK(NoContext) BY NewContextFields
<1>6. OK(run.c)
  <2>1. Kept(h, run.c) BY <1>2, RunHeadersKeeps
  <2>. HIDE DEF OK, h, run
  <2>. QED BY <1>2, <1>4, <2>1
<1>7. OK(EohHandle(run.c, w).c) BY <1>4, <1>6, EohHandleKeeps
<1>8. EohCallback(c, m, fails, w).c \in
        {BadFormat(c).c, NoContext, b, BadFormat(h).c, run.c, EohHandle(run.c, w).c}
  BY DEF EohCallback, Asserted, Says
<1>. HIDE DEF b, h, run
<1>9. OK(EohCallback(c, m, fails, w).c)
  BY <1>1, <1>2, <1>3, <1>5, <1>6, <1>7, <1>8
<1>. QED BY <1>9

\* mlfi_body() leaves the message alone.
LEMMA BodyKeeps ==
    ASSUME NEW c, DOMAIN c = ContextFields
    PROVE  Kept(c, BodyCallback(c).c)
<1>1. Kept(c, [c EXCEPT !.dkim = Body(c.dkim).d]) BY DEF Kept, ContextFields
<1>2. Kept(c, c) BY DEF Kept
<1>3. BodyCallback(c).c \in {c, [c EXCEPT !.dkim = Body(c.dkim).d]}
  BY DEF BodyCallback, Asserted, Says
<1>. QED BY <1>1, <1>2, <1>3

\* What dkim_eom() said leaves it alone.
LEMMA EomHandleKeeps ==
    ASSUME NEW c, DOMAIN c = ContextFields, NEW w
    PROVE  Kept(c, EomHandle(c, w).c)
<1>1. ASSUME NEW d, NEW st, DOMAIN d = ContextFields PROVE Kept(d, EomStatus(d, st).c)
  BY <1>1 DEF EomStatus, Says, Kept, ContextFields
<1>2. Kept(c, c) BY DEF Kept
<1>3. CASE EomHandle(c, w).c = c BY <1>2, <1>3
<1>4. CASE EomHandle(c, w).c # c
  <2>1. PICK d, st : EomHandle(c, w) = EomStatus([c EXCEPT !.dkim = d], st)
    BY <1>4 DEF EomHandle, EomTold, Says
  <2>2. PICK t : t = [c EXCEPT !.dkim = d] OBVIOUS
  <2>3. Kept(c, t) BY <2>2 DEF Kept, ContextFields
  <2>4. Kept(t, EomStatus(t, st).c) BY <1>1, <2>3 DEF Kept
  <2>5. EomHandle(c, w) = EomStatus(t, st) BY <2>1, <2>2
  <2>. QED BY <2>3, <2>4, <2>5 DEF Kept
<1>. QED BY <1>3, <1>4

OutFields ==
    {"dkim", "adsp", "signed", "gone", "unsigned", "quarantined", "result", "found", "changes"}

\* What was done to a message whose context was c: it is signed only if that was
\* settled, and the forged claims are removed if the MTA takes changes.
DidOK(c, did, changes) ==
    /\ DOMAIN did = OutFields
    /\ did.signed = 1 => c.signing
    /\ changes => did.gone = RemoveAuthRes(c)

\* Judging a message changes no field of it.
LEMMA JudgeKeeps ==
    ASSUME NEW c, DOMAIN c = ContextFields, NEW p
    PROVE  DOMAIN Judge(Measured(c), p).c = ContextFields
<1>1. PICK m : m = Measured(c) OBVIOUS
<1>2. DOMAIN m = ContextFields BY <1>1 DEF Measured, ContextFields
<1>. DEFINE known == [m EXCEPT !.policy = TRUE]
            b == [known EXCEPT !.susp = TRUE, !.addheader = TRUE]
<1>3. DOMAIN known = ContextFields /\ DOMAIN b = ContextFields
  BY <1>2 DEF ContextFields
<1>4. Judge(m, p).c \in {m, NoContext, known, b} BY DEF Judge, Says
<1>. HIDE DEF known, b
<1>. QED BY <1>1, <1>2, <1>3, <1>4, NewContextFields

\* The report adds to what was done.
LEMMA EomReportOK ==
    ASSUME NEW c, NEW j, DOMAIN j.c = ContextFields, NEW p, NEW did,
           NEW changes \in BOOLEAN, DidOK(c, did, changes)
    PROVE  /\ DOMAIN EomReport(j, p, did, changes).c = ContextFields
           /\ DidOK(c, EomReport(j, p, did, changes).did, changes)
<1>. DEFINE h == Hushed(j.c)
            dkim == IF h.handle THEN DkimResult(h) ELSE did.dkim
            more == [did EXCEPT !.dkim = dkim, !.adsp = AdspResult(h, p)]
<1>1. DOMAIN h = ContextFields BY DEF Hushed, ContextFields
<1>2. DidOK(c, more, changes) BY DEF DidOK, OutFields
<1>3. ASSUME NEW d, DidOK(c, d, changes), NEW q
      PROVE  DidOK(c, [d EXCEPT !.quarantined = q], changes)
  BY <1>3 DEF DidOK, OutFields
<1>. DEFINE told == IF changes /\ Reports(j.c) /\ h.addheader THEN more ELSE did
<1>4. DidOK(c, told, changes) BY <1>2
<1>5. EomReport(j, p, did, changes) =
        IF j.ret # "continue" THEN Ends(j, did)
        ELSE IF conf.addxhdr /\ ~changes THEN Ends(Says(NoContext, "tempfail"), did)
        ELSE Ends(Says(h, Translate(h, p.st)), [told EXCEPT !.quarantined = Quarantined(j.c)])
  <2>1. more = [did EXCEPT !.dkim = IF h.handle THEN DkimResult(h) ELSE @,
                           !.adsp = AdspResult(h, p)]
    BY DEF DidOK, OutFields
  <2>. QED BY <2>1 DEF EomReport
<1>6. /\ EomReport(j, p, did, changes).c \in {j.c, NoContext, h}
      /\ EomReport(j, p, did, changes).did
           \in {did, [told EXCEPT !.quarantined = Quarantined(j.c)]}
  <2>. HIDE DEF h, told
  <2>. QED BY <1>5 DEF Ends, Says
<1>. HIDE DEF h, told
<1>. QED BY <1>1, <1>3, <1>4, <1>6, NewContextFields

\* mlfi_eom() signs what mlfi_eoh() settled to sign, and removes the forged claims
\* before it does anything else.
LEMMA EomKeeps ==
    ASSUME NEW c, DOMAIN c = ContextFields, NEW w, NEW found,
           NEW changes \in BOOLEAN, NEW fails \in BOOLEAN
    PROVE  LET r == EomCallback(c, w, found, changes, fails)
           IN  /\ DOMAIN r.c = ContextFields /\ DOMAIN r.did = OutFields
               /\ r.did.signed = 1 => c.live /\ c.signing
               /\ r.ret \in {"accept", "continue"} /\ changes
                    => c.live /\ r.did.gone = RemoveAuthRes(c)
<1>. DEFINE r == EomCallback(c, w, found, changes, fails)
            did == IF changes
                   THEN [Nothing EXCEPT !.gone = RemoveAuthRes(c), !.unsigned = RemoveSigs(c)]
                   ELSE Nothing
<1>1. DOMAIN Nothing = OutFields /\ Nothing.signed = 0 BY DEF Nothing, OutFields
<1>2. did.signed = 0 /\ DidOK(c, did, changes) BY <1>1 DEF DidOK, OutFields
<1>3. CASE ~c.live \/ (fails /\ ~c.signing)
  <2>1. r = Ends(Says(c, "ABORT"), Nothing) \/ r = Ends(Says(c, "tempfail"), Nothing)
    BY <1>3 DEF EomCallback
  <2>2. r.c = c /\ r.did = Nothing /\ r.ret \in {"ABORT", "tempfail"}
    BY <2>1 DEF Ends, Says
  <2>. HIDE DEF r
  <2>3. r.did.signed # 1 BY <1>1, <2>2
  <2>. QED BY <1>1, <2>2, <2>3 DEF r
<1>4. CASE c.live /\ ~(fails /\ ~c.signing)
  <2>1. PICK e : e = EomHandle(c, w) OBVIOUS
  <2>2. Kept(c, e.c) BY <2>1, EomHandleKeeps
  <2>3. r = EomJudged(e, found, did, changes) BY <1>4, <2>1 DEF EomCallback
  <2>. HIDE DEF did
  <2>. DEFINE sign == e.c.signing /\ ~e.c.headeronly /\ e.c.handle
              p == Practice(e.c, found)
              more == [did EXCEPT !.signed = IF sign /\ changes THEN 1 ELSE 0]
              j == Judge(Measured(e.c), p)
  <2>4. DidOK(c, more, changes) BY <1>2, <2>2 DEF DidOK, OutFields, Kept
  <2>5. DOMAIN j.c = ContextFields BY <2>2, JudgeKeeps DEF Kept
  <2>6. \/ r \in {Ends(e, did), Ends(Says(e.c, "tempfail"), did), Ends(Says(e.c, "ABORT"), did)}
        \/ r = EomReport(j, p, more, changes)
    BY <2>3 DEF EomJudged
  <2>. HIDE DEF r, j, p, more
  <2>7. DOMAIN r.c = ContextFields /\ DidOK(c, r.did, changes)
    <3>1. CASE r = EomReport(j, p, more, changes) BY <2>4, <2>5, <3>1, EomReportOK
    <3>2. CASE r # EomReport(j, p, more, changes)
      <4>1. r.c = e.c /\ r.did = did BY <2>6, <3>2 DEF Ends, Says
      <4>. QED BY <1>2, <2>2, <4>1 DEF Kept
    <3>. QED BY <3>1, <3>2
  <2>. QED BY <1>4, <2>7 DEF DidOK, r
<1>. QED BY <1>3, <1>4

-----------------------------------------------------------------------------
(* The handle that reads a message.                                        *)

\* A signature of neither the author nor a trusted domain is ignored where third
\* parties are screened.
Sifted(d) ==
    conf.lib.prescreen =>
        \A i \in 1..Len(d.sigs) : d.sigs[i].ignore \/ d.sigs[i].spec.key \in AuthorKeys \cup conf.trusted

\* Before the end of the message; once the headers were run, the handle holds this
\* message.
Reads(d, mail) ==
    /\ HandleOK(d, Keys, FALSE) /\ d.mode = "verify" /\ d.chunk = "INIT" /\ TakesBody(d)
    /\ d.lib = conf.lib
    /\ d.hdrsrun => d.hdrs = mail.fields /\ FromFields(d.sigs, d.hdrs) /\ Sifted(d)

\* The body it was passed is the body the MTA passed; the MTA was told to skip the
\* rest only if no signature reaches beyond that.
Covered(d) == \A i \in 1..Len(d.sigs) : d.sigs[i].canon => d.sigs[i].len # -1 /\ d.sigs[i].len <= d.fed
Measures(c, m) == c.dkim.hdrsrun /\ ~c.headeronly => c.dkim.fed = m.body /\ (m.at = "skip" => Covered(c.dkim))

Fresh(c, m) ==
    c.live =>
        /\ c.status # "GOOD" /\ ~c.policy
        /\ m.at \in {"body", "skip"} \/ ~c.handle
        /\ c.handle /\ ~c.signing => Reads(c.dkim, m.mail) /\ Measures(c, m)

\* What a lookup gets is published or nothing.
LEMMA Lookups ==
    ASSUME NEW w \in {Up, Down}
    PROVE  Records(Keys) /\ Honest(w, Keys, FALSE)
<1>1. Records(Keys) BY FilterAssumption DEF Records
<1>2. CASE w = Up
  <2>1. w.ans = Keys BY <1>2 DEF Up
  <2>. QED BY <1>1, <2>1 DEF Honest
<1>3. CASE w = Down
  <2>1. \A k \in DOMAIN Keys : w.ans[k].st = "KEYFAIL" BY <1>3 DEF Down
  <2>. QED BY <1>1, <2>1 DEF Honest
<1>. QED BY <1>1, <1>2, <1>3

LEMMA MailFacts ==
    ASSUME NEW m \in Mails
    PROVE  /\ IsSeq(m.fields) /\ Len(m.fields) \in Nat /\ m.body \in Nat
           /\ \A n \in 1..Len(m.fields) : IsField(m.fields[n], DOMAIN Keys) /\ m.fields[n].name # "empty"
<1>1. PICK S : S = Range(m.fields) OBVIOUS
<1>2. m.fields \in Seq(S) /\ m.body \in Nat BY <1>1, FilterAssumption
<1>3. \A n \in 1..Len(m.fields) : m.fields[n] \in Range(m.fields)
  <2>1. DOMAIN m.fields = 1..Len(m.fields) BY <1>2
  <2>. QED BY <2>1 DEF Range
<1>. QED BY <1>2, <1>3, FilterAssumption DEF IsSeq

\* A handle before the end of the headers.
Waits(d) ==
    /\ HandleOK(d, Keys, FALSE) /\ d.mode = "verify" /\ d.lib = conf.lib /\ d.chunk = "INIT" /\ d.state <= HEADER
    /\ ~d.siglist /\ ~d.skipbody /\ ~d.hdrsrun /\ ~d.bodydone /\ d.fed = 0

LEMMA NewWaits == Waits(New("verify", conf.lib)) /\ New("verify", conf.lib).hdrs = <<>>
<1>1. PICK e : e = New("verify", conf.lib) OBVIOUS
<1>2. HandleOK(e, Keys, FALSE) BY <1>1, NewFacts
<1>3. /\ e.mode = "verify" /\ e.lib = conf.lib /\ e.chunk = "INIT" /\ e.state = INIT
      /\ e.siglist = FALSE /\ e.skipbody = FALSE /\ e.hdrsrun = FALSE /\ e.bodydone = FALSE /\ e.fed = 0
      /\ e.hdrs = <<>>
  BY <1>1 DEF New
<1>4. e.state <= HEADER BY <1>3 DEF INIT, HEADER
<1>5. Waits(e) BY <1>2, <1>3, <1>4 DEF Waits
<1>. QED BY <1>1, <1>3, <1>5

\* It takes any field.
LEMMA HeaderWaits ==
    ASSUME NEW d, Waits(d), NEW h, IsField(h, DOMAIN Keys), h.name # "empty", NEW r, r = Header(d, h)
    PROVE  Waits(r.d) /\ r.d.hdrs = Append(d.hdrs, h) /\ r.ret \in {"OK", "SYNTAX"}
<1>1. DOMAIN d = HandleFields /\ d.state \in Nat BY HandleFacts DEF Waits
<1>2. ~(d.state > HEADER) /\ d.mode # "sign" BY <1>1 DEF Waits, HEADER
<1>3. /\ r.d = [d EXCEPT !.state = HEADER, !.hdrs = Append(@, h)]
      /\ r.ret \in {"OK", "SYNTAX"}
  BY <1>2 DEF Header, Is
<1>4. HandleOK(r.d, Keys, FALSE) BY <1>3, HeaderFacts DEF Waits
<1>5. PICK f : f = r.d OBVIOUS
<1>6. /\ f.mode = d.mode /\ f.lib = d.lib /\ f.chunk = d.chunk /\ f.state = HEADER /\ f.siglist = d.siglist
      /\ f.skipbody = d.skipbody /\ f.hdrsrun = d.hdrsrun /\ f.bodydone = d.bodydone /\ f.fed = d.fed
      /\ f.hdrs = Append(d.hdrs, h)
  BY <1>1, <1>3, <1>5 DEF HandleFields
<1>7. f.state <= HEADER BY <1>6 DEF HEADER
<1>8. Waits(f) BY <1>4, <1>5, <1>6, <1>7 DEF Waits
<1>. QED BY <1>3, <1>5, <1>6, <1>8

\* All fields of the message are passed to it.
LEMMA HeadersRun ==
    ASSUME NEW c, Waits(c.dkim), c.dkim.hdrs = <<>>, IsSeq(c.hdrs),
           \A n \in 1..Len(c.hdrs) : IsField(c.hdrs[n], DOMAIN Keys) /\ c.hdrs[n].name # "empty"
    PROVE  \E d : RunHeaders(c).c = [c EXCEPT !.dkim = d] /\ Waits(d) /\ d.hdrs = c.hdrs
<1>. DEFINE n == Len(c.hdrs)
            base == [d |-> c.dkim, ret |-> "continue"]
            code == [st \in {"ABORT", "INVALID", "SYNTAX"} |-> LibStatus(st)]
            step(acc, i) ==
                LET r == Header(acc.d, c.hdrs[i])
                IN  [d |-> r.d, ret |-> IF r.ret = "OK" THEN acc.ret ELSE LibStatus(r.ret)]
            Steps(run) == run = [i \in 0..n |-> IF i = 0 THEN base ELSE step(run[i - 1], i)]
            made == CHOOSE run : Steps(run)
            p == [hdrs |-> c.hdrs, code |-> code]
<1>1. PICK S : c.hdrs \in Seq(S) BY DEF IsSeq
<1>2. n \in Nat BY <1>1
<1>3. \A run : IsRun(run, "Headers", p, base, n) <=> Steps(run)
  <2>1. \A acc, i : LoopBody("Headers", p, acc, i) = step(acc, i)
    <3>1. TAKE acc, i
    <3>2. PICK r : r = Header(acc.d, c.hdrs[i]) OBVIOUS
    <3>3. r.ret \in {"ABORT", "INVALID", "OK", "SYNTAX"} BY <3>2 DEF Header, Is, Abort
    <3>4. r.ret # "OK" => code[r.ret] = LibStatus(r.ret) BY <3>3
    <3>5. LoopBody("Headers", p, acc, i) = [d |-> r.d, ret |-> IF r.ret = "OK" THEN acc.ret ELSE code[r.ret]]
      BY <3>2 DEF LoopBody
    <3>. QED BY <3>2, <3>4, <3>5
  <2>. HIDE DEF step, p
  <2>. QED BY <2>1 DEF IsRun
<1>4. Steps(made)
  <2>1. \E run : IsRun(run, "Headers", p, base, n) BY <1>2, RunExists
  <2>2. \E run : Steps(run)
    <3>. HIDE DEF step, p, Steps
    <3>. QED BY <1>3, <2>1
  <2>. HIDE DEF Steps
  <2>. QED BY <2>2
<1>5. RunHeaders(c).c = [c EXCEPT !.dkim = made[n].d] BY DEF RunHeaders, Repeat, Says
<1>. HIDE DEF made
<1>6. PICK run : run = made OBVIOUS
<1>7. Steps(run)
  <2>. HIDE DEF Steps
  <2>. QED BY <1>4, <1>6
<1>. DEFINE A == {m \in 0..n : Waits(run[m].d) /\ run[m].d.hdrs = SubSeq(c.hdrs, 1, m)}
<1>8. 0 \in A
  <2>1. run[0] = base BY <1>2, <1>7
  <2>2. SubSeq(c.hdrs, 1, 0) = <<>> BY <1>1
  <2>3. 0 \in 0..n BY <1>2
  <2>4. Waits(run[0].d) BY <2>1
  <2>5. run[0].d.hdrs = SubSeq(c.hdrs, 1, 0)
    <3>1. PICK k : k = SubSeq(c.hdrs, 1, 0) OBVIOUS
    <3>2. run[0].d = c.dkim BY ONLY <2>1
    <3>3. k = <<>> BY ONLY <2>2, <3>1
    <3>4. run[0].d.hdrs = k BY ONLY <3>2, <3>3, c.dkim.hdrs = <<>>
    <3>. QED BY ONLY <3>1, <3>4
  <2>. QED BY <2>3, <2>4, <2>5
<1>9. ASSUME NEW m \in 1..n, m - 1 \in A PROVE m \in A
  <2>1. PICK x : x = run[m - 1] OBVIOUS
  <2>2. Waits(x.d) /\ x.d.hdrs = SubSeq(c.hdrs, 1, m - 1) BY <1>9, <2>1
  <2>3. PICK r : r = Header(x.d, c.hdrs[m]) OBVIOUS
  <2>4. run[m].d = r.d
    <3>1. m \in 0..n /\ m # 0 OBVIOUS
    <3>2. run[m] = step(run[m - 1], m)
      <4>. HIDE DEF step
      <4>. QED BY <1>7, <3>1
    <3>. QED BY <2>1, <2>3, <3>2
  <2>5. Waits(r.d) /\ r.d.hdrs = Append(x.d.hdrs, c.hdrs[m]) BY <2>2, <2>3, HeaderWaits
  <2>6. Append(SubSeq(c.hdrs, 1, m - 1), c.hdrs[m]) = SubSeq(c.hdrs, 1, m) BY <1>1
  <2>7. m \in 0..n OBVIOUS
  <2>8. Waits(run[m].d) BY <2>4, <2>5
  <2>9. run[m].d.hdrs = SubSeq(c.hdrs, 1, m) BY <2>2, <2>4, <2>5, <2>6
  <2>. QED BY <2>7, <2>8, <2>9
<1>. HIDE DEF A
<1>10. 0..n \subseteq A BY <1>2, <1>8, <1>9, Climb
<1>11. Waits(run[n].d) /\ run[n].d.hdrs = SubSeq(c.hdrs, 1, n) BY <1>2, <1>10 DEF A
<1>12. SubSeq(c.hdrs, 1, n) = c.hdrs BY <1>1
<1>. QED BY <1>5, <1>6, <1>11, <1>12

\* A context in which no verdict was found yet and whose handle, if there is one, reads
\* the message.
Reading(c, mail) ==
    c.live => /\ c.status # "GOOD" /\ ~c.policy
              /\ c.handle /\ ~c.signing => Reads(c.dkim, mail) /\ c.dkim.fed = 0

\* The status that the end of the headers leaves.
LEMMA EohStatusReads ==
    ASSUME NEW c, DOMAIN c = ContextFields, c.status # "GOOD", NEW st, NEW x, x = EohStatus(c, st)
    PROVE  /\ x.c.status # "GOOD" /\ x.c.policy = c.policy /\ x.c.handle = c.handle
           /\ x.c.signing = c.signing /\ x.c.dkim = c.dkim
           /\ st = "ABORT" => x.ret = "ABORT"
<1>1. CASE st = "ABORT" BY <1>1 DEF EohStatus, Says
<1>2. CASE st = "NOSIG"
  <2>1. PICK a, h : x.c = [c EXCEPT !.status = "NOSIGNATURE", !.addheader = a, !.headeronly = h]
    BY <1>2 DEF EohStatus, Says
  <2>. QED BY <1>2, <2>1 DEF ContextFields
<1>3. CASE st \in {"REVOKED", "BADSIG", "NOKEY"}
  <2>1. PICK s : /\ s \in {"BAD", "REVOKED", "NOKEY"}
                 /\ x.c = [c EXCEPT !.status = s, !.addheader = TRUE, !.headeronly = TRUE]
    BY <1>3 DEF EohStatus, Says
  <2>. QED BY <1>3, <2>1 DEF ContextFields
<1>4. CASE st \notin {"ABORT", "NOSIG", "REVOKED", "BADSIG", "NOKEY"}
  <2>1. x.c = c BY <1>4 DEF EohStatus, Says
  <2>. QED BY <1>4, <2>1
<1>. QED BY <1>1, <1>2, <1>3, <1>4

\* Once the headers have ended the handle holds the list of signatures.
LEMMA EohReads ==
    ASSUME NEW mail \in Mails, NEW d, Waits(d), d.hdrs = mail.fields, NEW w \in {Up, Down}, NEW cb,
           cb = (IF conf.lib.prescreen THEN Prescreen(d) ELSE Silent),
           NEW r, r = Eoh(d, cb, w), r.ret # "ABORT"
    PROVE  Reads(r.d, mail) /\ r.d.fed = 0
<1>1. Records(Keys) /\ Honest(w, Keys, FALSE) BY Lookups
<1>2. cb.process = {} /\ ~cb.swap /\ cb.st = "CONTINUE" BY DEF Prescreen, Silent
<1>3. HandleOK(d, Keys, FALSE) /\ d.mode = "verify" /\ d.state <= HEADER /\ ~d.siglist /\ ~d.skipbody
      /\ d.lib = conf.lib /\ d.chunk = "INIT" /\ d.fed = 0
  BY DEF Waits
<1>4. PICK f : f = r.d OBVIOUS
<1>5. HandleOK(f, Keys, FALSE) BY <1>1, <1>3, <1>4, EohFacts
<1>6. Lists(f, d, cb.ignore) BY <1>1, <1>2, <1>3, <1>4, EohLists
<1>7. f.mode = "verify" /\ f.lib = conf.lib /\ f.hdrs = mail.fields /\ f.fed = 0 /\ f.chunk = "INIT" /\ TakesBody(f)
  BY <1>3, <1>6 DEF Lists, SameMail
<1>8. ASSUME f.hdrsrun PROVE FromFields(f.sigs, f.hdrs) /\ Sifted(f)
  <2>1. SameList(f.sigs, Setup(d)) BY <1>6, <1>8 DEF Lists
  <2>2. FromFields(Setup(d), d.hdrs)
    <3>1. Len(d.hdrs) \in Nat /\ \A j \in 1..Len(d.hdrs) : IsSig(d.hdrs[j].sig)
      BY MailFacts DEF IsField
    <3>. QED BY <3>1, SetupFrom
  <2>3. FromFields(f.sigs, d.hdrs) BY <2>1, <2>2, SameListSame
  <2>4. ASSUME conf.lib.prescreen, NEW i \in 1..Len(f.sigs)
        PROVE  f.sigs[i].ignore \/ f.sigs[i].spec.key \in AuthorKeys \cup conf.trusted
    <3>1. Len(f.sigs) = Len(Setup(d)) /\ f.sigs[i].spec = Setup(d)[i].spec BY <2>1, <2>4 DEF SameList
    <3>2. cb.ignore = {k \in 1..Len(Setup(d)) : Setup(d)[k].spec.key \notin AuthorKeys \cup conf.trusted}
      BY <2>4 DEF Prescreen, Silent
    <3>3. i \in cb.ignore => f.sigs[i].ignore BY <1>6, <1>7, <1>8, <2>4 DEF Lists
    <3>. QED BY <3>1, <3>2, <3>3
  <2>. QED BY <1>7, <2>3, <2>4 DEF Sifted
<1>. QED BY <1>4, <1>5, <1>7, <1>8 DEF Reads

\* A waiting handle has read nothing but the fields.
LEMMA WaitsReads ==
    ASSUME NEW d, Waits(d), NEW mail
    PROVE  Reads(d, mail) /\ d.fed = 0
BY DEF Waits, Reads, TakesBody

\* mlfi_eoh() makes a handle and lets it read the fields.
LEMMA EohCallbackReads ==
    ASSUME NEW mail \in Mails, NEW c, DOMAIN c = ContextFields, c.live, c.hdrs = mail.fields, ~c.handle,
           c.status # "GOOD", ~c.policy, NEW fails, NEW w \in {Up, Down},
           NEW x, x = EohCallback(c, mail, fails, w), x.ret # "ABORT"
    PROVE  Reading(x.c, mail)
<1>. DEFINE signing == mail.own /\ mail.local
            mode == IF signing THEN "sign" ELSE "verify"
            b == [c EXCEPT !.signing = signing, !.addheader = signing \/ @]
            h == [b EXCEPT !.handle = TRUE, !.dkim = New(mode, conf.lib)]
            run == RunHeaders(h)
<1>1. Reading(NoContext, mail) BY NewContextFields DEF Reading
<1>2. PICK y : y = b OBVIOUS
<1>3. /\ DOMAIN y = ContextFields /\ y.handle = c.handle /\ y.status = c.status /\ y.policy = c.policy
      /\ y.hdrs = c.hdrs /\ y.signing = signing
  BY <1>2 DEF ContextFields
<1>4. Reading(y, mail) BY <1>3 DEF Reading
<1>5. PICK z : z = h OBVIOUS
<1>6. z = [y EXCEPT !.handle = TRUE, !.dkim = New(mode, conf.lib)] BY <1>2, <1>5
<1>7. /\ DOMAIN z = ContextFields /\ z.status = c.status /\ z.policy = c.policy
      /\ z.hdrs = c.hdrs /\ z.signing = signing /\ z.dkim = New(mode, conf.lib)
  BY <1>3, <1>6 DEF ContextFields
<1>8. Reading(z, mail)
  <2>1. CASE signing BY <1>7, <2>1 DEF Reading
  <2>2. CASE ~signing
    <3>1. z.dkim = New("verify", conf.lib) BY <1>7, <2>2
    <3>2. Reads(z.dkim, mail) /\ z.dkim.fed = 0 BY <3>1, NewWaits, WaitsReads
    <3>. QED BY <1>7, <3>2 DEF Reading
  <2>. QED BY <2>1, <2>2
<1>9. ASSUME NEW d, DOMAIN d = ContextFields, Reading(d, mail) \/ ~d.handle, ~d.policy
      PROVE  Reading(BadFormat(d).c, mail)
  <2>1. PICK f : f = BadFormat(d).c OBVIOUS
  <2>2. f = [d EXCEPT !.addheader = TRUE, !.headeronly = TRUE, !.status = "BADFORMAT"]
    BY <2>1 DEF BadFormat, Says
  <2>3. /\ f.live = d.live /\ f.status = "BADFORMAT" /\ f.policy = d.policy /\ f.handle = d.handle
        /\ f.signing = d.signing /\ f.dkim = d.dkim
    BY <1>9, <2>2 DEF ContextFields
  <2>. QED BY <1>9, <2>1, <2>3 DEF Reading
<1>10. Reading(BadFormat(c).c, mail) BY <1>9
<1>11. Reading(BadFormat(z).c, mail) BY <1>7, <1>8, <1>9
<1>12. PICK q : q = RunHeaders(z) OBVIOUS
<1>13. \E d : q.c = [z EXCEPT !.dkim = d] BY <1>12 DEF RunHeaders, Says
<1>14. ~signing => \E d : q.c = [z EXCEPT !.dkim = d] /\ Waits(d) /\ d.hdrs = mail.fields
  <2>1. SUFFICES ASSUME ~signing PROVE \E d : q.c = [z EXCEPT !.dkim = d] /\ Waits(d) /\ d.hdrs = mail.fields
    OBVIOUS
  <2>2. z.dkim = New("verify", conf.lib) BY <1>7, <2>1
  <2>3. Waits(z.dkim) /\ z.dkim.hdrs = <<>> BY <2>2, NewWaits
  <2>4. z.hdrs = mail.fields BY <1>7
  <2>5. IsSeq(z.hdrs) /\ \A n \in 1..Len(z.hdrs) : IsField(z.hdrs[n], DOMAIN Keys) /\ z.hdrs[n].name # "empty"
    BY <2>4, MailFacts
  <2>6. PICK d : RunHeaders(z).c = [z EXCEPT !.dkim = d] /\ Waits(d) /\ d.hdrs = z.hdrs
    BY ONLY <2>3, <2>5, HeadersRun
  <2>. QED BY <1>12, <2>4, <2>6
<1>15. PICK e : q.c = [z EXCEPT !.dkim = e] /\ (~signing => Waits(e) /\ e.hdrs = mail.fields)
  BY <1>13, <1>14
<1>16. PICK u : u = q.c OBVIOUS
<1>17. /\ DOMAIN u = ContextFields /\ u.status = c.status /\ u.policy = c.policy
       /\ u.signing = signing /\ u.dkim = e
  BY <1>7, <1>15, <1>16 DEF ContextFields
<1>18. Reading(u, mail)
  <2>1. CASE signing BY <1>17, <2>1 DEF Reading
  <2>2. CASE ~signing BY <1>15, <1>17, <2>2, WaitsReads DEF Reading
  <2>. QED BY <2>1, <2>2
<1>19. ASSUME x = EohHandle(u, w) PROVE Reading(x.c, mail)
  <2>1. PICK cb : cb = IF conf.lib.prescreen THEN Prescreen(u.dkim) ELSE Silent OBVIOUS
  <2>2. PICK r : r = Eoh(u.dkim, cb, w) OBVIOUS
  <2>3. PICK v : v = [u EXCEPT !.dkim = r.d] OBVIOUS
  <2>4. x = EohStatus(v, r.ret) BY <1>19, <2>1, <2>2, <2>3 DEF EohHandle, EohTold
  <2>5. /\ DOMAIN v = ContextFields /\ v.status = c.status /\ v.policy = c.policy
        /\ v.signing = signing /\ v.dkim = r.d
    BY <1>17, <2>3 DEF ContextFields
  <2>6. PICK g : g = x.c OBVIOUS
  <2>7. /\ g.status # "GOOD" /\ g.policy = c.policy /\ g.signing = signing /\ g.dkim = r.d
        /\ r.ret # "ABORT"
    BY <2>4, <2>5, <2>6, EohStatusReads
  <2>8. CASE signing BY <2>6, <2>7, <2>8 DEF Reading
  <2>9. CASE ~signing
    <3>1. Waits(u.dkim) /\ u.dkim.hdrs = mail.fields BY <1>15, <1>17, <2>9
    <3>2. Reads(r.d, mail) /\ r.d.fed = 0 BY <2>1, <2>2, <2>7, <3>1, EohReads
    <3>. QED BY <2>6, <2>7, <3>2 DEF Reading
  <2>. QED BY <2>8, <2>9
<1>20. \/ x.c \in {BadFormat(c).c, NoContext, y, BadFormat(z).c, u}
       \/ x = EohHandle(u, w)
  <2>1. \/ x = BadFormat(c)
        \/ x.c = NoContext
        \/ x.c = b
        \/ x = BadFormat(h)
        \/ x = run
        \/ x = EohHandle(run.c, w)
    BY DEF EohCallback, Asserted, Says
  <2>2. b = y /\ h = z BY <1>2, <1>5
  <2>. HIDE DEF b, h
  <2>3. run = q BY <1>12, <2>2
  <2>. HIDE DEF run
  <2>. QED BY <1>16, <2>1, <2>2, <2>3
<1>. QED BY <1>1, <1>4, <1>10, <1>11, <1>18, <1>19, <1>20

\* mlfi_body() passes the pieces on, up to where no signature wants more.
LEMMA BodyCallbackReads ==
    ASSUME NEW c, DOMAIN c = ContextFields, NEW m, Fresh(c, m), m.at = "body", m.body \in Nat,
           NEW x, x = BodyCallback(c), x.ret # "ABORT", NEW n, n.mail = m.mail, n.body = m.body + 1,
           n.at = (IF x.ret = "skip" THEN "skip" ELSE "body")
    PROVE  Fresh(x.c, n)
<1>1. c.live BY DEF BodyCallback, Asserted, Says
<1>2. n.at \in {"body", "skip"} OBVIOUS
<1>3. CASE c.headeronly
  <2>1. x.c = c BY <1>1, <1>3 DEF BodyCallback, Asserted, Says
  <2>. QED BY <1>1, <1>2, <1>3, <2>1 DEF Fresh, Measures
<1>4. CASE ~c.headeronly
  <2>1. PICK r : r = Body(c.dkim) OBVIOUS
  <2>2. PICK b : b = [c EXCEPT !.dkim = r.d] OBVIOUS
  <2>3. x = CASE c.headeronly -> Says(c, "continue")
              [] ~c.headeronly /\ r.ret = "ABORT" -> Says(b, "ABORT")
              [] ~c.headeronly /\ r.ret = "OK" ->
                   Says(b, IF conf.milterv2 /\ MinBody(r.d) = 0 THEN "skip" ELSE "continue")
              [] OTHER -> Says(b, LibStatus(r.ret))
    BY <1>1, <2>1, <2>2 DEF BodyCallback, Asserted
  <2>4. r.ret # "ABORT"
    <3>1. SUFFICES ASSUME r.ret = "ABORT" PROVE FALSE OBVIOUS
    <3>2. x = Says(b, "ABORT") BY <1>4, <2>3, <3>1
    <3>. QED BY <3>2 DEF Says
  <2>5. CASE r.ret = "OK"
    <3>1. x = Says(b, IF conf.milterv2 /\ MinBody(r.d) = 0 THEN "skip" ELSE "continue") BY <1>4, <2>3, <2>5
    <3>2. x.c = b /\ (x.ret = "skip" => MinBody(r.d) = 0) BY <3>1 DEF Says
    <3>3. b.handle = c.handle /\ b.signing = c.signing /\ b.status = c.status /\ b.policy = c.policy
          /\ b.headeronly = c.headeronly /\ b.dkim = r.d
      BY <2>2 DEF ContextFields
    <3>4. ASSUME c.handle, ~c.signing PROVE Reads(r.d, n.mail) /\ Measures(b, n)
      <4>1. Reads(c.dkim, m.mail) /\ Measures(c, m) BY <1>1, <3>4 DEF Fresh
      <4>2. PICK e : e = c.dkim OBVIOUS
      <4>3. HandleOK(e, Keys, FALSE) /\ TakesBody(e) BY <4>1, <4>2 DEF Reads
      <4>4. DOMAIN e = HandleFields /\ e.state \in Nat /\ e.fed \in Nat BY <4>3, HandleFacts DEF HandleOK
      <4>5. r = Body(e) BY <2>1, <4>2
      <4>6. PICK f : f = r.d OBVIOUS
      <4>7. /\ f.mode = e.mode /\ f.lib = e.lib /\ f.hdrs = e.hdrs /\ f.chunk = e.chunk /\ f.sigs = e.sigs
            /\ f.hdrsrun = e.hdrsrun /\ f.bodydone = e.bodydone /\ TakesBody(f)
            /\ e.hdrsrun => f.fed = e.fed + 1
        BY <2>4, <4>3, <4>4, <4>5, <4>6, BodySame
      <4>8. HandleOK(f, Keys, FALSE) BY <2>4, <4>3, <4>5, <4>6, BodyFacts
      <4>9. Sifted(e) => Sifted(f) BY <4>7 DEF Sifted
      <4>10. Reads(f, n.mail) BY <4>1, <4>2, <4>7, <4>8, <4>9 DEF Reads
      <4>11. ASSUME f.hdrsrun PROVE f.fed = n.body /\ (n.at = "skip" => Covered(f))
        <5>1. e.fed = m.body BY <1>4, <4>1, <4>2, <4>7, <4>11 DEF Measures
        <5>2. f.fed = n.body BY <4>7, <4>11, <5>1
        <5>3. ~f.bodydone
          <6>1. f.state <= BODY /\ f.state \in Nat BY <4>7, <4>8, <4>11, HandleFacts DEF TakesBody
          <6>2. ~(f.state >= EOM1) BY <6>1 DEF BODY, EOM1
          <6>. QED BY <4>8, <6>2 DEF HandleOK
        <5>4. f.mode = "verify" BY <4>10 DEF Reads
        <5>5. ASSUME n.at = "skip" PROVE Covered(f)
          <6>1. MinBody(f) = 0 BY <3>2, <4>6, <5>5
          <6>. QED BY <4>8, <5>3, <5>4, <6>1, MinBodyFacts DEF Covered
        <5>. QED BY <5>2, <5>5
      <4>. QED BY <3>3, <4>6, <4>10, <4>11 DEF Measures
    <3>. QED BY <1>1, <1>2, <3>2, <3>3, <3>4 DEF Fresh
  <2>6. CASE r.ret # "OK"
    <3>1. x = Says(b, LibStatus(r.ret)) BY <1>4, <2>3, <2>4, <2>6
    <3>2. x.c = b BY <3>1 DEF Says
    <3>3. b.handle = c.handle /\ b.signing = c.signing /\ b.status = c.status /\ b.policy = c.policy
          /\ b.headeronly = c.headeronly /\ b.dkim = r.d
      BY <2>2 DEF ContextFields
    <3>4. ASSUME c.handle, ~c.signing PROVE Reads(r.d, n.mail) /\ Measures(b, n)
      <4>1. Reads(c.dkim, m.mail) BY <1>1, <3>4 DEF Fresh
      <4>2. PICK e : e = c.dkim OBVIOUS
      <4>3. HandleOK(e, Keys, FALSE) /\ TakesBody(e) BY <4>1, <4>2 DEF Reads
      <4>4. DOMAIN e = HandleFields /\ e.state \in Nat /\ e.fed \in Nat BY <4>3, HandleFacts DEF HandleOK
      <4>5. r = Body(e) BY <2>1, <4>2
      <4>6. PICK f : f = r.d OBVIOUS
      <4>7. /\ f.mode = e.mode /\ f.lib = e.lib /\ f.hdrs = e.hdrs /\ f.chunk = e.chunk /\ f.sigs = e.sigs
            /\ f.hdrsrun = e.hdrsrun /\ TakesBody(f) /\ ~e.hdrsrun
        BY <2>4, <2>6, <4>3, <4>4, <4>5, <4>6, BodySame
      <4>8. HandleOK(f, Keys, FALSE) BY <2>4, <4>3, <4>5, <4>6, BodyFacts
      <4>9. Reads(f, n.mail) BY <4>1, <4>2, <4>7, <4>8 DEF Reads
      <4>. QED BY <3>3, <4>6, <4>7, <4>9 DEF Measures
    <3>. QED BY <1>1, <1>2, <3>2, <3>3, <3>4 DEF Fresh
  <2>. QED BY <2>5, <2>6
<1>. QED BY <1>3, <1>4

-----------------------------------------------------------------------------
(* What a signature is worth.                                              *)

\* GoodOnes, Enough and PassSound for a configuration, a message, the part of its
\* body that was passed and what was told of it.
MessageOf(lib, mail) == [New("verify", lib) EXCEPT !.fed = mail.body, !.hdrs = mail.fields]
SignaturesOf(mail) == {f.sig : f \in {h \in Range(mail.fields) : h.name = "DKIM-Signature"}}
ReadingsOf(mail, s) == IF s.l # -1 THEN {s} ELSE {[s EXCEPT !.l = t.l] : t \in SignaturesOf(mail)}
GoodIn(lib, mail) ==
    {s \in UNION {ReadingsOf(mail, t) : t \in SignaturesOf(mail)} :
        s.set = "ok" /\ Genuine(MessageOf(lib, mail), s, Keys[s.key])}
EnoughIn(cf, body, s) ==
    LET covered == IF s.l = -1 THEN body ELSE s.l
    IN  \/ cf.sigmin = 0
        \/ cf.sigmintype = "percent" /\ 100 * covered >= cf.sigmin * body
        \/ cf.sigmintype = "maxadd" /\ covered + cf.sigmin >= body
        \/ cf.sigmintype = "bytes" /\ (covered >= cf.sigmin \/ covered = body)
PassFor(cf, mail, body, o) ==
    /\ o.dkim = "pass" =>
          \E s \in GoodIn(cf.lib, mail) :
              EnoughIn(cf, body, s) /\ (cf.lib.prescreen => s.key \in AuthorKeys \cup cf.trusted)
    /\ o.adsp = "pass" => \E s \in GoodIn(cf.lib, mail) : s.key \in AuthorKeys

\* PassSound in terms of them.
LEMMA PassForm == PassSound <=> PassFor(conf, mta.mail, mta.body, out)
<1>1. GoodOnes = GoodIn(conf.lib, mta.mail)
  BY DEF GoodOnes, GoodIn, Readings, ReadingsOf, Signatures, SignaturesOf, Message, MessageOf
<1>2. \A s : Enough(s) <=> EnoughIn(conf, mta.body, s) BY DEF Enough, EnoughIn
<1>3. GoodAuthors # {} <=> \E s \in GoodIn(conf.lib, mta.mail) : s.key \in AuthorKeys BY <1>1 DEF GoodAuthors
<1>4. (out.dkim = "pass" =>
          \E s \in GoodOnes : Enough(s) /\ (conf.lib.prescreen => s.key \in AuthorKeys \cup conf.trusted))
      <=> (out.dkim = "pass" =>
             \E s \in GoodIn(conf.lib, mta.mail) :
                EnoughIn(conf, mta.body, s) /\ (conf.lib.prescreen => s.key \in AuthorKeys \cup conf.trusted))
  BY <1>1, <1>2
<1>. QED BY <1>3, <1>4 DEF PassSound, PassFor

\* A quotient that is not below s.
LEMMA Quotient ==
    ASSUME NEW a \in Int, NEW b \in Int, b > 0, NEW s \in Nat, ~((a \div b) < s)
    PROVE  a >= s * b
<1>1. PICK q \in Int : q = a \div b OBVIOUS
<1>2. q >= s BY <1>1
<1>3. a >= q * b BY <1>1
<1>4. PICK k \in Nat : q = s + k BY <1>2
<1>5. q * b = s * b + k * b BY <1>4
<1>6. k * b >= 0 OBVIOUS
<1>. QED BY <1>3, <1>5, <1>6

\* A signature that dkim_eom() finds good is one of the message's good ones.
LEMMA SoundIsGood ==
    ASSUME NEW mail \in Mails, NEW d, d.lib = conf.lib, d.hdrs = mail.fields, FromFields(d.sigs, d.hdrs),
           d.fed \in Nat, NEW i \in 1..Len(d.sigs), NEW g, g = d.sigs[i], IsSig(g.spec), g.len \in Int,
           Sound(d, g, Keys[g.spec.key]),
           d.fed = mail.body \/ (g.len # -1 /\ d.fed <= mail.body)
    PROVE  \E s \in GoodIn(conf.lib, mail) : s.key = g.spec.key /\ s.l = g.len
<1>1. PICK n \in 1..Len(mail.fields) : IsSignature(mail.fields[n]) /\ g.spec = mail.fields[n].sig
  BY DEF FromFields
<1>2. ASSUME NEW k \in 1..Len(mail.fields), IsSignature(mail.fields[k])
      PROVE  mail.fields[k].sig \in SignaturesOf(mail)
  <2>1. PICK S : mail.fields \in Seq(S) BY MailFacts DEF IsSeq
  <2>2. mail.fields[k] \in Range(mail.fields) BY <2>1 DEF Range
  <2>3. mail.fields[k].name = "DKIM-Signature" BY <1>2 DEF IsSignature
  <2>. QED BY <2>2, <2>3 DEF SignaturesOf
<1>3. PICK p : p = g.spec OBVIOUS
<1>4. p \in SignaturesOf(mail) /\ p.set = "ok" BY <1>1, <1>2, <1>3 DEF IsSignature
<1>5. /\ p.flaws = {} /\ Made(d, p) /\ KeyUsable(p, Keys[p.key]) /\ Signs(d, p)
      /\ IF g.len = -1 THEN p.over = d.fed ELSE g.len <= d.fed /\ p.over = g.len
  BY <1>3 DEF Sound
<1>6. g.len = p.l \/ (p.l = -1 /\ \E k \in 1..Len(mail.fields) :
                                     IsSignature(mail.fields[k]) /\ g.len = mail.fields[k].sig.l)
  BY <1>3, <1>5 DEF FromFields
<1>7. mail.body \in Nat BY MailFacts
<1>8. PICK s : /\ s \in ReadingsOf(mail, p) /\ s.l = g.len
               /\ s.set = p.set /\ s.flaws = p.flaws /\ s.key = p.key /\ s.good = p.good
               /\ s.tailok = p.tailok /\ s.over = p.over /\ s.hash = p.hash /\ s.user = p.user
               /\ s.sub = p.sub /\ s.must = p.must
  <2>1. CASE p.l # -1
    <3>1. p \in ReadingsOf(mail, p) /\ p.l = g.len BY <1>6, <2>1 DEF ReadingsOf
    <3>. QED BY <3>1
  <2>2. CASE p.l = -1
    <3>1. PICK t \in SignaturesOf(mail) : t.l = g.len
      <4>1. CASE g.len = p.l BY <1>4, <4>1
      <4>2. CASE g.len # p.l BY <1>2, <1>6, <4>2
      <4>. QED BY <4>1, <4>2
    <3>2. PICK s : s = [p EXCEPT !.l = t.l] OBVIOUS
    <3>3. s \in ReadingsOf(mail, p) BY <2>2, <3>2 DEF ReadingsOf
    <3>4. DOMAIN p = {"set", "flaws", "key", "good", "tailok", "l", "over", "hash", "user", "sub", "must"}
      BY <1>3 DEF IsSig, Sig
    <3>5. /\ s.l = g.len /\ s.set = p.set /\ s.flaws = p.flaws /\ s.key = p.key /\ s.good = p.good
          /\ s.tailok = p.tailok /\ s.over = p.over /\ s.hash = p.hash /\ s.user = p.user
          /\ s.sub = p.sub /\ s.must = p.must
      BY <3>1, <3>2, <3>4
    <3>. QED BY <3>3, <3>5
  <2>. QED BY <2>1, <2>2
<1>9. PICK e : e = MessageOf(conf.lib, mail) OBVIOUS
<1>10. e.fed = mail.body /\ e.hdrs = mail.fields /\ e.lib = conf.lib /\ e.tail = FALSE
  BY <1>9 DEF MessageOf, New
<1>11. Genuine(e, s, Keys[s.key])
  <2>1. s.flaws = {} /\ s.good BY <1>5, <1>8 DEF Made
  <2>2. e.tail => s.tailok BY <1>10
  <2>3. KeyUsable(s, Keys[s.key]) BY <1>5, <1>8 DEF KeyUsable, KeyFlaws
  <2>4. BodyIntact(s, e.fed) BY <1>5, <1>7, <1>8, <1>10 DEF BodyIntact
  <2>5. e.lib.mbs /\ HasHeader(e, "Must") => s.must BY <1>5, <1>8, <1>10 DEF Signs, HasHeader
  <2>. QED BY <2>1, <2>2, <2>3, <2>4, <2>5 DEF Genuine
<1>12. s \in GoodIn(conf.lib, mail)
  <2>1. s \in UNION {ReadingsOf(mail, t) : t \in SignaturesOf(mail)} BY <1>4, <1>8
  <2>2. s.set = "ok" BY <1>4, <1>8
  <2>. QED BY <1>9, <1>11, <2>1, <2>2 DEF GoodIn
<1>. QED BY <1>3, <1>8, <1>12

\* A signature that Minimum does not find too short covers enough.
LEMMA NotPartial ==
    ASSUME conf \in Configs, NEW c, NEW g, g = c.dkim.sigs[c.dkim.signature], c.dkim.fed \in Nat, g.len \in Int,
           g.len = -1 \/ g.len <= c.dkim.fed, ~Partial(c), ~DividesByZero(c), NEW s, s.l = g.len
    PROVE  EnoughIn(conf, c.dkim.fed, s)
<1>. DEFINE all == c.dkim.fed
            signed == Wrote(c.dkim, g)
<1>1. conf.sigmin \in Nat /\ conf.sigmintype \in {"bytes", "maxadd", "percent"} BY FilterAssumption
<1>2. signed = IF s.l = -1 THEN all ELSE s.l
  <2>1. CASE g.len = -1 BY <2>1 DEF Wrote
  <2>2. CASE g.len # -1
    <3>1. CASE all < g.len BY <2>2, <3>1
    <3>2. CASE ~(all < g.len) BY <2>2, <3>2 DEF Wrote
    <3>. QED BY <3>1, <3>2
  <2>. QED BY <2>1, <2>2
<1>3. PICK k \in Int : k = signed BY <1>2
<1>4. PICK n \in Nat : n = all OBVIOUS
<1>5. PICK z \in Nat : z = conf.sigmin BY <1>1
<1>6. CASE z = 0 BY <1>5, <1>6 DEF EnoughIn
<1>7. CASE z > 0 /\ conf.sigmintype = "percent"
  <2>1. n # 0 BY <1>4, <1>5, <1>7 DEF DividesByZero
  <2>2. ~((100 * k) \div n < z) BY <1>3, <1>4, <1>5, <1>7 DEF Partial
  <2>3. 100 * k >= z * n BY <2>1, <2>2, Quotient
  <2>. QED BY <1>2, <1>3, <1>4, <1>5, <1>7, <2>3 DEF EnoughIn
<1>8. CASE z > 0 /\ conf.sigmintype = "maxadd"
  <2>1. ~(k + z < n) BY <1>3, <1>4, <1>5, <1>8 DEF Partial
  <2>. QED BY <1>2, <1>3, <1>4, <1>5, <1>8, <2>1 DEF EnoughIn
<1>9. CASE z > 0 /\ conf.sigmintype = "bytes"
  <2>1. ~(k < (IF z < n THEN z ELSE n)) BY <1>3, <1>4, <1>5, <1>9 DEF Partial
  <2>2. k >= z \/ k = n BY <1>2, <1>3, <1>4, <2>1
  <2>. QED BY <1>2, <1>3, <1>4, <1>5, <1>9, <2>2 DEF EnoughIn
<1>. QED BY <1>1, <1>5, <1>6, <1>7, <1>8, <1>9

-----------------------------------------------------------------------------
(* The end of the message.                                                 *)

\* The handle read the whole of the message: its fields, and as much of its body as
\* any signature wants.
Whole(d, m) ==
    /\ d.lib = conf.lib /\ d.hdrs = m.mail.fields /\ FromFields(d.sigs, d.hdrs) /\ Sifted(d) /\ d.fed = m.body
    /\ m.body = m.mail.body \/ \A i \in 1..Len(d.sigs) : d.sigs[i].spec.flaws = {} => d.sigs[i].len # -1

\* What dkim_eom() leaves.
Finished(d, m) ==
    /\ HandleOK(d, Keys, FALSE) /\ d.chunk = "INIT"
    /\ d.hdrsrun /\ d.bodydone => Whole(d, m)
Judged(c, m) ==
    /\ DOMAIN c = ContextFields /\ ~c.policy
    /\ c.handle /\ ~c.signing => Finished(c.dkim, m)
    /\ c.status = "GOOD" => c.handle /\ ~c.signing /\ GoodVerdict(c.dkim, Keys) /\ Whole(c.dkim, m)

\* The MTA has come to the end of the message.
AtEnd(m) ==
    /\ m.mail \in Mails /\ m.at \in {"body", "skip"} /\ m.body \in Nat /\ m.body <= m.mail.body
    /\ m.at = "body" => m.body = m.mail.body

LEMMA EomStatusHears ==
    ASSUME NEW c, DOMAIN c = ContextFields, c.status # "GOOD", NEW st, NEW x, x = EomStatus(c, st)
    PROVE  /\ DOMAIN x.c = ContextFields /\ x.c.policy = c.policy /\ x.c.handle = c.handle
           /\ x.c.signing = c.signing /\ x.c.dkim = c.dkim
           /\ x.c.status = "GOOD" => st = "OK" /\ ~c.signing
           /\ st = "ABORT" => x.ret = "ABORT"
<1>. DEFINE told(status) == [c EXCEPT !.addheader = TRUE, !.status = status]
<1>1. ASSUME NEW s
      PROVE  /\ DOMAIN told(s) = ContextFields /\ told(s).policy = c.policy /\ told(s).handle = c.handle
             /\ told(s).signing = c.signing /\ told(s).dkim = c.dkim /\ told(s).status = s
  BY DEF ContextFields
<1>2. \/ x.c = c
      \/ st = "OK" /\ ~c.signing /\ x.c = told("GOOD")
      \/ \E s \in {"VERIFYERR", "BAD", "NOKEY", "NOSIGNATURE"} : x.c = told(s)
  BY DEF EomStatus, Says
<1>3. st = "ABORT" => x.ret = "ABORT" BY DEF EomStatus, Says
<1>. HIDE DEF told
<1>. QED BY <1>1, <1>2, <1>3

\* The handle keeps the message to its end.
LEMMA ReadsWhole ==
    ASSUME NEW m, AtEnd(m), NEW c, Reads(c.dkim, m.mail), Measures(c, m), ~c.headeronly, c.dkim.hdrsrun,
           NEW f, SameMessage(f, c.dkim), HandleOK(f, Keys, FALSE)
    PROVE  Whole(f, m)
<1>1. PICK d : d = c.dkim OBVIOUS
<1>2. /\ HandleOK(d, Keys, FALSE) /\ d.lib = conf.lib /\ d.hdrs = m.mail.fields /\ FromFields(d.sigs, d.hdrs)
      /\ Sifted(d) /\ d.fed = m.body /\ (m.at = "skip" => Covered(d))
  BY <1>1 DEF Reads, Measures
<1>3. SameList(f.sigs, d.sigs) /\ f.lib = d.lib /\ f.hdrs = d.hdrs /\ f.fed = d.fed
  BY <1>1 DEF SameMessage, SameMail
<1>4. FromFields(f.sigs, f.hdrs) BY <1>2, <1>3, SameListSame
<1>5. Sifted(f)
  <2>1. ASSUME conf.lib.prescreen, NEW i \in 1..Len(f.sigs)
        PROVE  f.sigs[i].ignore \/ f.sigs[i].spec.key \in AuthorKeys \cup conf.trusted
    <3>1. i \in 1..Len(d.sigs) /\ f.sigs[i].spec = d.sigs[i].spec /\ (d.sigs[i].ignore => f.sigs[i].ignore)
      BY <1>3 DEF SameList
    <3>2. d.sigs[i].ignore \/ d.sigs[i].spec.key \in AuthorKeys \cup conf.trusted BY <1>2, <2>1, <3>1 DEF Sifted
    <3>. QED BY <3>1, <3>2
  <2>. QED BY <2>1 DEF Sifted
<1>6. ASSUME m.body # m.mail.body, NEW i \in 1..Len(f.sigs), f.sigs[i].spec.flaws = {}
      PROVE  f.sigs[i].len # -1
  <2>1. Covered(d) BY <1>2, <1>6 DEF AtEnd
  <2>2. i \in 1..Len(d.sigs) /\ f.sigs[i].spec = d.sigs[i].spec /\ f.sigs[i].len = d.sigs[i].len
    BY <1>3 DEF SameList
  <2>3. SigOK(d, d.sigs[i], Keys, FALSE) BY <1>2, <2>2, HandleFacts DEF SigsOK
  <2>4. d.sigs[i].canon BY <1>6, <2>2, <2>3 DEF SigOK, ErrorOK
  <2>. QED BY <2>1, <2>2, <2>4 DEF Covered
<1>. QED BY <1>2, <1>3, <1>4, <1>5, <1>6 DEF Whole

\* What the callback makes of dkim_eom().
LEMMA EomHears ==
    ASSUME NEW c, DOMAIN c = ContextFields, c.live, NEW m, AtEnd(m), Fresh(c, m),
           NEW w \in {Up, Down}, NEW e, e = EomHandle(c, w), e.ret = "continue"
    PROVE  Judged(e.c, m)
<1>1. c.status # "GOOD" /\ ~c.policy BY DEF Fresh
<1>2. CASE c.headeronly \/ ~c.handle
  <2>1. e.c = c BY <1>2 DEF EomHandle, Says
  <2>2. ASSUME c.handle, ~c.signing PROVE Finished(c.dkim, m)
    <3>1. PICK d : d = c.dkim OBVIOUS
    <3>2. Reads(d, m.mail) BY <2>2, <3>1 DEF Fresh
    <3>3. ~(d.hdrsrun /\ d.bodydone)
      <4>1. SUFFICES ASSUME d.hdrsrun, d.bodydone PROVE FALSE OBVIOUS
      <4>2. d.state <= BODY BY <3>2, <4>1 DEF Reads, TakesBody
      <4>3. d.state \in Nat /\ d.state >= EOM1 BY <3>2, <4>1 DEF Reads, HandleOK
      <4>. QED BY <4>2, <4>3 DEF BODY, EOM1
    <3>. QED BY <3>1, <3>2, <3>3 DEF Finished, Reads
  <2>. QED BY <1>1, <2>1, <2>2 DEF Judged
<1>3. CASE ~(c.headeronly \/ ~c.handle)
  <2>1. PICK r : r = Eom(c.dkim, Silent, w) OBVIOUS
  <2>2. PICK b : b = [c EXCEPT !.dkim = r.d] OBVIOUS
  <2>3. e = EomStatus(b, r.ret) BY <1>3, <2>1, <2>2 DEF EomHandle, EomTold
  <2>4. /\ DOMAIN b = ContextFields /\ b.handle = c.handle /\ b.signing = c.signing /\ b.status = c.status
        /\ b.policy = c.policy /\ b.dkim = r.d
    BY <2>2 DEF ContextFields
  <2>5. PICK x : x = e.c OBVIOUS
  <2>6. /\ DOMAIN x = ContextFields /\ x.policy = c.policy /\ x.handle = c.handle
        /\ x.signing = c.signing /\ x.dkim = r.d
        /\ x.status = "GOOD" => r.ret = "OK" /\ ~c.signing
        /\ r.ret # "ABORT"
    BY <1>1, <2>3, <2>4, <2>5, EomStatusHears
  <2>7. CASE c.signing BY <1>1, <2>5, <2>6, <2>7 DEF Judged
  <2>8. CASE ~c.signing
    <3>1. Reads(c.dkim, m.mail) /\ Measures(c, m) BY <1>3, <2>8 DEF Fresh
    <3>2. PICK d : d = c.dkim OBVIOUS
    <3>3. HandleOK(d, Keys, FALSE) /\ d.mode = "verify" /\ d.chunk = "INIT" BY <3>1, <3>2 DEF Reads
    <3>4. Records(Keys) /\ Honest(w, Keys, FALSE) BY Lookups
    <3>5. PICK f : f = r.d OBVIOUS
    <3>6. HandleOK(f, Keys, FALSE) /\ (r.ret = "OK" => GoodVerdict(f, Keys))
      BY <2>1, <2>6, <3>2, <3>3, <3>4, <3>5, EomFacts
    <3>7. SameMessage(f, d)
      <4>1. Silent.process = {} /\ ~Silent.swap BY DEF Silent
      <4>. QED BY <2>1, <2>6, <3>2, <3>3, <3>4, <3>5, <4>1, EomSame
    <3>8. f.hdrsrun = d.hdrsrun /\ f.chunk = "INIT" BY <3>3, <3>7 DEF SameMessage, SameMail
    <3>9. f.hdrsrun => Whole(f, m) BY <1>3, <3>1, <3>2, <3>6, <3>7, <3>8, ReadsWhole
    <3>10. GoodVerdict(f, Keys) => f.hdrsrun BY DEF GoodVerdict
    <3>11. Finished(f, m) BY <3>6, <3>8, <3>9 DEF Finished
    <3>. QED BY <1>1, <1>3, <2>5, <2>6, <2>8, <3>5, <3>6, <3>9, <3>10, <3>11 DEF Judged
  <2>. QED BY <2>7, <2>8
<1>. QED BY <1>2, <1>3

\* A signature of the author that passed is good.
LEMMA AuthorIsGood ==
    ASSUME NEW m, AtEnd(m), NEW c, Finished(c.dkim, m), AuthorSigOk(c)
    PROVE  \E s \in GoodIn(conf.lib, m.mail) : s.key \in AuthorKeys
<1>1. PICK d : d = c.dkim OBVIOUS
<1>2. PICK i \in 1..Len(d.sigs) : /\ d.sigs[i].error \in {"UNKNOWN", "OK"} /\ d.sigs[i].spec.key \in AuthorKeys
                                  /\ Passing(d.sigs[i])
  BY <1>1 DEF AuthorSigOk
<1>3. PICK g : g = d.sigs[i] OBVIOUS
<1>4. HandleOK(d, Keys, FALSE) /\ d.chunk = "INIT" BY <1>1 DEF Finished
<1>5. SigOK(d, g, Keys, FALSE) /\ d.fed \in Nat BY <1>3, <1>4, HandleFacts DEF SigsOK, HandleOK
<1>6. g.passed /\ g.bh = "MATCH" /\ g.error \in {"UNKNOWN", "OK"} /\ g.spec.key \in AuthorKeys
  BY <1>2, <1>3 DEF Passing
<1>7. g.error = "OK" /\ d.bodydone BY <1>5, <1>6 DEF SigOK, HashOK
<1>8. g.processed BY <1>5, <1>6 DEF SigOK, PassedOK
<1>9. d.hdrsrun BY <1>5, <1>8 DEF SigOK, ErrorOK
<1>10. Whole(d, m) BY <1>1, <1>7, <1>9 DEF Finished
<1>11. Made(d, g.spec) BY <1>3, <1>4, <1>6 DEF HandleOK, AllMade
<1>12. Sound(d, g, Keys[g.spec.key]) BY <1>5, <1>6, <1>7, <1>11, PassedIsSound
<1>13. IsSig(g.spec) /\ g.len \in Int BY <1>5 DEF SigOK
<1>14. d.fed = m.mail.body \/ (g.len # -1 /\ d.fed <= m.mail.body)
  <2>1. g.spec.flaws = {} BY <1>12 DEF Sound
  <2>. QED BY <1>3, <1>10, <2>1 DEF Whole, AtEnd
<1>15. \E s \in GoodIn(conf.lib, m.mail) : s.key = g.spec.key /\ s.l = g.len
  BY <1>3, <1>5, <1>10, <1>12, <1>13, <1>14, SoundIsGood DEF Whole, AtEnd
<1>. QED BY <1>6, <1>15

\* The signature that dkim_eom() named, if Minimum does not find it too short.
LEMMA NamedIsGood ==
    ASSUME conf \in Configs, NEW m, AtEnd(m), NEW c, Judged(c, m), c.status = "GOOD", ~Partial(c), ~DividesByZero(c)
    PROVE  \E s \in GoodIn(conf.lib, m.mail) :
              EnoughIn(conf, m.body, s) /\ (conf.lib.prescreen => s.key \in AuthorKeys \cup conf.trusted)
<1>1. PICK d : d = c.dkim OBVIOUS
<1>2. GoodVerdict(d, Keys) /\ Whole(d, m) /\ HandleOK(d, Keys, FALSE) BY <1>1 DEF Judged, Finished
<1>3. PICK i : i = d.signature OBVIOUS
<1>4. PICK g : g = d.sigs[i] OBVIOUS
<1>5. i \in 1..Len(d.sigs) /\ ~g.ignore /\ Sound(d, g, Keys[g.spec.key]) BY <1>2, <1>3, <1>4 DEF GoodVerdict
<1>6. SigOK(d, g, Keys, FALSE) /\ d.fed \in Nat BY <1>2, <1>4, <1>5, HandleFacts DEF SigsOK, HandleOK
<1>7. IsSig(g.spec) /\ g.len \in Int BY <1>6 DEF SigOK
<1>8. d.fed = m.mail.body \/ (g.len # -1 /\ d.fed <= m.mail.body)
  <2>1. g.spec.flaws = {} BY <1>5 DEF Sound
  <2>. QED BY <1>2, <1>4, <1>5, <2>1 DEF Whole, AtEnd
<1>9. PICK s \in GoodIn(conf.lib, m.mail) : s.key = g.spec.key /\ s.l = g.len
  BY <1>2, <1>4, <1>5, <1>6, <1>7, <1>8, SoundIsGood DEF Whole, AtEnd
<1>10. g.len = -1 \/ g.len <= d.fed BY <1>5 DEF Sound
<1>11. EnoughIn(conf, d.fed, s) BY <1>1, <1>3, <1>4, <1>6, <1>7, <1>9, <1>10, NotPartial
<1>12. d.fed = m.body BY <1>2 DEF Whole
<1>13. conf.lib.prescreen => s.key \in AuthorKeys \cup conf.trusted BY <1>2, <1>4, <1>5, <1>9 DEF Whole, Sifted
<1>. QED BY <1>9, <1>11, <1>12, <1>13

\* Judging a message finds no signature good that was not, and asks for the practices
\* of the author's domain only when the message was verified.
LEMMA JudgeTells ==
    ASSUME NEW c, DOMAIN c = ContextFields, ~c.policy, NEW p, NEW d, d = Judge(Measured(c), p).c
    PROVE  \/ ~d.addheader
           \/ /\ DOMAIN d = ContextFields /\ d.dkim = c.dkim /\ d.handle = c.handle
              /\ d.status = "GOOD" => c.status = "GOOD" /\ ~Partial(c)
              /\ d.policy => c.handle /\ ~c.signing
<1>1. PICK m : m = Measured(c) OBVIOUS
<1>2. /\ DOMAIN m = ContextFields /\ m.dkim = c.dkim /\ m.handle = c.handle /\ m.signing = c.signing
      /\ m.policy = c.policy /\ (m.status = "GOOD" => c.status = "GOOD" /\ ~Partial(c))
  BY <1>1 DEF Measured, ContextFields
<1>. DEFINE known == [m EXCEPT !.policy = TRUE]
            b == [known EXCEPT !.susp = TRUE, !.addheader = TRUE]
<1>3. /\ DOMAIN known = ContextFields /\ known.dkim = m.dkim /\ known.handle = m.handle
      /\ known.status = m.status /\ DOMAIN b = ContextFields /\ b.dkim = m.dkim /\ b.handle = m.handle
      /\ b.status = m.status
  BY <1>2 DEF ContextFields
<1>4. \/ d = m \/ d = NoContext
      \/ d \in {known, b} /\ m.handle /\ ~m.signing
  BY <1>1 DEF Judge, Says
<1>5. ~NoContext.addheader BY DEF NoContext, NewContext
<1>. HIDE DEF known, b
<1>. QED BY <1>2, <1>3, <1>4, <1>5

\* Nothing is told unless something is.
LEMMA Untold ==
    ASSUME NEW cf, NEW mail, NEW body, NEW o, o.dkim # "pass", o.adsp # "pass"
    PROVE  PassFor(cf, mail, body, o)
BY DEF PassFor

\* Only a good status is told as dkim=pass.
LEMMA PassIsGood ==
    ASSUME NEW c, DkimResult(c) = "pass"
    PROVE  c.status = "GOOD"
<1>1. SUFFICES ASSUME c.status # "GOOD" PROVE FALSE OBVIOUS
<1>2. PICK s : s = c.status OBVIOUS
<1>3. PICK fail : fail = IF TestKey(c) THEN "neutral" ELSE "fail" OBVIOUS
<1>4. DkimResult(c) = CASE s = "GOOD" -> "pass"
                        [] s = "NOSIGNATURE" -> "none"
                        [] s \in {"BAD", "REVOKED"} -> fail
                        [] s \in {"PARTIAL", "VERIFYERR", "BADFORMAT"} -> "permerror"
                        [] OTHER -> "neutral"
  BY <1>2, <1>3 DEF DkimResult
<1>5. CASE s = "NOSIGNATURE" BY <1>4, <1>5
<1>6. CASE s \in {"BAD", "REVOKED"} BY <1>3, <1>4, <1>6
<1>7. CASE s \in {"PARTIAL", "VERIFYERR", "BADFORMAT"} BY <1>4, <1>7
<1>8. CASE s \notin {"GOOD", "NOSIGNATURE", "BAD", "REVOKED", "PARTIAL", "VERIFYERR", "BADFORMAT"} BY <1>4, <1>8
<1>. QED BY <1>1, <1>2, <1>5, <1>6, <1>7, <1>8

\* The practices are among those that the callback knows.
LEMMA PracticeKnown ==
    ASSUME conf \in Configs, NEW c, NEW found \in Practices
    PROVE  Practice(c, found).pcode \in {"NONE", "UNKNOWN", "ALL", "DISCARDABLE"}
<1>1. /\ DOMAIN found = {"st", "pcode", "pres"} /\ found.pcode \in {"NONE", "UNKNOWN", "ALL", "DISCARDABLE"}
      /\ conf.localadsp \in {"none", "UNKNOWN", "ALL", "DISCARDABLE"}
  BY FilterAssumption
<1>2. [found EXCEPT !.pcode = "NONE", !.pres = "NONE"].pcode = "NONE" BY <1>1
<1>. QED BY <1>1, <1>2 DEF Practice

\* Only a message whose practices were looked at, and that the author signed, is told
\* as dkim-adsp=pass.
LEMMA AdspIsAuthors ==
    ASSUME NEW c, NEW p, p.pcode \in {"NONE", "UNKNOWN", "ALL", "DISCARDABLE"}, AdspResult(c, p) = "pass"
    PROVE  c.policy /\ AuthorSigOk(c)
<1>1. PICK k : k = p.pcode OBVIOUS
<1>2. PICK signed, pass, discard :
         /\ signed = (IF AuthorSigOk(c) THEN "signed" ELSE "unknown")
         /\ pass = (IF AuthorSigOk(c) THEN "pass" ELSE "fail")
         /\ discard = (IF AuthorSigOk(c) THEN "pass" ELSE "discard")
  OBVIOUS
<1>3. PICK told : told = CASE k = "NONE" -> "none"
                           [] k = "UNKNOWN" -> signed
                           [] k = "ALL" -> pass
                           [] k = "DISCARDABLE" -> discard
  OBVIOUS
<1>4. AdspResult(c, p) = IF c.status = "BADFORMAT" THEN "untold"
                         ELSE IF ~c.policy THEN "temperror"
                         ELSE IF p.pres = "NXDOMAIN" THEN "nxdomain" ELSE told
  BY <1>1, <1>2, <1>3 DEF AdspResult
<1>5. c.policy /\ told = "pass" BY <1>4
<1>6. AuthorSigOk(c)
  <2>1. CASE k = "NONE" BY <1>3, <1>5, <2>1
  <2>2. CASE k = "UNKNOWN"
    <3>1. told = signed BY <1>3, <2>2
    <3>. QED BY <1>2, <1>5, <3>1
  <2>3. CASE k = "ALL"
    <3>1. told = pass BY <1>3, <2>3
    <3>. QED BY <1>2, <1>5, <3>1
  <2>4. CASE k = "DISCARDABLE"
    <3>1. told = discard BY <1>3, <2>4
    <3>. QED BY <1>2, <1>5, <3>1
  <2>. QED BY <1>1, <2>1, <2>2, <2>3, <2>4
<1>. QED BY <1>5, <1>6

\* What mlfi_eom() tells of a message.
LEMMA EomPass ==
    ASSUME conf \in Configs, NEW c, DOMAIN c = ContextFields, NEW m, AtEnd(m), Fresh(c, m),
           NEW w \in {Up, Down}, NEW found \in Practices, NEW changes \in BOOLEAN, NEW fails \in BOOLEAN,
           NEW r, r = EomCallback(c, w, found, changes, fails)
    PROVE  PassFor(conf, m.mail, m.body, r.did)
<1>1. PICK did : did = IF changes THEN [Nothing EXCEPT !.gone = RemoveAuthRes(c), !.unsigned = RemoveSigs(c)]
                      ELSE Nothing
  OBVIOUS
<1>2. Nothing.dkim = "untold" /\ Nothing.adsp = "untold" /\ DOMAIN Nothing = OutFields
  BY DEF Nothing, OutFields
<1>3. did.dkim = "untold" /\ did.adsp = "untold" /\ DOMAIN did = OutFields BY <1>1, <1>2 DEF OutFields
<1>4. CASE ~c.live \/ (fails /\ ~c.signing)
  <2>1. r = Ends(Says(c, "ABORT"), Nothing) \/ r = Ends(Says(c, "tempfail"), Nothing)
    BY <1>4 DEF EomCallback
  <2>2. r.did = Nothing BY <2>1 DEF Ends
  <2>. QED BY <1>2, <2>2, Untold
<1>5. CASE c.live /\ ~(fails /\ ~c.signing)
  <2>1. PICK e : e = EomHandle(c, w) OBVIOUS
  <2>2. r = EomJudged(e, found, did, changes) BY <1>1, <1>5, <2>1 DEF EomCallback
  <2>3. PICK n : n = IF (e.c.signing /\ ~e.c.headeronly /\ e.c.handle) /\ changes THEN 1 ELSE 0 OBVIOUS
  <2>4. PICK p : p = Practice(e.c, found) OBVIOUS
  <2>5. PICK more : more = [did EXCEPT !.signed = n] OBVIOUS
  <2>6. more.dkim = "untold" /\ more.adsp = "untold" /\ DOMAIN more = OutFields BY <1>3, <2>5 DEF OutFields
  <2>7. PICK j : j = Judge(Measured(e.c), p) OBVIOUS
  <2>8. \/ r.did = did
        \/ /\ e.ret = "continue" /\ ~(e.c.status = "GOOD" /\ DividesByZero(e.c))
           /\ r = EomReport(j, p, more, changes)
    BY <2>2, <2>3, <2>4, <2>5, <2>7 DEF EomJudged, Ends
  <2>9. CASE r.did = did BY <1>3, <2>9, Untold
  <2>10. CASE /\ e.ret = "continue" /\ ~(e.c.status = "GOOD" /\ DividesByZero(e.c))
              /\ r = EomReport(j, p, more, changes)
    <3>1. Judged(e.c, m) BY <1>5, <2>1, <2>10, EomHears
    <3>2. PICK a : a = e.c OBVIOUS
    <3>3. PICK d : d = j.c OBVIOUS
    <3>4. \/ ~d.addheader
          \/ /\ DOMAIN d = ContextFields /\ d.dkim = a.dkim /\ d.handle = a.handle
             /\ d.status = "GOOD" => a.status = "GOOD" /\ ~Partial(a)
             /\ d.policy => a.handle /\ ~a.signing
      BY <2>7, <3>1, <3>2, <3>3, JudgeTells DEF Judged
    <3>5. PICK h : h = Hushed(d) OBVIOUS
    <3>0. PICK x : x = IF h.handle THEN DkimResult(h) ELSE "untold" OBVIOUS
    <3>6. PICK told : told = IF changes /\ Reports(d) /\ h.addheader
                             THEN [more EXCEPT !.dkim = x, !.adsp = AdspResult(h, p)] ELSE more
      OBVIOUS
    <3>7. \E q : r.did \in {more, [told EXCEPT !.quarantined = q]}
      <4>1. [more EXCEPT !.dkim = IF h.handle THEN DkimResult(h) ELSE @, !.adsp = AdspResult(h, p)]
              = [more EXCEPT !.dkim = x, !.adsp = AdspResult(h, p)]
        BY <2>6, <3>0 DEF OutFields
      <4>2. EomReport(j, p, more, changes) =
              IF j.ret # "continue" THEN Ends(j, more)
              ELSE IF conf.addxhdr /\ ~changes THEN Ends(Says(NoContext, "tempfail"), more)
              ELSE Ends(Says(h, Translate(h, p.st)), [told EXCEPT !.quarantined = Quarantined(d)])
        BY <3>3, <3>5, <3>6, <4>1 DEF EomReport
      <4>3. PICK y : y = [told EXCEPT !.quarantined = Quarantined(d)] OBVIOUS
      <4>4. \A z, what : Ends(z, what).did = what BY DEF Ends
      <4>5. r.did \in {more, y} BY ONLY <2>10, <4>2, <4>3, <4>4
      <4>. QED BY <4>3, <4>5
    <3>8. CASE r.did = more BY <2>6, <3>8, Untold
    <3>9. CASE ~(changes /\ Reports(d) /\ h.addheader)
      <4>1. told = more BY <3>6, <3>9
      <4>2. r.did.dkim = "untold" /\ r.did.adsp = "untold" BY <2>6, <3>7, <4>1 DEF OutFields
      <4>. QED BY <4>2, Untold
    <3>10. CASE (changes /\ Reports(d) /\ h.addheader) /\ r.did # more
      <4>1. d.addheader BY <3>10 DEF Reports
      <4>2. h.dkim = a.dkim /\ h.handle = a.handle /\ h.status = d.status /\ h.policy = d.policy
        BY <3>4, <3>5, <4>1 DEF Hushed, ContextFields
      <4>4. told = [more EXCEPT !.dkim = x, !.adsp = AdspResult(h, p)] BY <3>6, <3>10
      <4>3. PICK k : k = AdspResult(h, p) OBVIOUS
      <4>5. r.did.dkim = x /\ r.did.adsp = k
        <5>1. PICK q : r.did = [told EXCEPT !.quarantined = q] BY <3>7, <3>10
        <5>2. told.dkim = x /\ told.adsp = k /\ DOMAIN told = OutFields BY ONLY <2>6, <4>3, <4>4 DEF OutFields
        <5>. QED BY ONLY <5>1, <5>2 DEF OutFields
      <4>6. ASSUME x = "pass"
            PROVE  \E s \in GoodIn(conf.lib, m.mail) :
                      EnoughIn(conf, m.body, s) /\ (conf.lib.prescreen => s.key \in AuthorKeys \cup conf.trusted)
        <5>0. DkimResult(h) = "pass" BY <3>0, <4>6
        <5>1. h.status = "GOOD" BY <5>0, PassIsGood
        <5>2. a.status = "GOOD" /\ ~Partial(a) BY <3>4, <4>1, <4>2, <5>1
        <5>3. ~DividesByZero(a) BY <2>10, <3>2, <5>2
        <5>. QED BY <3>1, <3>2, <5>2, <5>3, NamedIsGood
      <4>7. ASSUME AdspResult(h, p) = "pass"
            PROVE  \E s \in GoodIn(conf.lib, m.mail) : s.key \in AuthorKeys
        <5>1. h.policy /\ AuthorSigOk(h)
          <6>1. p.pcode \in {"NONE", "UNKNOWN", "ALL", "DISCARDABLE"} BY <2>4, PracticeKnown
          <6>. QED BY <4>7, <6>1, AdspIsAuthors
        <5>2. a.handle /\ ~a.signing BY <3>4, <4>1, <4>2, <5>1
        <5>3. Finished(h.dkim, m) BY <3>1, <3>2, <4>2, <5>2 DEF Judged
        <5>. QED BY <5>1, <5>3, AuthorIsGood
      <4>. QED BY <4>3, <4>5, <4>6, <4>7 DEF PassFor
    <3>. QED BY <3>8, <3>9, <3>10
  <2>. QED BY <2>8, <2>9, <2>10
<1>. QED BY <1>4, <1>5

-----------------------------------------------------------------------------
(* Steps.                                                                  *)

\* Nothing was done to a message that is not over.
LEMMA NothingDone ==
    ASSUME NEW m, NEW code
    PROVE  /\ DOMAIN Nothing = OutFields /\ Nothing.found = NotAsked /\ Nothing.signed = 0
           /\ LET o == [Nothing EXCEPT !.result = code]
              IN  DOMAIN o = OutFields /\ o.found = NotAsked /\ o.signed = 0
BY DEF Nothing, OutFields

\* A message begins, or none does.
LEMMA FreshStep ==
    ASSUME IInv, UNCHANGED conf, out' = Nothing, Placed(mta'), DOMAIN dfc' = ContextFields,
           Own(dfc', mta')
    PROVE  IInv'
<1>1. out'.found = NotAsked /\ out'.signed = 0 /\ DOMAIN out' = DOMAIN Nothing
  BY NothingDone
<1>2. ClaimsRemoved' BY <1>1 DEF ClaimsRemoved, Ended
<1>3. Placed(mta)' /\ Own(dfc, mta)' BY DEF Placed, Own
<1>4. conf' \in Configs BY DEF IInv
<1>5. (out = Nothing)' BY DEF Nothing, NotAsked
<1>. QED BY <1>1, <1>2, <1>3, <1>4, <1>5 DEF IInv

\* The MTA obeys a callback.
LEMMA ObeyStep ==
    ASSUME IInv, mta.at # "done", NEW r, NEW next, Obey(r, next),
           DOMAIN r.c = ContextFields, Placed(next),
           r.ret \in {"continue", "skip"} => Own(r.c, next)
    PROVE  IInv'
<1>1. /\ dfc' = r.c /\ conf' = conf /\ conf \in Configs /\ out = Nothing
      /\ mta' = IF r.ret \in {"continue", "skip"} THEN next ELSE [next EXCEPT !.at = "done"]
      /\ out' = IF r.ret \in {"continue", "skip"} THEN out ELSE [out EXCEPT !.result = r.ret]
  BY DEF Obey, IInv
<1>2. CASE r.ret \in {"continue", "skip"}
  <2>1. mta' = next /\ out' = Nothing BY <1>1, <1>2
  <2>. QED BY <1>1, <1>2, <2>1, FreshStep
<1>3. CASE r.ret \notin {"continue", "skip"}
  <2>1. PICK code : code = r.ret OBVIOUS
  <2>2. out' = [Nothing EXCEPT !.result = code] /\ mta' = [next EXCEPT !.at = "done"]
    BY <1>1, <1>3, <2>1
  <2>3. /\ DOMAIN out' = OutFields /\ out'.found = NotAsked /\ out'.signed = 0
        /\ DOMAIN Nothing = OutFields
    BY <2>2, NothingDone
  <2>4. Placed(mta)' /\ mta'.at = "done"
    <3>1. PICK m : m = mta' OBVIOUS
    <3>2. Placed(m) /\ m.at = "done" BY <2>2, <3>1 DEF Placed
    <3>. QED BY <3>1, <3>2 DEF Placed
  <2>5. ClaimsRemoved' BY <2>3 DEF ClaimsRemoved, Ended
  <2>6. (DOMAIN out = DOMAIN Nothing)' BY <2>3 DEF Nothing, NotAsked
  <2>. QED BY <1>1, <2>3, <2>4, <2>5, <2>6 DEF IInv
<1>. QED BY <1>2, <1>3

\* Mail is a sequence of fields.
LEMMA MailFields ==
    ASSUME NEW m \in Mails
    PROVE  /\ m.fields \in Seq(Range(m.fields)) /\ Len(m.fields) \in Nat
           /\ SubSeq(m.fields, 1, 0) = <<>>
           /\ SubSeq(m.fields, 1, Len(m.fields)) = m.fields
           /\ \A n \in Nat : n < Len(m.fields) =>
                 Append(SubSeq(m.fields, 1, n), m.fields[n + 1]) = SubSeq(m.fields, 1, n + 1)
<1>1. m.fields \in Seq(Range(m.fields)) BY FilterAssumption
<1>0. PICK S : S = Range(m.fields) OBVIOUS
<1>2. PICK s \in Seq(S) : s = m.fields BY <1>0, <1>1
<1>3. Len(s) \in Nat /\ SubSeq(s, 1, 0) = <<>> /\ SubSeq(s, 1, Len(s)) = s
  OBVIOUS
<1>4. ASSUME NEW n \in Nat, n < Len(s)
      PROVE  Append(SubSeq(s, 1, n), s[n + 1]) = SubSeq(s, 1, n + 1)
  BY <1>4
<1>. QED BY <1>1, <1>2, <1>3, <1>4

\* The MTA between messages.
LEMMA IdlePlaced ==
    ASSUME NEW m \in Mails
    PROVE  Placed(Idle) /\ Placed([Idle EXCEPT !.at = "rcpt", !.mail = m])
           /\ [Idle EXCEPT !.at = "rcpt", !.mail = m].mail = m
           /\ [Idle EXCEPT !.at = "rcpt", !.mail = m].n = 0
<1>1. Idle.mail \in Mails BY FilterAssumption DEF Idle
<1>2. /\ DOMAIN Idle = {"at", "mail", "n", "body", "to"} /\ Idle.n = 0 /\ Idle.at = "idle"
  BY DEF Idle
<1>3. Len(Idle.mail.fields) \in Nat /\ Len(m.fields) \in Nat BY <1>1, MailFields
<1>. DEFINE r == [Idle EXCEPT !.at = "rcpt", !.mail = m]
<1>4. DOMAIN r = DOMAIN Idle /\ r.at = "rcpt" /\ r.mail = m /\ r.n = 0
  BY <1>2
<1>. HIDE DEF r
<1>5. Placed(r) BY <1>2, <1>3, <1>4 DEF Placed
<1>6. Placed(Idle) BY <1>1, <1>2, <1>3 DEF Placed
<1>. QED BY <1>4, <1>5, <1>6 DEF r

\* The invariant holds at the start.
LEMMA InitOK == Init => IInv
<1>. SUFFICES ASSUME Init PROVE IInv
  OBVIOUS
<1>1. conf \in Configs /\ dfc = NoContext /\ mta = Idle /\ out = Nothing BY DEF Init
<1>2. Placed(mta) BY <1>1, FilterAssumption, IdlePlaced
<1>3. Own(dfc, mta) BY <1>1, NewContextFields DEF Own
<1>4. out.found = NotAsked /\ out.signed = 0 BY <1>1, NothingDone
<1>. QED BY <1>1, <1>2, <1>3, <1>4, NewContextFields DEF IInv, ClaimsRemoved, Ended

\* mlfi_envfrom() forgets the message before.
LEMMA MailFromStep ==
    ASSUME IInv, NEW m \in Mails, NEW fails \in BOOLEAN, MailFrom(m, fails)
    PROVE  IInv'
<1>1. /\ dfc' = EnvFrom(fails).c /\ UNCHANGED conf /\ out' = Nothing
      /\ mta' = IF fails THEN Idle ELSE [Idle EXCEPT !.at = "rcpt", !.mail = m]
  BY DEF MailFrom
<1>2. Placed(mta') BY <1>1, IdlePlaced
<1>3. dfc' = IF fails THEN NoContext ELSE NewContext BY <1>1 DEF EnvFrom, Says
<1>4. Own(dfc', mta')
  <2>1. CASE fails BY <1>3, <2>1, NewContextFields DEF Own
  <2>2. CASE ~fails
    <3>1. mta'.n = 0 /\ mta'.mail = m BY <1>1, <2>2, IdlePlaced
    <3>2. dfc'.hdrs = <<>> /\ dfc'.rcpts = {} /\ dfc'.signing = FALSE
      BY <1>3, <2>2, NewContextFields
    <3>. QED BY <3>1, <3>2, MailFields DEF Own
  <2>. QED BY <2>1, <2>2
<1>. QED BY <1>1, <1>2, <1>3, <1>4, NewContextFields, FreshStep

\* A recipient is kept or refused.
LEMMA RcptToStep ==
    ASSUME IInv, NEW r, NEW fails \in BOOLEAN, RcptTo(r, fails)
    PROVE  IInv'
<1>. DEFINE x == EnvRcpt(dfc, r, fails)
            next == [mta EXCEPT !.to = @ \cup {r}]
<1>1. /\ mta.at = "rcpt"
      /\ IF x.ret = "tempfail" THEN dfc' = x.c /\ UNCHANGED <<conf, mta, out>> ELSE Obey(x, next)
  BY DEF RcptTo
<1>2. DOMAIN dfc = ContextFields /\ Placed(mta) /\ Own(dfc, mta) /\ out = Nothing
  BY <1>1 DEF IInv
<1>3. /\ Placed(next) /\ next.mail = mta.mail /\ next.n = mta.n /\ next.at = mta.at
      /\ next.to = mta.to \cup {r}
  BY <1>2 DEF Placed
<1>. DEFINE kept == [dfc EXCEPT !.rcpts = @ \cup {r}]
<1>4. /\ DOMAIN kept = ContextFields /\ kept.live = dfc.live /\ kept.hdrs = dfc.hdrs
      /\ kept.rcpts = dfc.rcpts \cup {r} /\ kept.signing = dfc.signing
  BY <1>2 DEF ContextFields
<1>5. /\ x.c \in {dfc, NoContext, kept}
      /\ x.ret = "tempfail" => x.c = NoContext
  BY DEF EnvRcpt, Asserted, Says
<1>. HIDE DEF x, next, kept
<1>6. DOMAIN x.c = ContextFields BY <1>2, <1>4, <1>5, NewContextFields
<1>7. Own(x.c, next) BY <1>1, <1>2, <1>3, <1>4, <1>5, NewContextFields DEF Own
<1>8. CASE x.ret = "tempfail"
  <2>1. dfc' = NoContext /\ mta' = mta /\ out' = Nothing /\ UNCHANGED conf
    BY <1>1, <1>2, <1>5, <1>8
  <2>2. Own(dfc', mta') BY <2>1, NewContextFields DEF Own
  <2>. QED BY <1>2, <2>1, <2>2, NewContextFields, FreshStep
<1>9. CASE x.ret # "tempfail" BY <1>1, <1>3, <1>6, <1>7, <1>9, ObeyStep
<1>. QED BY <1>8, <1>9

\* A field is kept, or the message refused.
LEMMA PassHeaderStep ==
    ASSUME IInv, NEW fails \in BOOLEAN, PassHeader(fails)
    PROVE  IInv'
<1>. DEFINE f == mta.mail.fields[mta.n + 1]
            x == HeaderCallback(dfc, f, fails)
            next == [mta EXCEPT !.at = "header", !.n = @ + 1]
<1>1. mta.at \in {"rcpt", "header"} /\ mta.n < Len(mta.mail.fields) /\ Obey(x, next)
  BY DEF PassHeader
<1>2. DOMAIN dfc = ContextFields /\ Placed(mta) /\ Own(dfc, mta) /\ conf \in Configs
  BY <1>1 DEF IInv
<1>3. /\ mta.mail \in Mails /\ mta.n \in Nat /\ Len(mta.mail.fields) \in Nat
      /\ Append(SubSeq(mta.mail.fields, 1, mta.n), f) = SubSeq(mta.mail.fields, 1, mta.n + 1)
  BY <1>1, <1>2, MailFields DEF Placed
<1>4. /\ Placed(next) /\ next.mail = mta.mail /\ next.n = mta.n + 1 /\ next.to = mta.to
      /\ next.at = "header"
  BY <1>1, <1>2, <1>3 DEF Placed
<1>. DEFINE kept == [dfc EXCEPT !.hdrs = Append(@, f)]
<1>5. /\ DOMAIN kept = ContextFields /\ kept.live = dfc.live /\ kept.hdrs = Append(dfc.hdrs, f)
      /\ kept.rcpts = dfc.rcpts /\ kept.signing = dfc.signing
  BY <1>2 DEF ContextFields
<1>6. /\ x.c \in {dfc, NoContext, kept}
      /\ x.ret \in {"continue", "skip"} => x.c \in {NoContext, kept}
  BY <1>2, FilterAssumption DEF HeaderCallback, Asserted, Says
<1>. HIDE DEF x, next, kept
<1>7. DOMAIN x.c = ContextFields BY <1>2, <1>5, <1>6, NewContextFields
<1>8. x.ret \in {"continue", "skip"} => Own(x.c, next)
  BY <1>1, <1>2, <1>3, <1>4, <1>5, <1>6, NewContextFields DEF Own
<1>. QED BY <1>1, <1>4, <1>7, <1>8, ObeyStep

\* It is settled whether the message is signed.
LEMMA EndHeadersStep ==
    ASSUME IInv, NEW fails, NEW w, EndHeaders(fails, w)
    PROVE  IInv'
<1>. DEFINE x == EohCallback(dfc, mta.mail, fails, w)
            next == [mta EXCEPT !.at = "body"]
<1>1. /\ mta.at \in {"rcpt", "header"} /\ mta.n = Len(mta.mail.fields) /\ Obey(x, next)
  BY DEF EndHeaders
<1>2. DOMAIN dfc = ContextFields /\ Placed(mta) /\ Own(dfc, mta) BY <1>1 DEF IInv
<1>3. /\ Placed(next) /\ next.mail = mta.mail /\ next.n = mta.n /\ next.to = mta.to
      /\ next.at = "body"
  BY <1>1, <1>2 DEF Placed
<1>. HIDE DEF next
<1>4. CASE dfc.live
  <2>1. PICK m : m = mta.mail OBVIOUS
  <2>2. /\ DOMAIN x.c = ContextFields
        /\ x.c.live => /\ x.c.hdrs = dfc.hdrs /\ x.c.rcpts = dfc.rcpts
                       /\ x.c.signing => dfc.signing \/ (mta.mail.own /\ mta.mail.local)
    BY <1>2, <1>4, EohKeeps
  <2>. HIDE DEF x
  <2>3. Own(x.c, next) BY <1>1, <1>2, <1>3, <1>4, <2>2 DEF Own
  <2>. QED BY <1>1, <1>3, <2>2, <2>3, ObeyStep
<1>5. CASE ~dfc.live
  <2>1. x.c = dfc BY <1>5 DEF EohCallback, Asserted, Says
  <2>. HIDE DEF x
  <2>2. Own(x.c, next) BY <1>5, <2>1 DEF Own
  <2>. QED BY <1>1, <1>2, <1>3, <2>1, <2>2, ObeyStep
<1>. QED BY <1>4, <1>5

\* A piece of body is passed.
LEMMA PassBodyStep == IInv /\ PassBody => IInv'
<1>. SUFFICES ASSUME IInv, PassBody PROVE IInv'
  OBVIOUS
<1>. DEFINE x == BodyCallback(dfc)
            next == [mta EXCEPT !.body = @ + 1, !.at = IF x.ret = "skip" THEN "skip" ELSE @]
<1>1. mta.at = "body" /\ Obey(x, next) BY DEF PassBody
<1>2. DOMAIN dfc = ContextFields /\ Placed(mta) /\ Own(dfc, mta) BY <1>1 DEF IInv
<1>3. Kept(dfc, x.c) BY <1>2, BodyKeeps
<1>. HIDE DEF x
<1>4. /\ Placed(next) /\ next.mail = mta.mail /\ next.n = mta.n /\ next.to = mta.to
      /\ next.at \in {"body", "skip"}
  BY <1>1, <1>2 DEF Placed
<1>. HIDE DEF next
<1>5. Own(x.c, next) BY <1>1, <1>2, <1>3, <1>4 DEF Own, Kept
<1>. QED BY <1>1, <1>3, <1>4, <1>5, ObeyStep DEF Kept

\* The message is judged, signed and reported on.
LEMMA EndMessageStep ==
    ASSUME IInv, NEW w, NEW found, NEW changes \in BOOLEAN, NEW fails \in BOOLEAN,
           EndMessage(w, found, changes, fails)
    PROVE  IInv'
<1>. DEFINE r == EomCallback(dfc, w, found, changes, fails)
<1>1. /\ mta.at \in {"body", "skip"} /\ dfc' = r.c /\ UNCHANGED conf
      /\ mta' = [mta EXCEPT !.at = "done"]
      /\ out' = [r.did EXCEPT !.result = r.ret, !.found = found, !.changes = changes]
  BY DEF EndMessage
<1>2. DOMAIN dfc = ContextFields /\ Placed(mta) /\ Own(dfc, mta) /\ conf \in Configs
  BY <1>1 DEF IInv
<1>3. /\ DOMAIN r.c = ContextFields /\ DOMAIN r.did = OutFields
      /\ r.did.signed = 1 => dfc.live /\ dfc.signing
      /\ r.ret \in {"accept", "continue"} /\ changes
           => dfc.live /\ r.did.gone = RemoveAuthRes(dfc)
  BY <1>2, EomKeeps
<1>. HIDE DEF r
<1>4. /\ DOMAIN out' = OutFields /\ out'.signed = r.did.signed /\ out'.gone = r.did.gone
      /\ out'.result = r.ret /\ out'.found = found /\ out'.changes = changes
  BY <1>1, <1>3 DEF OutFields
<1>5. mta'.mail = mta.mail /\ mta'.at = "done" /\ Placed(mta)'
  <2>1. PICK m : m = mta' OBVIOUS
  <2>2. Placed(m) /\ m.mail = mta.mail /\ m.at = "done" BY <1>1, <1>2, <2>1 DEF Placed
  <2>. QED BY <2>1, <2>2 DEF Placed
<1>6. mta.n = Len(mta.mail.fields) /\ mta.mail \in Mails BY <1>1, <1>2 DEF Placed
<1>7. dfc.live => dfc.hdrs = mta.mail.fields /\ (dfc.signing => Mine)
  BY <1>2, <1>6, MailFields DEF Own, Mine
<1>8. Mine' = Mine BY <1>5 DEF Mine
<1>9. (out.signed = 1 => Mine)' BY <1>3, <1>4, <1>7, <1>8
<1>10. ClaimsRemoved'
  <2>1. ASSUME r.ret \in {"accept", "continue"}, changes, ~Mine
        PROVE  RightOnes(mta.mail.fields, r.did.gone)
    <3>1. /\ ~dfc.signing /\ r.did.gone = RemoveAuthRes(dfc)
          /\ dfc.hdrs = mta.mail.fields
      BY <1>3, <1>7, <2>1
    <3>2. Len(dfc.hdrs) \in Nat BY <1>6, <3>1, MailFields
    <3>. QED BY <3>1, <3>2, RemovesRightOnes
  <2>2. (RightOnes(mta.mail.fields, out.gone))' <=> RightOnes(mta.mail.fields, r.did.gone)
    BY <1>1, <1>4, <1>5 DEF RightOnes, Removed, Claims, MethodMatch, HostMatch
  <2>4. AreRemoved' BY <1>4, <1>5, <1>8, <2>1, <2>2 DEF AreRemoved, Delivered
  <2>3. (ClaimsRemoved <=> AreRemoved)' BY ClaimsForm, PTL
  <2>. QED BY <2>3, <2>4
<1>11. (DOMAIN out = DOMAIN Nothing)'
  <2>1. DOMAIN Nothing = OutFields BY NothingDone
  <2>. QED BY <1>4, <2>1 DEF Nothing, NotAsked
<1>. QED BY <1>1, <1>2, <1>3, <1>5, <1>9, <1>10, <1>11 DEF IInv

\* A message is broken off.
LEMMA AbortStep == IInv /\ AbortMessage => IInv'
<1>. SUFFICES ASSUME IInv, AbortMessage PROVE IInv'
  OBVIOUS
<1>1. dfc' = NoContext /\ mta' = Idle /\ out' = Nothing /\ UNCHANGED conf
  BY DEF AbortMessage
<1>2. Placed(mta') /\ Own(dfc', mta')
  BY <1>1, FilterAssumption, IdlePlaced, NewContextFields DEF Own
<1>. QED BY <1>1, <1>2, NewContextFields, FreshStep

-----------------------------------------------------------------------------
(* What is told of a message.                                              *)

\* Until it is over the context reads this message and knows no verdict.
Told ==
    /\ mta.body \in Nat /\ mta.body <= mta.mail.body
    /\ mta.at \notin {"body", "skip", "done"} => mta.body = 0
    /\ mta.at # "done" => Fresh(dfc, mta)
    /\ PassSound

\* A new context, or none, has read nothing.
LEMMA NewFresh ==
    ASSUME NEW m
    PROVE  Fresh(NoContext, m) /\ Fresh(NewContext, m)
<1>1. ~NoContext.live BY NewContextFields
<1>2. NewContext.status = "UNKNOWN" /\ ~NewContext.policy /\ ~NewContext.handle BY DEF NewContext
<1>. QED BY <1>1, <1>2 DEF Fresh

\* A message of which nothing was told.
LEMMA UntoldStep ==
    ASSUME UNCHANGED conf, mta'.body \in Nat, mta'.body <= mta'.mail.body,
           mta'.at \notin {"body", "skip", "done"} => mta'.body = 0,
           mta'.at # "done" => Fresh(dfc', mta'), out'.dkim = "untold", out'.adsp = "untold"
    PROVE  Told'
<1>1. (mta.at # "done" => Fresh(dfc, mta))' BY DEF Fresh, Reads, Measures, Sifted
<1>2. PassFor(conf, mta.mail, mta.body, out)' BY DEF PassFor
<1>3. (PassSound <=> PassFor(conf, mta.mail, mta.body, out))' BY PassForm, PTL
<1>4. PassSound' BY <1>2, <1>3
<1>. QED BY <1>1, <1>4 DEF Told

\* The MTA obeys a callback.
LEMMA ObeyTells ==
    ASSUME IInv, Told, mta.at # "done", NEW r, NEW next, Obey(r, next), Placed(next),
           next.body \in Nat, next.body <= next.mail.body,
           next.at \notin {"body", "skip", "done"} => next.body = 0,
           r.ret \in {"continue", "skip"} => Fresh(r.c, next)
    PROVE  Told'
<1>1. /\ dfc' = r.c /\ conf' = conf /\ out = Nothing
      /\ mta' = IF r.ret \in {"continue", "skip"} THEN next ELSE [next EXCEPT !.at = "done"]
      /\ out' = IF r.ret \in {"continue", "skip"} THEN out ELSE [out EXCEPT !.result = r.ret]
  BY DEF Obey, IInv
<1>2. Nothing.dkim = "untold" /\ Nothing.adsp = "untold" /\ DOMAIN Nothing = OutFields
  BY DEF Nothing, OutFields
<1>3. CASE r.ret \in {"continue", "skip"}
  <2>1. mta' = next /\ out' = Nothing BY <1>1, <1>3
  <2>2. out'.dkim = "untold" /\ out'.adsp = "untold" BY <1>2, <2>1
  <2>. QED BY <1>1, <1>3, <2>1, <2>2, UntoldStep
<1>4. CASE r.ret \notin {"continue", "skip"}
  <2>1. PICK code : code = r.ret OBVIOUS
  <2>2. mta' = [next EXCEPT !.at = "done"] /\ out' = [Nothing EXCEPT !.result = code] BY <1>1, <1>4, <2>1
  <2>3. PICK n : n = [next EXCEPT !.at = "done"] OBVIOUS
  <2>4. n.at = "done" /\ n.body = next.body /\ n.mail = next.mail BY <2>3 DEF Placed
  <2>5. out'.dkim = "untold" /\ out'.adsp = "untold" BY <1>2, <2>2 DEF OutFields
  <2>6. mta' = n BY <2>2, <2>3
  <2>. QED BY <1>1, <2>4, <2>5, <2>6, UntoldStep
<1>. QED BY <1>3, <1>4

LEMMA MailFromTells ==
    ASSUME IInv, Told, NEW m \in Mails, NEW fails \in BOOLEAN, MailFrom(m, fails)
    PROVE  Told'
<1>1. /\ dfc' = EnvFrom(fails).c /\ UNCHANGED conf /\ out' = Nothing
      /\ mta' = IF fails THEN Idle ELSE [Idle EXCEPT !.at = "rcpt", !.mail = m]
  BY DEF MailFrom
<1>2. dfc' = IF fails THEN NoContext ELSE NewContext BY <1>1 DEF EnvFrom, Says
<1>3. Fresh(dfc', mta') BY <1>2, NewFresh
<1>4. Idle.mail \in Mails /\ Idle.body = 0 BY FilterAssumption DEF Idle
<1>5. mta'.body = 0 /\ mta'.mail \in Mails
  <2>1. CASE fails BY <1>1, <1>4, <2>1
  <2>2. CASE ~fails
    <3>1. mta' = [at |-> "rcpt", mail |-> m, n |-> 0, body |-> 0, to |-> {}] BY <1>1, <2>2 DEF Idle
    <3>. QED BY <3>1
  <2>. QED BY <2>1, <2>2
<1>6. mta'.body \in Nat /\ mta'.body <= mta'.mail.body
  <2>1. PICK k : k = mta'.mail OBVIOUS
  <2>2. k.body \in Nat BY <1>5, <2>1, MailFacts
  <2>. QED BY <1>5, <2>1, <2>2
<1>7. out'.dkim = "untold" /\ out'.adsp = "untold" BY <1>1 DEF Nothing
<1>. QED BY <1>1, <1>3, <1>5, <1>6, <1>7, UntoldStep

LEMMA RcptToTells ==
    ASSUME IInv, Told, NEW r, NEW fails \in BOOLEAN, RcptTo(r, fails)
    PROVE  Told'
<1>. DEFINE x == EnvRcpt(dfc, r, fails)
            next == [mta EXCEPT !.to = @ \cup {r}]
            kept == [dfc EXCEPT !.rcpts = @ \cup {r}]
<1>1. /\ mta.at = "rcpt"
      /\ IF x.ret = "tempfail" THEN dfc' = x.c /\ UNCHANGED <<conf, mta, out>> ELSE Obey(x, next)
  BY DEF RcptTo
<1>2. DOMAIN dfc = ContextFields /\ Placed(mta) /\ out = Nothing BY <1>1 DEF IInv
<1>3. Fresh(dfc, mta) /\ mta.body = 0 /\ mta.body <= mta.mail.body BY <1>1 DEF Told
<1>4. /\ Placed(next) /\ next.mail = mta.mail /\ next.at = mta.at /\ next.body = mta.body
  BY <1>2 DEF Placed
<1>5. /\ kept.live = dfc.live /\ kept.status = dfc.status /\ kept.policy = dfc.policy
      /\ kept.handle = dfc.handle
  BY <1>2 DEF ContextFields
<1>6. x.c \in {dfc, NoContext, kept} /\ (x.ret = "tempfail" => x.c = NoContext)
  BY DEF EnvRcpt, Asserted, Says
<1>. HIDE DEF x, next, kept
<1>7. Fresh(dfc, next) /\ Fresh(kept, next) BY <1>1, <1>3, <1>4, <1>5 DEF Fresh
<1>8. Fresh(x.c, next) BY <1>6, <1>7, NewFresh
<1>9. CASE x.ret = "tempfail"
  <2>1. dfc' = NoContext /\ mta' = mta /\ out' = Nothing /\ UNCHANGED conf BY <1>1, <1>2, <1>6, <1>9
  <2>2. out'.dkim = "untold" /\ out'.adsp = "untold" BY <2>1 DEF Nothing
  <2>3. Fresh(dfc', mta') BY <2>1, NewFresh
  <2>. QED BY <1>3, <2>1, <2>2, <2>3, UntoldStep
<1>10. CASE x.ret # "tempfail" BY <1>1, <1>3, <1>4, <1>8, <1>10, ObeyTells
<1>. QED BY <1>9, <1>10

LEMMA PassHeaderTells ==
    ASSUME IInv, Told, NEW fails \in BOOLEAN, PassHeader(fails)
    PROVE  Told'
<1>. DEFINE f == mta.mail.fields[mta.n + 1]
            x == HeaderCallback(dfc, f, fails)
            next == [mta EXCEPT !.at = "header", !.n = @ + 1]
            kept == [dfc EXCEPT !.hdrs = Append(@, f)]
<1>1. mta.at \in {"rcpt", "header"} /\ mta.n < Len(mta.mail.fields) /\ Obey(x, next)
  BY DEF PassHeader
<1>2. DOMAIN dfc = ContextFields /\ Placed(mta) BY <1>1 DEF IInv
<1>3. Fresh(dfc, mta) /\ mta.body = 0 /\ mta.body <= mta.mail.body BY <1>1 DEF Told
<1>4. mta.mail \in Mails /\ mta.n \in Nat /\ Len(mta.mail.fields) \in Nat BY <1>2, MailFields DEF Placed
<1>5. Placed(next) /\ next.mail = mta.mail /\ next.at = "header" /\ next.body = mta.body
  BY <1>1, <1>2, <1>4 DEF Placed
<1>6. /\ kept.live = dfc.live /\ kept.status = dfc.status /\ kept.policy = dfc.policy
      /\ kept.handle = dfc.handle
  BY <1>2 DEF ContextFields
<1>7. x.c \in {dfc, NoContext, kept} BY DEF HeaderCallback, Asserted, Says
<1>. HIDE DEF x, next, kept
<1>8. Fresh(dfc, next) /\ Fresh(kept, next) BY <1>1, <1>3, <1>5, <1>6 DEF Fresh
<1>9. Fresh(x.c, next) BY <1>7, <1>8, NewFresh
<1>. QED BY <1>1, <1>3, <1>5, <1>9, ObeyTells

LEMMA EndHeadersTells ==
    ASSUME IInv, Told, NEW fails, NEW w \in {Up, Down}, EndHeaders(fails, w)
    PROVE  Told'
<1>. DEFINE x == EohCallback(dfc, mta.mail, fails, w)
            next == [mta EXCEPT !.at = "body"]
<1>1. /\ mta.at \in {"rcpt", "header"} /\ mta.n = Len(mta.mail.fields) /\ Obey(x, next)
  BY DEF EndHeaders
<1>2. DOMAIN dfc = ContextFields /\ Placed(mta) /\ Own(dfc, mta) BY <1>1 DEF IInv
<1>3. Fresh(dfc, mta) /\ mta.body = 0 /\ mta.body <= mta.mail.body BY <1>1 DEF Told
<1>4. Placed(next) /\ next.mail = mta.mail /\ next.at = "body" /\ next.body = mta.body
  BY <1>1, <1>2 DEF Placed
<1>5. mta.mail \in Mails BY <1>2 DEF Placed
<1>. HIDE DEF next
<1>6. ASSUME x.ret \in {"continue", "skip"} PROVE Fresh(x.c, next)
  <2>1. dfc.live
    <3>1. SUFFICES ASSUME ~dfc.live PROVE FALSE OBVIOUS
    <3>2. x = Says(dfc, "ABORT") BY <3>1 DEF EohCallback, Asserted
    <3>. QED BY <1>6, <3>2 DEF Says
  <2>2. dfc.hdrs = mta.mail.fields BY <1>1, <1>2, <1>5, <2>1, MailFields DEF Own
  <2>3. ~dfc.handle /\ dfc.status # "GOOD" /\ ~dfc.policy BY <1>1, <1>3, <2>1 DEF Fresh
  <2>4. x.ret # "ABORT" BY <1>6
  <2>5. PICK y : y = x OBVIOUS
  <2>6. Reading(y.c, mta.mail)
    <3>1. PICK mail \in Mails : mail = mta.mail BY <1>5
    <3>2. y = EohCallback(dfc, mail, fails, w) /\ y.ret # "ABORT" BY <2>4, <2>5, <3>1
    <3>. HIDE DEF x
    <3>3. Reading(y.c, mail) BY <1>2, <2>1, <2>2, <2>3, <3>1, <3>2, EohCallbackReads
    <3>. QED BY <3>1, <3>3
  <2>. HIDE DEF x
  <2>. QED BY <1>3, <1>4, <2>5, <2>6 DEF Reading, Fresh, Measures
<1>. HIDE DEF x
<1>. QED BY <1>1, <1>3, <1>4, <1>6, ObeyTells

LEMMA PassBodyTells == IInv /\ Told /\ PassBody => Told'
<1>. SUFFICES ASSUME IInv, Told, PassBody PROVE Told'
  OBVIOUS
<1>. DEFINE x == BodyCallback(dfc)
            next == [mta EXCEPT !.body = @ + 1, !.at = IF x.ret = "skip" THEN "skip" ELSE @]
<1>1. mta.at = "body" /\ mta.body < mta.mail.body /\ Obey(x, next) BY DEF PassBody
<1>2. DOMAIN dfc = ContextFields /\ Placed(mta) BY <1>1 DEF IInv
<1>3. Fresh(dfc, mta) /\ mta.body \in Nat BY <1>1 DEF Told
<1>4. mta.mail.body \in Nat BY <1>2, MailFacts DEF Placed
<1>5. PICK y : y = x OBVIOUS
<1>. HIDE DEF x
<1>6. /\ Placed(next) /\ next.mail = mta.mail /\ next.body = mta.body + 1
      /\ next.at = (IF y.ret = "skip" THEN "skip" ELSE "body")
  BY <1>1, <1>2, <1>5 DEF Placed
<1>7. PICK n : n = next OBVIOUS
<1>. HIDE DEF next
<1>8. ASSUME y.ret \in {"continue", "skip"} PROVE Fresh(y.c, n)
  <2>1. y.ret # "ABORT" BY <1>8
  <2>2. y = BodyCallback(dfc) BY <1>5 DEF x
  <2>. QED BY <1>1, <1>2, <1>3, <1>6, <1>7, <2>1, <2>2, BodyCallbackReads
<1>9. next.body \in Nat /\ next.body <= next.mail.body /\ next.at \in {"body", "skip"} BY <1>1, <1>3, <1>4, <1>6
<1>. QED BY <1>1, <1>5, <1>6, <1>7, <1>8, <1>9, ObeyTells

LEMMA EndMessageTells ==
    ASSUME IInv, Told, NEW w \in {Up, Down}, NEW found \in Practices, NEW changes \in BOOLEAN, NEW fails \in BOOLEAN,
           EndMessage(w, found, changes, fails)
    PROVE  Told'
<1>. DEFINE r == EomCallback(dfc, w, found, changes, fails)
<1>1. /\ mta.at = "skip" \/ (mta.at = "body" /\ mta.body = mta.mail.body)
      /\ UNCHANGED conf /\ mta' = [mta EXCEPT !.at = "done"]
      /\ out' = [r.did EXCEPT !.result = r.ret, !.found = found, !.changes = changes]
  BY DEF EndMessage
<1>2. DOMAIN dfc = ContextFields /\ Placed(mta) /\ conf \in Configs BY DEF IInv
<1>3. Fresh(dfc, mta) /\ mta.body \in Nat /\ mta.body <= mta.mail.body BY <1>1 DEF Told
<1>4. PICK m : m = mta OBVIOUS
<1>5. AtEnd(m) BY <1>1, <1>2, <1>3, <1>4 DEF AtEnd, Placed
<1>6. DOMAIN r.did = OutFields BY <1>2, EomKeeps
<1>7. PassFor(conf, m.mail, m.body, r.did)
  <2>1. PICK y : y = EomCallback(dfc, w, found, changes, fails) OBVIOUS
  <2>2. PassFor(conf, m.mail, m.body, y.did) BY <1>2, <1>3, <1>4, <1>5, <2>1, EomPass
  <2>. QED BY <2>1, <2>2
<1>. HIDE DEF r
<1>8. out'.dkim = r.did.dkim /\ out'.adsp = r.did.adsp BY <1>1, <1>6 DEF OutFields
<1>9. mta'.at = "done" /\ mta'.mail = m.mail /\ mta'.body = m.body BY <1>1, <1>2, <1>4 DEF Placed
<1>10. PassFor(conf, m.mail, m.body, out') BY <1>7, <1>8 DEF PassFor
<1>11. PassFor(conf, mta.mail, mta.body, out)'
  <2>1. conf' = conf BY <1>1
  <2>. QED BY <1>9, <1>10, <2>1 DEF PassFor
<1>12. (PassSound <=> PassFor(conf, mta.mail, mta.body, out))' BY PassForm, PTL
<1>13. PassSound' BY <1>11, <1>12
<1>. QED BY <1>3, <1>4, <1>9, <1>13 DEF Told

LEMMA AbortTells == IInv /\ Told /\ AbortMessage => Told'
<1>. SUFFICES ASSUME IInv, Told, AbortMessage PROVE Told'
  OBVIOUS
<1>1. dfc' = NoContext /\ mta' = Idle /\ out' = Nothing /\ UNCHANGED conf BY DEF AbortMessage
<1>2. Idle.mail \in Mails /\ Idle.body = 0 BY FilterAssumption DEF Idle
<1>3. Idle.mail.body \in Nat BY <1>2, MailFacts
<1>4. mta'.body = 0 /\ mta'.body <= mta'.mail.body
  <2>1. PICK i : i = Idle OBVIOUS
  <2>2. i.body = 0 /\ i.body <= i.mail.body BY <1>2, <1>3, <2>1
  <2>. QED BY <1>1, <2>1, <2>2
<1>5. out'.dkim = "untold" /\ out'.adsp = "untold" BY <1>1 DEF Nothing
<1>6. Fresh(dfc', mta') BY <1>1, NewFresh
<1>. QED BY <1>1, <1>4, <1>5, <1>6, UntoldStep

\* Nothing is told at the start.
LEMMA InitTells == Init => Told
<1>. SUFFICES ASSUME Init PROVE Told
  OBVIOUS
<1>1. dfc = NoContext /\ mta = Idle /\ out = Nothing BY DEF Init
<1>2. Idle.mail \in Mails /\ Idle.body = 0 BY FilterAssumption DEF Idle
<1>3. Idle.mail.body \in Nat BY <1>2, MailFacts
<1>4. mta.body = 0 /\ mta.body <= mta.mail.body
  <2>1. PICK i : i = Idle OBVIOUS
  <2>2. i.body = 0 /\ i.body <= i.mail.body BY <1>2, <1>3, <2>1
  <2>. QED BY <1>1, <2>1, <2>2
<1>5. out.dkim = "untold" /\ out.adsp = "untold" BY <1>1 DEF Nothing
<1>6. PassSound BY <1>5, PassForm, Untold
<1>7. Fresh(dfc, mta) BY <1>1, NewFresh
<1>. QED BY <1>4, <1>6, <1>7 DEF Told

\* Every step keeps what is told true.
LEMMA StepTells == IInv /\ Told /\ [Next]_vars => Told'
<1>. SUFFICES ASSUME IInv, Told, [Next]_vars PROVE Told'
  OBVIOUS
<1>1. CASE UNCHANGED vars
  <2>1. conf' = conf /\ dfc' = dfc /\ mta' = mta /\ out' = out BY <1>1 DEF vars
  <2>2. PassFor(conf, mta.mail, mta.body, out) BY PassForm DEF Told
  <2>3. PassFor(conf, mta.mail, mta.body, out)' BY <2>1, <2>2 DEF PassFor
  <2>4. (PassSound <=> PassFor(conf, mta.mail, mta.body, out))' BY PassForm, PTL
  <2>5. PassSound' BY <2>3, <2>4
  <2>6. (mta.at # "done" => Fresh(dfc, mta))' BY <2>1 DEF Told, Fresh, Reads, Measures, Sifted
  <2>. QED BY <2>1, <2>5, <2>6 DEF Told
<1>2. CASE Next
  <2>1. CASE \E m \in Mails, fails \in BOOLEAN : MailFrom(m, fails) BY <2>1, MailFromTells
  <2>2. CASE \E r \in mta.mail.rcpts, fails \in BOOLEAN : RcptTo(r, fails) BY <2>2, RcptToTells
  <2>3. CASE \E fails \in BOOLEAN : PassHeader(fails) BY <2>3, PassHeaderTells
  <2>4. CASE \E fails \in {"nothing", "regexec", "pattern", "handle"}, w \in {Up, Down} : EndHeaders(fails, w)
    BY <2>4, EndHeadersTells
  <2>5. CASE \E w \in {Up, Down}, found \in Practices, changes, fails \in BOOLEAN :
                EndMessage(w, found, changes, fails)
    BY <2>5, EndMessageTells
  <2>. QED BY <1>2, <2>1, <2>2, <2>3, <2>4, <2>5, PassBodyTells, AbortTells DEF Next
<1>. QED BY <1>1, <1>2

-----------------------------------------------------------------------------
(* The theorems.                                                           *)

\* Every step keeps the invariant.
LEMMA StepOK == IInv /\ [Next]_vars => IInv'
<1>. SUFFICES ASSUME IInv, [Next]_vars PROVE IInv'
  OBVIOUS
<1>1. CASE UNCHANGED vars
  <2>1. AreRemoved => AreRemoved'
    BY <1>1 DEF vars, AreRemoved, Delivered, Ended, Mine, RightOnes, Removed, Claims, MethodMatch, HostMatch
  <2>2. (ClaimsRemoved <=> AreRemoved)' BY ClaimsForm, PTL
  <2>3. ClaimsRemoved' BY <2>1, <2>2, ClaimsForm DEF IInv
  <2>4. (DOMAIN out = DOMAIN Nothing /\ (mta.at # "done" => out = Nothing))'
    BY <1>1 DEF vars, IInv, Nothing, NotAsked
  <2>. QED BY <1>1, <2>3, <2>4 DEF vars, IInv, Own, Placed, Mine
<1>. QED BY <1>1, MailFromStep, RcptToStep, PassHeaderStep, EndHeadersStep, PassBodyStep,
            EndMessageStep, AbortStep DEF Next

\* The invariant holds throughout: a context holds this message and no other.
THEOREM Inductive == Spec => []IInv
<1>. QED BY InitOK, StepOK, PTL DEF Spec

\* What mlfi_envfrom() ... mlfi_body() keep is of the message they are in, however the
\* messages before it on the connection ended.
OwnContext ==
    mta.at # "done" /\ dfc.live =>
        /\ dfc.hdrs = SubSeq(mta.mail.fields, 1, mta.n)
        /\ dfc.rcpts \subseteq mta.to
        /\ dfc.signing => Mine

\* Nothing of an earlier message is in the context when a callback runs.
THEOREM OwnContextAlways == Spec => []OwnContext
<1>1. IInv => OwnContext BY DEF IInv, Own, OwnContext, Mine
<1>. QED BY <1>1, Inductive, PTL

\* mlfi_eom() signs only mail that an internal host sends from a domain of ours.
SignsOwnOnly == out.signed = 1 => Mine

\* No message of another domain or from outside is ever signed, whatever was signed
\* before it on the connection.
THEOREM SignsOwnOnlyAlways == Spec => []SignsOwnOnly
<1>1. IInv => SignsOwnOnly BY DEF IInv, SignsOwnOnly
<1>. QED BY <1>1, Inductive, PTL

\* mlfi_eom() removes the Authentication-Results fields in this host's name, by their
\* number, and no others, from all mail it verified.
THEOREM ClaimsRemovedAlways == Spec => []ClaimsRemoved
<1>1. IInv => ClaimsRemoved BY DEF IInv
<1>. QED BY <1>1, Inductive, PTL
\* mlfi_eom() tells of a pass only when a signature is good, and of the author's own
\* only when one of the author's is: for all mail, all settings, all keys, and however
\* the messages before it on the connection ended.
THEOREM PassSoundAlways == Spec => []PassSound
<1>1. IInv /\ Told /\ [Next]_vars => (IInv /\ Told)' BY StepOK, StepTells
<1>2. Init => IInv /\ Told BY InitOK, InitTells
<1>3. Told => PassSound BY DEF Told
<1>. QED BY <1>1, <1>2, <1>3, PTL DEF Spec
=============================================================================
