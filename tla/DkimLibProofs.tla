--------------------------- MODULE DkimLibProofs ---------------------------
(***************************************************************************)
(* What the calls of DkimLib keep true of a handle, for every message,     *)
(* every key record, every order of calls: lemmas for the proofs about     *)
(* DkimHandle and Filter.                                                  *)
(*                                                                         *)
(* ans is what is published under each key's name; q says that all lookups *)
(* so far were answered.                                                   *)
(***************************************************************************)
EXTENDS DkimLib, NaturalsInduction, WellFoundedInduction, SequenceTheorems, TLAPS

IsSeq(s) == \E S : s \in Seq(S)

SigFields ==
    {"spec", "error", "ignore", "processed", "passed", "bh", "len", "canon", "key", "b64", "tags", "strict"}
HandleFields ==
    {"mode", "lib", "state", "hdrs", "sigs", "siglist", "canons", "hdrsrun", "skipbody", "fed", "bodydone",
     "chunk", "line", "cr", "tail", "domain", "signature", "signed"}

\* The key made the signature over these headers; the headers that must be
\* signed are; the record can be used for the signature; the limit lies
\* behind the end of the body.
Made(e, s) == s.good /\ (e.tail => s.tailok)
Signs(e, s) == e.lib.mbs /\ HasHeader(e, "Must") => s.must
Readable(s, a) == a.st = "OK" /\ "malformed" \notin a.rec.flaws /\ KeyFlaws(s, a.rec) = {}
Usable(s, a) == Readable(s, a) /\ a.rec.p = "good"
Beyond(e, g) == e.bodydone /\ g.len # -1 /\ e.fed < g.len

\* A key and a key record, read or handed on, are those that are published.
Held(key, tags, a) ==
    /\ tags # NoTags => a.st = "OK" /\ "malformed" \notin a.rec.flaws /\ tags = a.rec
    /\ key # "none" => tags # NoTags
    /\ key \in {"none", "garbage", tags.p}
    /\ key = "garbage" => tags.p = "good"
KeyOK(g, a) ==
    /\ Held(g.key, g.tags, a)
    /\ g.b64 => g.key = g.tags.p
    /\ g.processed => g.key \in {"none", "garbage", "good", "undecodable"}

\* A signature that was verified was made by the published key.
PassedOK(e, g, a) ==
    g.passed =>
        /\ g.processed /\ g.spec.good /\ Usable(g.spec, a) /\ g.strict = a.rec.strict
        /\ g.error \in {"UNKNOWN", "OK"} => ~(g.strict /\ g.spec.sub) /\ Signs(e, g.spec)

\* The body hash was compared when the body was complete.
HashOK(e, g) ==
    /\ g.bh # "UNTESTED" =>
         /\ g.passed /\ e.bodydone /\ g.error # "UNKNOWN" /\ ~Beyond(e, g)
         /\ g.bh = IF g.spec.over = Wrote(e, g) THEN "MATCH" ELSE "MISMATCH"
    /\ g.error = "OK" => g.bh # "UNTESTED"

\* What a signature without an error is, and one that was not looked at.
Untouched(g) ==
    /\ ~g.passed /\ ~g.b64 /\ g.key = "none" /\ g.tags = NoTags /\ g.bh = "UNTESTED"
ErrorOK(e, g) ==
    /\ g.canon <=> g.spec.flaws = {}
    /\ g.error \in {"UNKNOWN", "OK"} => g.canon /\ ~Beyond(e, g)
    /\ g.processed => e.hdrsrun
    /\ g.error = "UNKNOWN" /\ ~g.processed => Untouched(g)

\* A signature has an error for a reason.
Justified(e, g, a, q) ==
    /\ g.processed /\ ~g.passed => g.error \notin {"UNKNOWN", "OK"}
    /\ q /\ ~g.passed /\ g.error \notin {"UNKNOWN", "OK"} =>
         g.spec.flaws # {} \/ Beyond(e, g) \/ g.key = "garbage" \/ ~Usable(g.spec, a) \/ ~Made(e, g.spec)
    /\ g.passed /\ g.error \notin {"UNKNOWN", "OK"} =>
         Beyond(e, g) \/ (g.strict /\ g.spec.sub) \/ ~Signs(e, g.spec)
    /\ g.bh # "UNTESTED" => g.error \in {"OK", "SUBDOMAIN", "MBSFAILED"}

SigOK(e, g, ans, q) ==
    /\ DOMAIN g = SigFields /\ IsSig(g.spec) /\ g.len \in Int /\ g.spec.key \in DOMAIN ans
    /\ KeyOK(g, ans[g.spec.key]) /\ PassedOK(e, g, ans[g.spec.key])
    /\ HashOK(e, g) /\ ErrorOK(e, g) /\ Justified(e, g, ans[g.spec.key], q)

Records(ans) == \A k \in DOMAIN ans : ans[k].st = "OK" => IsRecord(ans[k].rec)

\* What a lookup gets is what is published, if it gets anything.
Honest(w, ans, q) ==
    /\ \A k \in DOMAIN ans : w.ans[k].st = "OK" => w.ans[k] = ans[k]
    /\ q => \A k \in DOMAIN ans : w.ans[k] = ans[k]

-----------------------------------------------------------------------------
(* Loops and sequences.                                                    *)

\* A set of naturals has a least element.
LEMMA Least ==
    ASSUME NEW T, T \subseteq Nat, T # {}
    PROVE  \E x \in T : \A y \in T : ~(y < x)
<1>. DEFINE Less == {z \in Nat \X Nat : z[1] < z[2]}
<1>1. IsWellFoundedOn(Less, Nat) BY NatLessThanWellFounded DEF OpToRel
<1>2. \E x \in T : \A y \in T : ~(<<y, x>> \in Less) BY <1>1, WFMin
<1>. QED BY <1>2

\* Induction up to n.
LEMMA Climb ==
    ASSUME NEW n \in Nat, NEW A, 0 \in A, \A i \in 1..n : i - 1 \in A => i \in A
    PROVE  0..n \subseteq A
<1>1. SUFFICES ASSUME NEW k \in 0..n, k \notin A PROVE FALSE OBVIOUS
<1>. DEFINE B == {i \in 0..n : i \notin A}
<1>2. B \subseteq Nat /\ B # {} BY <1>1
<1>3. PICK m \in B : \A i \in B : ~(i < m)
  <2>. HIDE DEF B
  <2>. QED BY <1>2, Least
<1>4. m # 0 BY <1>3
<1>5. m \in 1..n /\ m - 1 \in 0..n /\ m - 1 < m BY <1>3, <1>4
<1>6. m - 1 \in A BY <1>3, <1>5
<1>. QED BY <1>3, <1>5, <1>6

\* The bodies of the loops of DkimLib, and of the filter's over the fields, told
\* apart by k; p is what they use.
LoopBody(k, p, x, n) ==
    CASE k = "Setup" ->
           IF ~IsSignature(p.e.hdrs[n]) THEN x
           ELSE LET len == SignLen(x, p.e.hdrs[n].sig)
                IN  [len |-> len, list |-> Append(x.list, SigInfo(p.e.hdrs[n].sig, len))]
      [] k = "Heard" -> IF n \in p.cb.process THEN SigProcess(x, n, p.w).d ELSE x
      [] k = "ProcessAll" ->
           IF x.ret # "OK" \/ ~(~x.d.sigs[n].processed /\ ~x.d.sigs[n].ignore /\ x.d.sigs[n].error = "UNKNOWN")
           THEN x ELSE SigProcess(x.d, n, p.w)
      [] k = "RunUntilPass" ->
           IF x.n # 0 \/ x.d.sigs[n].ignore THEN x ELSE Tried(SigProcess(x.d, n, p.w), n)
      [] k = "Chunk" -> IF x.ret # "OK" THEN x ELSE ChunkLine(x.d, p.toks[n], p.cb, p.w)
      [] k = "Headers" ->
           [d |-> Header(x.d, p.hdrs[n]).d,
            ret |-> IF Header(x.d, p.hdrs[n]).ret = "OK" THEN x.ret ELSE p.code[Header(x.d, p.hdrs[n]).ret]]
      [] k = "Table" -> p.step[<<x, n>>]

\* What a loop goes through.
IsRun(run, k, p, base, n) ==
    run = [i \in 0..n |-> IF i = 0 THEN base ELSE LoopBody(k, p, run[i - 1], i)]

\* Every loop has a run: the recursion is well founded.
LEMMA RunExists ==
    ASSUME NEW k, NEW p, NEW base, NEW n \in Nat
    PROVE  \E run : IsRun(run, k, p, base, n)
<1>. DEFINE A == {m \in 0..n : \E run : IsRun(run, k, p, base, m)}
<1>1. 0 \in A
  <2>1. IsRun([i \in 0..0 |-> base], k, p, base, 0) BY DEF IsRun
  <2>. QED BY <2>1
<1>2. ASSUME NEW m \in 1..n, m - 1 \in A PROVE m \in A
  <2>1. PICK run : IsRun(run, k, p, base, m - 1) BY <1>2
  <2>. DEFINE more == [i \in 0..m |-> IF i = m THEN LoopBody(k, p, run[m - 1], m) ELSE run[i]]
  <2>2. \A i \in 0..(m - 1) : more[i] = run[i] /\ run[i] = IF i = 0 THEN base ELSE LoopBody(k, p, run[i - 1], i)
    BY <2>1 DEF IsRun
  <2>3. \A i \in 0..m : more[i] = IF i = 0 THEN base ELSE LoopBody(k, p, more[i - 1], i)
    <3>1. TAKE i \in 0..m
    <3>2. CASE i = m BY <3>2, <2>2
    <3>3. CASE i # m
      <4>1. i \in 0..(m - 1) /\ i - 1 # m BY <3>3
      <4>2. CASE i = 0 BY <4>1, <4>2, <2>2
      <4>3. CASE i # 0
        <5>1. i - 1 \in 0..(m - 1) BY <4>1, <4>3
        <5>2. more[i] = LoopBody(k, p, run[i - 1], i) BY <4>1, <4>3, <2>2
        <5>3. more[i - 1] = run[i - 1] BY <5>1, <2>2
        <5>. QED BY <5>2, <5>3, <4>3
      <4>. QED BY <4>2, <4>3
    <3>. QED BY <3>2, <3>3
  <2>4. IsRun(more, k, p, base, m) BY <2>3 DEF IsRun
  <2>. QED BY <2>4
<1>. HIDE DEF A
<1>3. 0..n \subseteq A BY <1>1, <1>2, Climb
<1>4. n \in 0..n OBVIOUS
<1>5. n \in A BY <1>3, <1>4, Zenon
<1>. QED BY <1>5 DEF A

\* The loops are runs.
LEMMA SetupRun ==
    ASSUME NEW e, NEW base, Len(e.hdrs) \in Nat, base = [len |-> -1, list |-> <<>>]
    PROVE  \E run : IsRun(run, "Setup", [e |-> e], base, Len(e.hdrs)) /\ Setup(e) = run[Len(e.hdrs)].list
<1>. DEFINE add(acc, n) ==
              IF ~IsSignature(e.hdrs[n]) THEN acc
              ELSE LET len == SignLen(acc, e.hdrs[n].sig)
                   IN  [len |-> len, list |-> Append(acc.list, SigInfo(e.hdrs[n].sig, len))]
            Run(run) == run = [i \in 0..Len(e.hdrs) |-> IF i = 0 THEN base ELSE add(run[i - 1], i)]
            made == CHOOSE run : Run(run)
<1>1. \A run : IsRun(run, "Setup", [e |-> e], base, Len(e.hdrs)) <=> Run(run) BY DEF IsRun, LoopBody
<1>2. Run(made)
  <2>1. \E run : IsRun(run, "Setup", [e |-> e], base, Len(e.hdrs)) BY RunExists
  <2>2. \E run : Run(run) BY <1>1, <2>1
  <2>. HIDE DEF Run
  <2>. QED BY <2>2
<1>3. Setup(e) = made[Len(e.hdrs)].list BY DEF Setup, Repeat
<1>. QED BY <1>1, <1>2, <1>3

LEMMA HeardRun ==
    ASSUME NEW e, NEW cb, NEW w, Len(e.sigs) \in Nat
    PROVE  \E run : /\ IsRun(run, "Heard", [cb |-> cb, w |-> w], e, Len(e.sigs))
                    /\ Heard(e, cb, w) = LET marked == Ignored(run[Len(e.sigs)], cb.ignore)
                                         IN  IF cb.swap THEN [marked EXCEPT !.sigs = Reverse(@)] ELSE marked
<1>. DEFINE step(acc, i) == IF i \in cb.process THEN SigProcess(acc, i, w).d ELSE acc
            Run(run) == run = [i \in 0..Len(e.sigs) |-> IF i = 0 THEN e ELSE step(run[i - 1], i)]
            made == CHOOSE run : Run(run)
<1>1. \A run : IsRun(run, "Heard", [cb |-> cb, w |-> w], e, Len(e.sigs)) <=> Run(run) BY DEF IsRun, LoopBody
<1>2. Run(made)
  <2>1. \E run : IsRun(run, "Heard", [cb |-> cb, w |-> w], e, Len(e.sigs)) BY RunExists
  <2>2. \E run : Run(run) BY <1>1, <2>1
  <2>. HIDE DEF Run
  <2>. QED BY <2>2
<1>3. Heard(e, cb, w) = LET marked == Ignored(made[Len(e.sigs)], cb.ignore)
                        IN  IF cb.swap THEN [marked EXCEPT !.sigs = Reverse(@)] ELSE marked BY DEF Heard, Repeat
<1>. QED BY <1>1, <1>2, <1>3

LEMMA ProcessAllRun ==
    ASSUME NEW e, NEW w, Len(e.sigs) \in Nat
    PROVE  \E run : /\ IsRun(run, "ProcessAll", [w |-> w], Is(e, "OK"), Len(e.sigs))
                    /\ ProcessAll(e, w) = run[Len(e.sigs)]
<1>. DEFINE wanted(g) == ~g.processed /\ ~g.ignore /\ g.error = "UNKNOWN"
            step(acc, i) == IF acc.ret # "OK" \/ ~wanted(acc.d.sigs[i]) THEN acc ELSE SigProcess(acc.d, i, w)
            Run(run) == run = [i \in 0..Len(e.sigs) |-> IF i = 0 THEN Is(e, "OK") ELSE step(run[i - 1], i)]
            made == CHOOSE run : Run(run)
<1>1. \A run : IsRun(run, "ProcessAll", [w |-> w], Is(e, "OK"), Len(e.sigs)) <=> Run(run)
  BY DEF IsRun, LoopBody
<1>2. Run(made)
  <2>1. \E run : IsRun(run, "ProcessAll", [w |-> w], Is(e, "OK"), Len(e.sigs)) BY RunExists
  <2>2. \E run : Run(run) BY <1>1, <2>1
  <2>. HIDE DEF Run
  <2>. QED BY <2>2
<1>3. ProcessAll(e, w) = made[Len(e.sigs)] BY Zenon DEF ProcessAll, Repeat
<1>. QED BY <1>1, <1>2, <1>3

LEMMA RunUntilPassRun ==
    ASSUME NEW e, NEW w, Len(e.sigs) \in Nat
    PROVE  \E run : /\ IsRun(run, "RunUntilPass", [w |-> w], [d |-> e, n |-> 0], Len(e.sigs))
                    /\ RunUntilPass(e, w) = run[Len(e.sigs)]
<1>. DEFINE step(acc, i) ==
              IF acc.n # 0 \/ acc.d.sigs[i].ignore THEN acc ELSE Tried(SigProcess(acc.d, i, w), i)
            Run(run) == run = [i \in 0..Len(e.sigs) |-> IF i = 0 THEN [d |-> e, n |-> 0] ELSE step(run[i - 1], i)]
            made == CHOOSE run : Run(run)
<1>1. \A run : IsRun(run, "RunUntilPass", [w |-> w], [d |-> e, n |-> 0], Len(e.sigs)) <=> Run(run)
  BY DEF IsRun, LoopBody
<1>2. Run(made)
  <2>1. \E run : IsRun(run, "RunUntilPass", [w |-> w], [d |-> e, n |-> 0], Len(e.sigs)) BY RunExists
  <2>2. \E run : Run(run) BY <1>1, <2>1
  <2>. HIDE DEF Run
  <2>. QED BY <2>2
<1>3. RunUntilPass(e, w) = made[Len(e.sigs)] BY DEF RunUntilPass, Repeat
<1>. QED BY <1>1, <1>2, <1>3

LEMMA ChunkRun ==
    ASSUME NEW e, NEW toks, NEW cb, NEW w, Len(toks) \in Nat, e.chunk # "DONE", toks # <<>>,
           NEW b, b = IF e.chunk = "INIT" THEN [e EXCEPT !.chunk = "HEADER", !.line = NoHeader] ELSE e
    PROVE  \E run : /\ IsRun(run, "Chunk", [toks |-> toks, cb |-> cb, w |-> w], Is(b, "OK"), Len(toks))
                    /\ Chunk(e, toks, cb, w) = run[Len(toks)]
<1>. DEFINE step(acc, n) == IF acc.ret # "OK" THEN acc ELSE ChunkLine(acc.d, toks[n], cb, w)
            Run(run) == run = [i \in 0..Len(toks) |-> IF i = 0 THEN Is(b, "OK") ELSE step(run[i - 1], i)]
            made == CHOOSE run : Run(run)
<1>1. \A run : IsRun(run, "Chunk", [toks |-> toks, cb |-> cb, w |-> w], Is(b, "OK"), Len(toks)) <=> Run(run)
  BY DEF IsRun, LoopBody
<1>2. Run(made)
  <2>1. \E run : IsRun(run, "Chunk", [toks |-> toks, cb |-> cb, w |-> w], Is(b, "OK"), Len(toks)) BY RunExists
  <2>2. \E run : Run(run) BY <1>1, <2>1
  <2>. HIDE DEF Run
  <2>. QED BY <2>2
<1>3. Chunk(e, toks, cb, w) = made[Len(toks)] BY DEF Chunk, Repeat
<1>. QED BY <1>1, <1>2, <1>3

-----------------------------------------------------------------------------
(* The checks of a signature and of a key record.                          *)

\* FirstOf names a check that fails, or none does.
LEMMA FirstOfFacts ==
    ASSUME NEW checks, NEW failing, Len(checks) \in Nat
    PROVE  \/ FirstOf(checks, failing) = "UNKNOWN" /\ \A n \in 1..Len(checks) : checks[n] \notin failing
           \/ \E n \in 1..Len(checks) : checks[n] \in failing /\ FirstOf(checks, failing) = checks[n]
<1>. DEFINE hits == {n \in 1..Len(checks) : checks[n] \in failing}
            first == CHOOSE n \in hits : \A m \in hits : n <= m
<1>1. CASE hits = {} BY <1>1 DEF FirstOf
<1>2. CASE hits # {}
  <2>1. hits \subseteq Nat OBVIOUS
  <2>2. \E n \in hits : \A m \in hits : ~(m < n)
    <3>. HIDE DEF hits
    <3>. QED BY <1>2, <2>1, Least
  <2>3. \E n \in hits : \A m \in hits : n <= m BY <2>2
  <2>4. first \in hits BY <2>3
  <2>5. FirstOf(checks, failing) = checks[first] BY <1>2 DEF FirstOf
  <2>. QED BY <2>4, <2>5
<1>. QED BY <1>1, <1>2

LEMMA SetupErrorFacts ==
    ASSUME NEW s, s.flaws \subseteq SetupFlaws
    PROVE  /\ SetupError(s) = "UNKNOWN" <=> s.flaws = {}
           /\ SetupError(s) # "OK"
<1>1. Len(SetupChecks) = 25 BY DEF SetupChecks
<1>2. \A n \in 1..25 : SetupChecks[n] \notin {"UNKNOWN", "OK"} BY DEF SetupChecks
<1>3. \/ SetupError(s) = "UNKNOWN" /\ \A n \in 1..25 : SetupChecks[n] \notin s.flaws
      \/ \E n \in 1..25 : SetupChecks[n] \in s.flaws /\ SetupError(s) = SetupChecks[n]
  <2>1. SetupError(s) = FirstOf(SetupChecks, s.flaws) BY DEF SetupError
  <2>2. \/ FirstOf(SetupChecks, s.flaws) = "UNKNOWN" /\ \A n \in 1..Len(SetupChecks) : SetupChecks[n] \notin s.flaws
        \/ \E n \in 1..Len(SetupChecks) :
             SetupChecks[n] \in s.flaws /\ FirstOf(SetupChecks, s.flaws) = SetupChecks[n]
    <3>1. Len(SetupChecks) \in Nat BY <1>1
    <3>. HIDE DEF SetupChecks
    <3>. QED BY <3>1, FirstOfFacts, Zenon
  <2>. QED BY <1>1, <2>1, <2>2
<1>4. \A f \in s.flaws : \E n \in 1..25 : f = SetupChecks[n] BY <1>1 DEF SetupFlaws
<1>. QED BY <1>2, <1>3, <1>4

LEMMA KeyErrorFacts ==
    ASSUME NEW s, NEW rec
    PROVE  /\ KeyError(s, rec) = "UNKNOWN" <=> KeyFlaws(s, rec) = {}
           /\ KeyError(s, rec) \notin {"OK", "retry"}
<1>1. Len(KeyChecks) = 7 BY DEF KeyChecks
<1>2. \A n \in 1..7 : KeyChecks[n] \notin {"UNKNOWN", "OK", "retry"} BY DEF KeyChecks
<1>3. \/ KeyError(s, rec) = "UNKNOWN" /\ \A n \in 1..7 : KeyChecks[n] \notin KeyFlaws(s, rec)
      \/ \E n \in 1..7 : KeyChecks[n] \in KeyFlaws(s, rec) /\ KeyError(s, rec) = KeyChecks[n]
  <2>1. Len(KeyChecks) \in Nat BY <1>1
  <2>2. \/ FirstOf(KeyChecks, KeyFlaws(s, rec)) = "UNKNOWN" /\ \A n \in 1..Len(KeyChecks) : KeyChecks[n] \notin KeyFlaws(s, rec)
        \/ \E n \in 1..Len(KeyChecks) : /\ KeyChecks[n] \in KeyFlaws(s, rec)
                                       /\ FirstOf(KeyChecks, KeyFlaws(s, rec)) = KeyChecks[n]
    <3>. HIDE DEF KeyChecks
    <3>. QED BY <2>1, FirstOfFacts, Zenon
  <2>. QED BY <1>1, <2>2 DEF KeyError
<1>4. \A f \in KeyFlaws(s, rec) : \E n \in 1..7 : f = KeyChecks[n]
  <2>1. KeyChecks[1] = "KEYVERSION" /\ KeyChecks[2] = "KEYUNKNOWNHASH" /\ KeyChecks[3] = "KEYHASHMISMATCH"
        /\ KeyChecks[4] = "NOTEMAILKEY" /\ KeyChecks[5] = "GRANULARITY" /\ KeyChecks[6] = "KEYTYPEMISSING"
        /\ KeyChecks[7] = "KEYTYPEUNKNOWN"
    BY DEF KeyChecks
  <2>2. \A f \in KeyFlaws(s, rec) :
            f \in {"KEYVERSION", "KEYUNKNOWNHASH", "KEYHASHMISMATCH", "NOTEMAILKEY", "GRANULARITY",
                   "KEYTYPEMISSING", "KEYTYPEUNKNOWN"}
    BY DEF KeyFlaws
  <2>. QED BY <2>1, <2>2
<1>. QED BY <1>2, <1>3, <1>4

-----------------------------------------------------------------------------
(* Getting the key of a signature.                                         *)

\* What dkim_get_key() leaves alone, and what it may say: the key and the
\* record it got are the published ones, and it fails for a reason.
SameBut(h, g) ==
    /\ DOMAIN h = SigFields
    /\ h.spec = g.spec /\ h.ignore = g.ignore /\ h.processed = g.processed /\ h.passed = g.passed
    /\ h.bh = g.bh /\ h.len = g.len /\ h.canon = g.canon
KeyData == {"none", "garbage", "good", "undecodable"}
KeyGot(g, k, a, q) ==
    /\ SameBut(k.g, g)
    /\ Held(k.g.key, k.g.tags, a)
    /\ k.g.b64 => k.g.key = k.g.tags.p
    /\ k.st = "OK" =>
         /\ Readable(g.spec, a) /\ k.g.tags = a.rec /\ k.g.strict = a.rec.strict
         /\ k.g.error = "UNKNOWN" /\ k.g.key # "none"
    /\ k.st # "OK" =>
         /\ Settled(k.st, k.g.error) \notin {"UNKNOWN", "OK"}
         /\ Settled(k.st, k.g.error) = "retry" => k.g = g /\ (q => a.st # "OK")
         /\ k.g.key \in KeyData
         /\ q => ~Usable(g.spec, a)

\* The first processed signature with the same key hands on what is published.
LEMMA HandedFacts ==
    ASSUME NEW e, NEW ans, Len(e.sigs) \in Nat, NEW i \in 1..Len(e.sigs),
           \A j \in 1..Len(e.sigs) : KeyOK(e.sigs[j], ans[e.sigs[j].spec.key])
    PROVE  /\ Held(Handed(e, i).key, Handed(e, i).tags, ans[e.sigs[i].spec.key])
           /\ Handed(e, i).key \in KeyData
<1>. DEFINE a == ans[e.sigs[i].spec.key]
<1>1. CASE Donors(e, i) = {}
  <2>1. Handed(e, i) = [key |-> "none", tags |-> NoTags] BY <1>1 DEF Handed
  <2>. QED BY <2>1 DEF Held, KeyData
<1>2. CASE Donors(e, i) # {}
  <2>1. Donors(e, i) \subseteq Nat BY DEF Donors
  <2>2. \E j \in Donors(e, i) : \A k \in Donors(e, i) : ~(k < j) BY <1>2, <2>1, Least
  <2>3. \E j \in Donors(e, i) : \A k \in Donors(e, i) : j <= k BY <2>1, <2>2
  <2>4. Donor(e, i) \in Donors(e, i) BY <2>3 DEF Donor
  <2>5. PICK from : from = e.sigs[Donor(e, i)] OBVIOUS
  <2>6. KeyOK(from, a) /\ from.processed BY <2>4, <2>5 DEF Donors
  <2>7. Handed(e, i) = [key |-> IF from.key \in {"none", "undecodable"} \/ from.b64 THEN from.key ELSE "garbage",
                        tags |-> from.tags]
    BY <1>2, <2>5 DEF Handed
  <2>. QED BY <2>6, <2>7 DEF KeyOK, Held, KeyData
<1>. QED BY <1>1, <1>2

LEMMA KeyOfFacts ==
    ASSUME NEW g, NEW had, NEW wa, NEW a, NEW keycb, NEW q \in BOOLEAN,
           DOMAIN g = SigFields, Untouched(g), g.error = "UNKNOWN",
           Held(had.key, had.tags, a), had.key \in KeyData,
           (wa.st = "OK" \/ q) => wa = a, a.st = "OK" => IsRecord(a.rec)
    PROVE  KeyGot(g, KeyOf(g, had, wa, keycb), a, q)
<1>. DEFINE gotkey == had.key # "none"
            gotset == had.tags # NoTags
<1>1. PICK copied : copied = IF gotkey THEN [g EXCEPT !.key = had.key] ELSE g OBVIOUS
<1>2. SameBut(copied, g) /\ copied.key = had.key /\ copied.b64 = g.b64 /\ copied.tags = g.tags
      /\ copied.error = "UNKNOWN" /\ copied.strict = g.strict /\ (~gotkey => copied = g)
  BY <1>1 DEF SameBut, SigFields, Untouched
<1>3. gotkey => gotset BY DEF Held
<1>4. PICK k : k = KeyOf(g, had, wa, keycb) OBVIOUS
<1>5. CASE ~gotkey /\ (keycb \/ ~gotset) /\ wa.st # "OK"
  <2>1. k = [st |-> wa.st, g |-> g] BY <1>1, <1>4, <1>5 DEF KeyOf
  <2>2. Settled(k.st, "UNKNOWN") \notin {"UNKNOWN", "OK"} BY DEF Settled
  <2>. QED BY <1>2, <1>4, <1>5, <2>1, <2>2 DEF KeyGot, Held, KeyData, Usable, Readable, SameBut, Untouched
<1>6. CASE ~(~gotkey /\ (keycb \/ ~gotset) /\ wa.st # "OK") /\ ~gotset /\ "malformed" \in wa.rec.flaws
  <2>1. k = [st |-> "SYNTAX", g |-> g] /\ wa = a BY <1>1, <1>3, <1>4, <1>6 DEF KeyOf
  <2>2. Settled(k.st, "UNKNOWN") = "DNSSYNTAX" BY <2>1 DEF Settled
  <2>. QED BY <1>2, <1>4, <1>6, <2>1, <2>2 DEF KeyGot, Held, KeyData, Usable, Readable, SameBut, Untouched
<1>7. CASE ~(~gotkey /\ (keycb \/ ~gotset) /\ wa.st # "OK") /\ ~(~gotset /\ "malformed" \in wa.rec.flaws)
  <2>1. PICK rec : rec = IF gotset THEN had.tags ELSE wa.rec OBVIOUS
  <2>2. k = ReadRecord(copied, gotkey, rec)
    <3>1. PICK x : x = gotkey OBVIOUS
    <3>. QED BY <1>1, <1>4, <1>7, <2>1 DEF KeyOf
  <2>3. rec = a.rec /\ a.st = "OK" /\ "malformed" \notin a.rec.flaws /\ IsRecord(a.rec)
    BY <1>3, <1>7, <2>1 DEF Held
  <2>4. PICK error : error = KeyError(copied.spec, rec) OBVIOUS
  <2>5. (error = "UNKNOWN" <=> KeyFlaws(g.spec, a.rec) = {}) /\ error \notin {"OK", "retry"}
    BY <1>2, <2>3, <2>4, KeyErrorFacts DEF SameBut
  <2>. DEFINE st == IF gotkey THEN "OK" ELSE DataStatus(rec)
              kept == [copied EXCEPT !.tags = rec]
  <2>6. PICK held : held = IF gotkey \/ rec.p \in {"missing", "empty"} THEN kept
                           ELSE [kept EXCEPT !.key = rec.p, !.b64 = TRUE]
    OBVIOUS
  <2>7. k = IF error # "UNKNOWN" THEN [st |-> KeyStatus(error), g |-> [kept EXCEPT !.error = error]]
            ELSE IF st # "OK" THEN [st |-> st, g |-> held]
            ELSE [st |-> "OK", g |-> [held EXCEPT !.strict = rec.strict]]
    BY <2>2, <2>4, <2>6 DEF ReadRecord
  <2>8. gotkey => had.tags = a.rec BY <1>3 DEF Held
  <2>9. CASE error # "UNKNOWN"
    <3>1. k.st = KeyStatus(error) /\ k.g = [kept EXCEPT !.error = error] BY <2>7, <2>9
    <3>2. SameBut(k.g, g) /\ k.g.key = had.key /\ k.g.tags = rec /\ k.g.error = error /\ ~k.g.b64
      BY <1>2, <3>1 DEF SameBut, SigFields, Untouched
    <3>3. k.st \in {"SYNTAX", "CANTVRFY"} /\ k.st # "OK" BY <3>1 DEF KeyStatus
    <3>4. Settled(k.st, k.g.error) = error BY <2>9, <3>2, <3>3 DEF Settled
    <3>5. Held(k.g.key, k.g.tags, a)
      BY <1>3, <2>1, <2>3, <3>2 DEF Held
    <3>. QED BY <1>4, <2>5, <2>9, <3>2, <3>3, <3>4, <3>5 DEF KeyGot, Usable, Readable
  <2>10. CASE error = "UNKNOWN" /\ st # "OK"
    <3>1. k.st = st /\ k.g = held /\ ~gotkey BY <2>7, <2>10
    <3>2. \/ st = "REVOKED" /\ rec.p = "empty"
          \/ st = "SYNTAX" /\ rec.p \in {"missing", "undecodable"}
      BY <2>10, <3>1 DEF DataStatus
    <3>3. SameBut(k.g, g) /\ k.g.tags = rec /\ k.g.error = "UNKNOWN"
      BY <1>2, <2>6, <3>1 DEF SameBut, SigFields, Untouched
    <3>4. (k.g.key = "none" /\ ~k.g.b64) \/ (k.g.key = "undecodable" /\ k.g.key = rec.p)
      BY <1>2, <2>6, <3>1, <3>2 DEF SameBut, SigFields, Untouched
    <3>5. Settled(k.st, k.g.error) \in {"KEYREVOKED", "DNSSYNTAX"} BY <3>1, <3>2, <3>3 DEF Settled
    <3>6. rec # NoTags \/ k.g.key = "none" BY <3>4 DEF NoTags
    <3>7. Held(k.g.key, k.g.tags, a) BY <2>3, <3>3, <3>4, <3>6 DEF Held
    <3>8. ~Usable(g.spec, a) BY <2>3, <3>2 DEF Usable
    <3>. QED BY <1>4, <2>10, <3>1, <3>3, <3>4, <3>5, <3>7, <3>8 DEF KeyGot, KeyData
  <2>11. CASE error = "UNKNOWN" /\ st = "OK"
    <3>1. k.st = "OK" /\ k.g = [held EXCEPT !.strict = rec.strict] BY <2>7, <2>11
    <3>2. SameBut(held, g) /\ held.tags = rec /\ held.error = "UNKNOWN"
      BY <1>2, <2>6 DEF SameBut, SigFields, Untouched
    <3>3. SameBut(k.g, g) /\ k.g.tags = rec /\ k.g.error = "UNKNOWN" /\ k.g.strict = rec.strict
          /\ k.g.key = held.key /\ k.g.b64 = held.b64
      BY <3>1, <3>2 DEF SameBut, SigFields
    <3>4. CASE gotkey
      <4>1. held.key = had.key /\ ~held.b64 BY <1>2, <2>6, <3>4 DEF SameBut, SigFields, Untouched
      <4>2. rec = had.tags BY <1>3, <2>1, <3>4
      <4>. QED BY <1>4, <2>3, <2>5, <2>11, <3>1, <3>3, <3>4, <4>1, <4>2 DEF KeyGot, Readable, Held
    <3>5. CASE ~gotkey
      <4>1. rec.p \in {"good", "notkey"} BY <2>3, <2>11, <3>5 DEF DataStatus, IsRecord
      <4>2. held.key = rec.p /\ held.key # "none" BY <1>2, <2>6, <3>5, <4>1 DEF SameBut, SigFields
      <4>3. rec # NoTags BY <4>1 DEF NoTags
      <4>4. Held(k.g.key, k.g.tags, a) BY <2>3, <3>3, <4>1, <4>2, <4>3 DEF Held
      <4>. QED BY <1>4, <2>3, <2>5, <2>11, <3>1, <3>3, <4>2, <4>4 DEF KeyGot, Readable
    <3>. QED BY <3>4, <3>5
  <2>. QED BY <2>9, <2>10, <2>11
<1>. QED BY <1>4, <1>5, <1>6, <1>7

-----------------------------------------------------------------------------
(* Processing one signature.                                               *)

\* What the end of dkim_sig_process() makes of a signature.
LEMMA ConcludedFacts ==
    ASSUME NEW e, NEW g, DOMAIN g = SigFields, NEW c, c = Concluded(e, BodyHash(e, g))
    PROVE  /\ DOMAIN c = SigFields
           /\ c.spec = g.spec /\ c.ignore = g.ignore /\ c.processed = g.processed /\ c.passed = g.passed
           /\ c.len = g.len /\ c.canon = g.canon /\ c.key = g.key /\ c.b64 = g.b64 /\ c.tags = g.tags
           /\ c.strict = g.strict
           /\ c.bh = IF e.bodydone /\ g.bh = "UNTESTED" /\ g.passed
                     THEN IF g.spec.over = Wrote(e, g) THEN "MATCH" ELSE "MISMATCH"
                     ELSE g.bh
           /\ c.error = IF ~Signs(e, g.spec) THEN "MBSFAILED"
                        ELSE IF g.strict /\ g.spec.sub THEN "SUBDOMAIN"
                        ELSE IF g.error = "UNKNOWN" /\ c.bh # "UNTESTED" THEN "OK" ELSE g.error
<1>1. PICK h : h = BodyHash(e, g) OBVIOUS
<1>2. /\ DOMAIN h = SigFields
      /\ h.spec = g.spec /\ h.ignore = g.ignore /\ h.processed = g.processed /\ h.passed = g.passed
      /\ h.len = g.len /\ h.canon = g.canon /\ h.key = g.key /\ h.b64 = g.b64 /\ h.tags = g.tags
      /\ h.strict = g.strict /\ h.error = g.error
      /\ h.bh = IF e.bodydone /\ g.bh = "UNTESTED" /\ g.passed
                THEN IF g.spec.over = Wrote(e, g) THEN "MATCH" ELSE "MISMATCH"
                ELSE g.bh
  BY <1>1 DEF BodyHash, SigFields
<1>3. PICK b : b = LET a == IF h.strict /\ h.spec.sub THEN [h EXCEPT !.error = "SUBDOMAIN"] ELSE h
                   IN  IF ~Signs(e, h.spec) THEN [a EXCEPT !.error = "MBSFAILED"] ELSE a
  OBVIOUS
<1>4. c = IF b.error = "UNKNOWN" /\ b.bh # "UNTESTED" THEN [b EXCEPT !.error = "OK"] ELSE b
  BY <1>1, <1>3 DEF Concluded, Signs
<1>5. /\ DOMAIN b = SigFields
      /\ b.spec = h.spec /\ b.ignore = h.ignore /\ b.processed = h.processed /\ b.passed = h.passed
      /\ b.len = h.len /\ b.canon = h.canon /\ b.key = h.key /\ b.b64 = h.b64 /\ b.tags = h.tags
      /\ b.strict = h.strict /\ b.bh = h.bh
      /\ b.error = IF ~Signs(e, h.spec) THEN "MBSFAILED"
                   ELSE IF h.strict /\ h.spec.sub THEN "SUBDOMAIN" ELSE h.error
  BY <1>2, <1>3 DEF SigFields
<1>6. /\ DOMAIN c = SigFields
      /\ c.spec = b.spec /\ c.ignore = b.ignore /\ c.processed = b.processed /\ c.passed = b.passed
      /\ c.len = b.len /\ c.canon = b.canon /\ c.key = b.key /\ c.b64 = b.b64 /\ c.tags = b.tags
      /\ c.strict = b.strict /\ c.bh = b.bh
      /\ c.error = IF b.error = "UNKNOWN" /\ b.bh # "UNTESTED" THEN "OK" ELSE b.error
  BY <1>4, <1>5 DEF SigFields
<1>. QED BY <1>2, <1>5, <1>6

\* A verified signature keeps its invariant to the end of the call.
LEMMA VerifiedFacts ==
    ASSUME NEW e, NEW g, NEW ans, NEW q \in BOOLEAN, NEW a, a = ans[g.spec.key],
           DOMAIN g = SigFields, IsSig(g.spec), g.len \in Int, g.spec.key \in DOMAIN ans,
           KeyOK(g, a), g.processed, e.hdrsrun, g.bh = "UNTESTED",
           g.canon <=> g.spec.flaws = {}, g.canon, ~Beyond(e, g),
           \/ g.error = "UNKNOWN" /\ g.passed /\ g.spec.good /\ Usable(g.spec, a) /\ g.strict = a.rec.strict
           \/ g.error = "BADSIG" /\ ~g.passed /\ ~Made(e, g.spec),
           NEW c, c = Concluded(e, BodyHash(e, g))
    PROVE  SigOK(e, c, ans, q) /\ (c.passed /\ e.bodydone => c.error # "UNKNOWN")
<1>1. /\ DOMAIN c = SigFields
      /\ c.spec = g.spec /\ c.ignore = g.ignore /\ c.processed = g.processed /\ c.passed = g.passed
      /\ c.len = g.len /\ c.canon = g.canon /\ c.key = g.key /\ c.b64 = g.b64 /\ c.tags = g.tags
      /\ c.strict = g.strict
      /\ c.bh = IF e.bodydone /\ g.bh = "UNTESTED" /\ g.passed
                THEN IF g.spec.over = Wrote(e, g) THEN "MATCH" ELSE "MISMATCH"
                ELSE g.bh
      /\ c.error = IF ~Signs(e, g.spec) THEN "MBSFAILED"
                   ELSE IF g.strict /\ g.spec.sub THEN "SUBDOMAIN"
                   ELSE IF g.error = "UNKNOWN" /\ c.bh # "UNTESTED" THEN "OK" ELSE g.error
  BY ONLY ConcludedFacts, DOMAIN g = SigFields, c = Concluded(e, BodyHash(e, g)), SMT
<1>2. KeyOK(c, a) BY <1>1 DEF KeyOK
<1>3. Wrote(e, c) = Wrote(e, g) /\ (Beyond(e, c) <=> Beyond(e, g)) BY <1>1 DEF Wrote, Beyond
<1>4. PassedOK(e, c, a) BY <1>1 DEF PassedOK
<1>5. HashOK(e, c) BY <1>1, <1>3 DEF HashOK
<1>6. ErrorOK(e, c) BY <1>1, <1>3 DEF ErrorOK
<1>7. Justified(e, c, a, q) BY <1>1, <1>3 DEF Justified
<1>. QED BY <1>1, <1>2, <1>4, <1>5, <1>6, <1>7 DEF SigOK

\* A handle whose signatures alone may have changed.
SameHandle(f, e) ==
    /\ DOMAIN f = HandleFields
    /\ f.mode = e.mode /\ f.lib = e.lib /\ f.state = e.state /\ f.hdrs = e.hdrs /\ f.siglist = e.siglist
    /\ f.canons = e.canons /\ f.hdrsrun = e.hdrsrun /\ f.skipbody = e.skipbody /\ f.fed = e.fed
    /\ f.bodydone = e.bodydone /\ f.chunk = e.chunk /\ f.line = e.line /\ f.cr = e.cr /\ f.tail = e.tail
    /\ f.domain = e.domain /\ f.signature = e.signature /\ f.signed = e.signed

\* The signatures of a handle.
SigsOK(e, ans, q) == \A j \in 1..Len(e.sigs) : SigOK(e, e.sigs[j], ans, q)
ListOK(e) == DOMAIN e = HandleFields /\ IsSeq(e.sigs)

\* The invariant of a signature does not look at the others, nor at the rest of the handle.
LEMMA SigOKElsewhere ==
    ASSUME NEW e, NEW f, SameHandle(f, e), NEW g, NEW ans, NEW q
    PROVE  SigOK(f, g, ans, q) <=> SigOK(e, g, ans, q)
<1>1. Signs(f, g.spec) <=> Signs(e, g.spec) BY DEF SameHandle, Signs, HasHeader
<1>2. Wrote(f, g) = Wrote(e, g) /\ (Beyond(f, g) <=> Beyond(e, g)) BY DEF SameHandle, Wrote, Beyond
<1>3. Made(f, g.spec) <=> Made(e, g.spec) BY DEF SameHandle, Made
<1>4. f.hdrsrun = e.hdrsrun /\ f.bodydone = e.bodydone BY DEF SameHandle
<1>5. HashOK(f, g) <=> HashOK(e, g) BY <1>2, <1>4 DEF HashOK
<1>6. ErrorOK(f, g) <=> ErrorOK(e, g) BY <1>2, <1>4 DEF ErrorOK
<1>7. PassedOK(f, g, ans[g.spec.key]) <=> PassedOK(e, g, ans[g.spec.key]) BY <1>1 DEF PassedOK
<1>8. Justified(f, g, ans[g.spec.key], q) <=> Justified(e, g, ans[g.spec.key], q)
  BY <1>1, <1>2, <1>3 DEF Justified
<1>. QED BY <1>5, <1>6, <1>7, <1>8 DEF SigOK

\* Storing a signature.
LEMMA StoreFacts ==
    ASSUME NEW e, ListOK(e), NEW i \in 1..Len(e.sigs), NEW g, NEW f, f = Store(e, i, g)
    PROVE  /\ SameHandle(f, e) /\ IsSeq(f.sigs) /\ Len(f.sigs) = Len(e.sigs) /\ Len(f.sigs) \in Nat
           /\ f.sigs[i] = g /\ \A j \in 1..Len(e.sigs) : j # i => f.sigs[j] = e.sigs[j]
<1>1. PICK S : e.sigs \in Seq(S) BY DEF ListOK, IsSeq
<1>2. e.sigs \in Seq(S \cup {g}) BY <1>1
<1>3. SameHandle(f, e) /\ f.sigs = [e.sigs EXCEPT ![i] = g] BY DEF Store, SameHandle, ListOK, HandleFields
<1>4. f.sigs \in Seq(S \cup {g}) /\ Len(f.sigs) = Len(e.sigs) /\ Len(f.sigs) \in Nat BY <1>2, <1>3
<1>5. f.sigs[i] = g /\ \A j \in 1..Len(e.sigs) : j # i => f.sigs[j] = e.sigs[j] BY <1>2, <1>3
<1>. QED BY <1>3, <1>4, <1>5 DEF IsSeq

\* The key is loaded and the header hash verified.
LEMMA RSAVerifyFacts ==
    ASSUME NEW e, NEW g, DOMAIN g = SigFields, NEW w, NEW h, h = RSAVerify(e, g, w)
    PROVE  /\ DOMAIN h = SigFields
           /\ h.spec = g.spec /\ h.ignore = g.ignore /\ h.len = g.len /\ h.canon = g.canon /\ h.key = g.key
           /\ h.b64 = g.b64 /\ h.tags = g.tags /\ h.strict = g.strict /\ h.bh = g.bh
           /\ IF ~Loads(g, w) THEN h.error = "KEYDECODE" /\ h.passed = g.passed /\ h.processed = g.processed
              ELSE /\ h.processed
                   /\ IF Made(e, g.spec) THEN h.passed /\ h.error = g.error
                      ELSE h.error = "BADSIG" /\ h.passed = g.passed
BY DEF RSAVerify, SigFields, Made

\* What one call of dkim_sig_process() does to the handle.
Stepped(e, r, i, ans, q) ==
    /\ SameHandle(r.d, e) /\ IsSeq(r.d.sigs) /\ Len(r.d.sigs) = Len(e.sigs)
    /\ \A j \in 1..Len(e.sigs) : j # i => r.d.sigs[j] = e.sigs[j]
    /\ SigOK(e, r.d.sigs[i], ans, q)
    /\ r.d.sigs[i].spec = e.sigs[i].spec /\ r.d.sigs[i].ignore = e.sigs[i].ignore
    /\ r.d.sigs[i].len = e.sigs[i].len
    /\ r.d.sigs[i].passed /\ ~e.sigs[i].passed => Made(e, e.sigs[i].spec)
    /\ ~e.sigs[i].ignore =>
         /\ r.d.sigs[i].passed /\ e.bodydone => r.d.sigs[i].error # "UNKNOWN"
         /\ q /\ e.hdrsrun /\ ans[e.sigs[i].spec.key].st = "OK" =>
              r.ret = "OK" /\ (r.d.sigs[i].error = "UNKNOWN" => r.d.sigs[i].passed)

LEMMA SigProcessFacts ==
    ASSUME NEW e, ListOK(e), NEW ans, NEW q \in BOOLEAN, SigsOK(e, ans, q), Records(ans),
           NEW w, Honest(w, ans, q), NEW i \in 1..Len(e.sigs)
    PROVE  Stepped(e, SigProcess(e, i, w), i, ans, q)
<1>1. PICK g : g = e.sigs[i] OBVIOUS
<1>2. PICK a : a = ans[g.spec.key] OBVIOUS
<1>3. PICK r : r = SigProcess(e, i, w) OBVIOUS
<1>4. SigOK(e, g, ans, q) BY <1>1 DEF SigsOK
<1>5. DOMAIN g = SigFields /\ IsSig(g.spec) /\ g.len \in Int /\ g.spec.key \in DOMAIN ans /\ KeyOK(g, a)
      /\ PassedOK(e, g, a) /\ HashOK(e, g) /\ ErrorOK(e, g) /\ Justified(e, g, a, q)
  BY <1>2, <1>4 DEF SigOK
<1>6. SameHandle(e, e) /\ IsSeq(e.sigs) /\ Len(e.sigs) \in Nat BY DEF SameHandle, ListOK, IsSeq
<1>7. CASE r.d = e /\ (g.ignore \/ (r.ret = "OK" /\ g.error # "UNKNOWN") \/ (~g.processed /\ ~e.hdrsrun /\ g.error = "UNKNOWN"))
  BY <1>1, <1>2, <1>3, <1>4, <1>5, <1>6, <1>7 DEF Stepped, ErrorOK, Untouched
<1>8. CASE ~g.ignore /\ g.error = "UNKNOWN" /\ g.processed
  <2>1. r = Verified(e, i, g) BY <1>1, <1>3, <1>8 DEF SigProcess
  <2>2. PICK c : c = Concluded(e, BodyHash(e, g)) OBVIOUS
  <2>3. r = Is(Store(e, i, c), "OK") BY <1>8, <2>1, <2>2 DEF Verified
  <2>4. SigOK(e, c, ans, q) /\ (c.passed /\ e.bodydone => c.error # "UNKNOWN")
    <3>1. g.passed /\ g.spec.good /\ Usable(g.spec, a) /\ g.strict = a.rec.strict
      BY <1>5, <1>8 DEF Justified, PassedOK
    <3>2. e.hdrsrun /\ g.bh = "UNTESTED" /\ (g.canon <=> g.spec.flaws = {}) /\ g.canon /\ ~Beyond(e, g)
      BY <1>5, <1>8 DEF ErrorOK, HashOK
    <3>. QED BY ONLY <1>2, <1>5, <1>8, <2>2, <3>1, <3>2, q \in BOOLEAN, VerifiedFacts, SMT
  <2>5. c.spec = g.spec /\ c.ignore = g.ignore /\ c.passed = g.passed /\ c.len = g.len
    BY <1>5, <2>2, ConcludedFacts
  <2>6. r.d = Store(e, i, c) /\ r.ret = "OK" BY <2>3 DEF Is
  <2>7. /\ SameHandle(r.d, e) /\ IsSeq(r.d.sigs) /\ Len(r.d.sigs) = Len(e.sigs)
        /\ r.d.sigs[i] = c /\ \A j \in 1..Len(e.sigs) : j # i => r.d.sigs[j] = e.sigs[j]
    BY ONLY <2>6, ListOK(e), i \in 1..Len(e.sigs), StoreFacts, SMT
  <2>8. g.passed BY <1>5, <1>8 DEF Justified
  <2>. QED BY <1>1, <1>3, <2>4, <2>5, <2>6, <2>7, <2>8 DEF Stepped
<1>9. CASE ~g.ignore /\ g.error = "UNKNOWN" /\ ~g.processed /\ e.hdrsrun
  <2>1. PICK k : k = GetKey(e, i, w) OBVIOUS
  <2>2. r = WithKey(e, i, k, w) BY <1>1, <1>3, <1>9, <2>1 DEF SigProcess
  <2>3. Untouched(g) /\ g.canon /\ ~Beyond(e, g) /\ (g.canon <=> g.spec.flaws = {})
    BY <1>5, <1>9 DEF ErrorOK
  <2>4. KeyGot(g, k, a, q)
    <3>1. PICK had : had = Handed(e, i) OBVIOUS
    <3>2. Held(had.key, had.tags, a) /\ had.key \in KeyData
      <4>1. \A j \in 1..Len(e.sigs) : KeyOK(e.sigs[j], ans[e.sigs[j].spec.key]) BY DEF SigsOK, SigOK
      <4>. QED BY <1>1, <1>2, <1>6, <3>1, <4>1, HandedFacts
    <3>3. PICK wa : wa = w.ans[g.spec.key] OBVIOUS
    <3>4. ((wa.st = "OK" \/ q) => wa = a) /\ (a.st = "OK" => IsRecord(a.rec))
      BY <1>2, <1>5, <3>3 DEF Honest, Records
    <3>5. PICK keycb : keycb = e.lib.keycb OBVIOUS
    <3>6. k = KeyOf(g, had, wa, keycb) BY <1>1, <2>1, <3>1, <3>3, <3>5 DEF GetKey
    <3>. QED BY <1>5, <1>9, <2>3, <3>2, <3>4, <3>6, KeyOfFacts
  <2>5. PICK h : h = r.d.sigs[i] OBVIOUS
  <2>6. ASSUME NEW c, NEW st, r = Is(Store(e, i, c), st)
        PROVE  /\ SameHandle(r.d, e) /\ IsSeq(r.d.sigs) /\ Len(r.d.sigs) = Len(e.sigs) /\ r.ret = st
               /\ h = c /\ \A j \in 1..Len(e.sigs) : j # i => r.d.sigs[j] = e.sigs[j]
    <3>1. r.d = Store(e, i, c) /\ r.ret = st BY <2>6 DEF Is
    <3>. QED BY ONLY <2>5, <3>1, ListOK(e), i \in 1..Len(e.sigs), StoreFacts, SMT
  <2>7. SameBut(k.g, g) BY <2>4 DEF KeyGot
  <2>8. CASE k.st = "OK"
    <3>1. PICK v : v = RSAVerify(e, k.g, w) OBVIOUS
    <3>2. r = Verified(e, i, v) BY <2>2, <2>8, <3>1 DEF WithKey
    <3>3. Readable(g.spec, a) /\ k.g.tags = a.rec /\ k.g.strict = a.rec.strict /\ k.g.error = "UNKNOWN"
          /\ k.g.key # "none" /\ Held(k.g.key, k.g.tags, a) /\ (k.g.b64 => k.g.key = k.g.tags.p)
      BY ONLY <2>4, <2>8 DEF KeyGot
    <3>4. DOMAIN k.g = SigFields BY <2>7 DEF SameBut
    <3>5. /\ DOMAIN v = SigFields
          /\ v.spec = k.g.spec /\ v.ignore = k.g.ignore /\ v.len = k.g.len /\ v.canon = k.g.canon
          /\ v.key = k.g.key /\ v.b64 = k.g.b64 /\ v.tags = k.g.tags /\ v.strict = k.g.strict /\ v.bh = k.g.bh
          /\ IF ~Loads(k.g, w) THEN v.error = "KEYDECODE" /\ v.passed = k.g.passed /\ v.processed = k.g.processed
             ELSE /\ v.processed
                  /\ IF Made(e, k.g.spec) THEN v.passed /\ v.error = k.g.error
                     ELSE v.error = "BADSIG" /\ v.passed = k.g.passed
      BY ONLY <3>1, <3>4, RSAVerifyFacts, SMT
    <3>6. v.spec = g.spec /\ v.ignore = g.ignore /\ v.len = g.len /\ v.canon = g.canon /\ v.bh = "UNTESTED"
          /\ ~k.g.passed /\ ~k.g.processed
      BY <1>9, <2>3, <2>7, <3>5 DEF SameBut, Untouched
    <3>7. CASE ~Loads(k.g, w)
      <4>1. v.error = "KEYDECODE" /\ ~v.passed /\ ~v.processed BY <3>5, <3>6, <3>7
      <4>2. r = Is(Store(e, i, v), "OK") BY <3>2, <4>1 DEF Verified
      <4>3. KeyOK(v, a) BY <3>3, <3>5, <4>1 DEF KeyOK
      <4>4. PassedOK(e, v, a) /\ HashOK(e, v) BY <3>6, <4>1 DEF PassedOK, HashOK
      <4>5. ErrorOK(e, v) BY <2>3, <3>6, <4>1 DEF ErrorOK
      <4>6. v.key = "garbage" \/ ~Usable(v.spec, a) BY <3>3, <3>5, <3>7 DEF Loads, Held, Usable
      <4>7. Justified(e, v, a, q) BY <3>6, <4>1, <4>6 DEF Justified
      <4>8. SigOK(e, v, ans, q) BY <1>2, <1>5, <3>5, <3>6, <4>3, <4>4, <4>5, <4>7 DEF SigOK
      <4>. QED BY <1>1, <1>2, <1>3, <2>5, <2>6, <3>6, <4>1, <4>2, <4>8 DEF Stepped
    <3>8. CASE Loads(k.g, w)
      <4>1. v.processed BY <3>5, <3>8
      <4>2. v.error # "KEYDECODE" BY <3>3, <3>5, <3>8
      <4>3. PICK c : c = Concluded(e, BodyHash(e, v)) OBVIOUS
      <4>4. r = Is(Store(e, i, c), "OK") BY <3>2, <4>2, <4>3 DEF Verified
      <4>5. v.key \in {"good", "garbage"} /\ v.tags.p = "good" /\ v.tags = a.rec
        BY <3>3, <3>5, <3>8 DEF Loads, Held
      <4>6. KeyOK(v, a) BY <3>3, <3>5, <4>5 DEF KeyOK
      <4>7. \/ v.error = "UNKNOWN" /\ v.passed /\ v.spec.good /\ Usable(v.spec, a) /\ v.strict = a.rec.strict
            \/ v.error = "BADSIG" /\ ~v.passed /\ ~Made(e, v.spec)
        BY <2>7, <3>3, <3>5, <3>6, <3>8, <4>5 DEF Usable, Made, SameBut
      <4>8. SigOK(e, c, ans, q) /\ (c.passed /\ e.bodydone => c.error # "UNKNOWN")
        <5>1. a = ans[v.spec.key] /\ v.spec.key \in DOMAIN ans /\ IsSig(v.spec) /\ v.len \in Int
          BY <1>2, <1>5, <3>6
        <5>2. e.hdrsrun /\ v.bh = "UNTESTED" /\ (v.canon <=> v.spec.flaws = {}) /\ v.canon /\ ~Beyond(e, v)
          BY <1>9, <2>3, <3>6 DEF Beyond
        <5>. QED BY ONLY <3>5, <4>1, <4>3, <4>6, <4>7, <5>1, <5>2, q \in BOOLEAN, VerifiedFacts, SMT
      <4>9. c.spec = g.spec /\ c.ignore = g.ignore /\ c.len = g.len /\ c.passed = v.passed
        BY <3>5, <3>6, <4>3, ConcludedFacts
      <4>10. c.error = "UNKNOWN" => c.passed /\ Made(e, g.spec)
        <5>1. c.error = "UNKNOWN" => v.error # "BADSIG"
          BY ONLY <3>5, <4>3, ConcludedFacts, SMT
        <5>2. Made(e, v.spec) <=> Made(e, g.spec) BY <3>6
        <5>3. v.error = "UNKNOWN" => Made(e, g.spec) BY <2>7, <3>3, <3>5, <3>8 DEF SameBut
        <5>. QED BY <4>7, <4>9, <5>1, <5>3
      <4>11. c.passed => Made(e, g.spec) BY <2>7, <3>5, <3>6, <3>8, <4>9 DEF SameBut
      <4>. QED BY <1>1, <1>2, <1>3, <2>5, <2>6, <4>4, <4>8, <4>9, <4>10, <4>11 DEF Stepped
    <3>. QED BY <3>7, <3>8
  <2>9. CASE k.st # "OK" /\ Settled(k.st, k.g.error) = "retry"
    <3>1. r = Is(Store(e, i, g), k.st) BY <2>2, <2>4, <2>9 DEF WithKey, KeyGot
    <3>2. q => a.st # "OK" BY <2>4, <2>9 DEF KeyGot
    <3>. QED BY <1>1, <1>2, <1>3, <1>4, <2>3, <2>5, <2>6, <3>1, <3>2 DEF Stepped, Untouched
  <2>10. CASE k.st # "OK" /\ Settled(k.st, k.g.error) # "retry"
    <3>1. PICK error : error = Settled(k.st, k.g.error) OBVIOUS
    <3>2. PICK v : v = [k.g EXCEPT !.processed = TRUE, !.error = error] OBVIOUS
    <3>3. r = Is(Store(e, i, v), "OK") BY <2>2, <2>10, <3>1, <3>2 DEF WithKey
    <3>4. /\ DOMAIN v = SigFields /\ v.spec = g.spec /\ v.ignore = g.ignore /\ v.len = g.len
          /\ v.canon = g.canon /\ v.bh = "UNTESTED" /\ ~v.passed /\ v.processed /\ v.error = error
          /\ v.key = k.g.key /\ v.b64 = k.g.b64 /\ v.tags = k.g.tags
      BY <2>3, <2>7, <3>2 DEF SameBut, Untouched, SigFields
    <3>5. Held(k.g.key, k.g.tags, a) /\ (k.g.b64 => k.g.key = k.g.tags.p) /\ k.g.key \in KeyData
          /\ error \notin {"UNKNOWN", "OK"} /\ (q => ~Usable(g.spec, a))
      BY ONLY <2>4, <2>10, <3>1 DEF KeyGot
    <3>6. KeyOK(v, a) BY <3>4, <3>5 DEF KeyOK, KeyData
    <3>7. PassedOK(e, v, a) /\ HashOK(e, v) BY <3>4, <3>5 DEF PassedOK, HashOK
    <3>8. ErrorOK(e, v) BY <1>9, <2>3, <3>4, <3>5 DEF ErrorOK
    <3>9. Justified(e, v, a, q) BY <3>4, <3>5 DEF Justified
    <3>10. SigOK(e, v, ans, q) BY <1>2, <1>5, <3>4, <3>6, <3>7, <3>8, <3>9 DEF SigOK
    <3>. QED BY <1>1, <1>3, <2>5, <2>6, <3>3, <3>4, <3>5, <3>10 DEF Stepped
  <2>. QED BY <2>8, <2>9, <2>10
<1>10. g.ignore \/ g.error # "UNKNOWN" => r.d = e /\ r.ret = "OK" BY <1>1, <1>3 DEF SigProcess, Is
<1>11. ~g.ignore /\ g.error = "UNKNOWN" /\ ~g.processed /\ ~e.hdrsrun => r.d = e
  BY <1>1, <1>3 DEF SigProcess, Is
<1>. QED BY <1>7, <1>8, <1>9, <1>10, <1>11

-----------------------------------------------------------------------------
(* Processing several signatures.                                          *)

\* Whatever was verified was made over the headers as they are.
AllMade(e) == \A j \in 1..Len(e.sigs) : e.sigs[j].passed => Made(e, e.sigs[j].spec)

\* f is e after some of its signatures were processed.
Alike(f, e, ans, q) ==
    /\ SameHandle(f, e) /\ IsSeq(f.sigs) /\ Len(f.sigs) = Len(e.sigs)
    /\ \A j \in 1..Len(e.sigs) :
         /\ SigOK(e, f.sigs[j], ans, q)
         /\ f.sigs[j].spec = e.sigs[j].spec /\ f.sigs[j].ignore = e.sigs[j].ignore
         /\ f.sigs[j].len = e.sigs[j].len
    /\ AllMade(e) => AllMade(f)

LEMMA AlikeSelf ==
    ASSUME NEW e, ListOK(e), NEW ans, NEW q, SigsOK(e, ans, q)
    PROVE  Alike(e, e, ans, q) /\ Len(e.sigs) \in Nat
BY DEF ListOK, SigsOK, Alike, SameHandle, IsSeq

LEMMA AlikeOK ==
    ASSUME NEW e, NEW f, NEW ans, NEW q, Alike(f, e, ans, q)
    PROVE  ListOK(f) /\ SigsOK(f, ans, q) /\ Len(f.sigs) = Len(e.sigs) /\ Len(e.sigs) \in Nat /\ SameHandle(f, e)
<1>1. SameHandle(f, e) /\ IsSeq(f.sigs) /\ Len(f.sigs) = Len(e.sigs) BY DEF Alike
<1>2. ListOK(f) /\ Len(f.sigs) \in Nat BY <1>1 DEF ListOK, SameHandle, IsSeq
<1>3. \A j \in 1..Len(e.sigs) : SigOK(e, f.sigs[j], ans, q) BY DEF Alike
<1>4. \A j \in 1..Len(e.sigs) : SigOK(f, f.sigs[j], ans, q) BY <1>1, <1>3, SigOKElsewhere
<1>. QED BY <1>1, <1>2, <1>4 DEF SigsOK

LEMMA AlikeStep ==
    ASSUME NEW e, NEW f, NEW ans, NEW q \in BOOLEAN, Alike(f, e, ans, q), Records(ans),
           NEW w, Honest(w, ans, q), NEW i \in 1..Len(e.sigs), NEW r, r = SigProcess(f, i, w)
    PROVE  Alike(r.d, e, ans, q) /\ Stepped(f, r, i, ans, q)
<1>1. ListOK(f) /\ SigsOK(f, ans, q) /\ Len(f.sigs) = Len(e.sigs) /\ Len(e.sigs) \in Nat /\ SameHandle(f, e)
  BY AlikeOK
<1>2. Stepped(f, r, i, ans, q) BY <1>1, SigProcessFacts
<1>3. SameHandle(r.d, e) /\ IsSeq(r.d.sigs) /\ Len(r.d.sigs) = Len(e.sigs)
  BY <1>1, <1>2 DEF Stepped, SameHandle
<1>4. SigOK(e, r.d.sigs[i], ans, q) BY <1>1, <1>2, SigOKElsewhere DEF Stepped
<1>5. ASSUME NEW j \in 1..Len(e.sigs)
      PROVE  /\ SigOK(e, r.d.sigs[j], ans, q)
             /\ r.d.sigs[j].spec = e.sigs[j].spec /\ r.d.sigs[j].ignore = e.sigs[j].ignore
             /\ r.d.sigs[j].len = e.sigs[j].len
  <2>1. CASE j = i BY <1>2, <1>4, <2>1 DEF Stepped, Alike
  <2>2. CASE j # i BY <1>1, <1>2, <2>2 DEF Stepped, Alike
  <2>. QED BY <2>1, <2>2
<1>6. ASSUME AllMade(e) PROVE AllMade(r.d)
  <2>1. AllMade(f) BY <1>6 DEF Alike
  <2>2. SUFFICES ASSUME NEW j \in 1..Len(r.d.sigs), r.d.sigs[j].passed PROVE Made(f, r.d.sigs[j].spec)
    <3>1. r.d.tail = f.tail BY <1>2 DEF Stepped, SameHandle
    <3>. QED BY <3>1 DEF AllMade, Made
  <2>3. CASE j = i /\ f.sigs[j].passed BY <1>1, <1>2, <2>1, <2>3 DEF Stepped, AllMade
  <2>4. CASE j = i /\ ~f.sigs[j].passed BY <1>1, <1>2, <2>2, <2>4 DEF Stepped
  <2>5. CASE j # i BY <1>1, <1>2, <1>3, <2>1, <2>2, <2>5 DEF Stepped, AllMade
  <2>. QED BY <2>3, <2>4, <2>5
<1>. QED BY <1>2, <1>3, <1>5, <1>6 DEF Alike

LEMMA ProcessAllFacts ==
    ASSUME NEW e, ListOK(e), NEW ans, NEW q \in BOOLEAN, SigsOK(e, ans, q), Records(ans),
           NEW w, Honest(w, ans, q)
    PROVE  Alike(ProcessAll(e, w).d, e, ans, q)
<1>1. Alike(e, e, ans, q) /\ Len(e.sigs) \in Nat BY AlikeSelf
<1>2. PICK run : /\ IsRun(run, "ProcessAll", [w |-> w], Is(e, "OK"), Len(e.sigs))
                 /\ ProcessAll(e, w) = run[Len(e.sigs)]
  BY <1>1, ProcessAllRun
<1>. DEFINE n == Len(e.sigs)
            A == {m \in 0..n : Alike(run[m].d, e, ans, q)}
<1>3. 0 \in A
  <2>1. run[0] = Is(e, "OK") BY <1>1, <1>2 DEF IsRun
  <2>. QED BY <1>1, <2>1 DEF Is
<1>4. ASSUME NEW m \in 1..n, m - 1 \in A PROVE m \in A
  <2>1. PICK x : x = run[m - 1] OBVIOUS
  <2>2. run[m] = LoopBody("ProcessAll", [w |-> w], x, m) BY <1>1, <1>2, <2>1 DEF IsRun
  <2>3. run[m] = x \/ run[m] = SigProcess(x.d, m, w) BY <2>2 DEF LoopBody
  <2>4. Alike(x.d, e, ans, q) BY <1>4, <2>1
  <2>5. Alike(run[m].d, e, ans, q) BY <2>3, <2>4, AlikeStep
  <2>. QED BY <2>5
<1>. HIDE DEF A
<1>5. 0..n \subseteq A BY <1>1, <1>3, <1>4, Climb
<1>. QED BY <1>1, <1>2, <1>5 DEF A

\* What is known of a signature that dkim_eom_verify() ran without passing it.
Tested(e, g, ans, q) ==
    /\ g.passed /\ e.bodydone => g.error # "UNKNOWN"
    /\ q /\ e.hdrsrun /\ e.bodydone /\ ans[g.spec.key].st = "OK" => g.error # "UNKNOWN" /\ ~Passing(g)

\* n is a signature that passes, or no signature does.
Chose(f, n, m, e, ans, q) ==
    /\ n \in 0..m
    /\ n # 0 => ~f.sigs[n].ignore /\ Passing(f.sigs[n])
    /\ n = 0 => \A j \in 1..m : ~f.sigs[j].ignore => Tested(e, f.sigs[j], ans, q)

LEMMA RunUntilPassFacts ==
    ASSUME NEW e, ListOK(e), NEW ans, NEW q \in BOOLEAN, SigsOK(e, ans, q), Records(ans),
           NEW w, Honest(w, ans, q), NEW r, r = RunUntilPass(e, w)
    PROVE  Alike(r.d, e, ans, q) /\ Chose(r.d, r.n, Len(e.sigs), e, ans, q) /\ DOMAIN r = {"d", "n"}
<1>1. Alike(e, e, ans, q) /\ Len(e.sigs) \in Nat BY AlikeSelf
<1>2. PICK run : /\ IsRun(run, "RunUntilPass", [w |-> w], [d |-> e, n |-> 0], Len(e.sigs))
                 /\ RunUntilPass(e, w) = run[Len(e.sigs)]
  BY <1>1, RunUntilPassRun
<1>. DEFINE n == Len(e.sigs)
            A == {m \in 0..n : /\ Alike(run[m].d, e, ans, q) /\ Chose(run[m].d, run[m].n, m, e, ans, q)
                               /\ DOMAIN run[m] = {"d", "n"}}
<1>3. 0 \in A
  <2>1. run[0] = [d |-> e, n |-> 0] BY <1>1, <1>2 DEF IsRun
  <2>2. run[0].d = e /\ run[0].n = 0 /\ DOMAIN run[0] = {"d", "n"} BY <2>1
  <2>. QED BY <1>1, <2>2 DEF Chose
<1>4. ASSUME NEW m \in 1..n, m - 1 \in A PROVE m \in A
  <2>1. PICK x : x = run[m - 1] OBVIOUS
  <2>2. run[m] = LoopBody("RunUntilPass", [w |-> w], x, m) BY <1>1, <1>2, <2>1 DEF IsRun
  <2>3. PICK s : s = SigProcess(x.d, m, w) OBVIOUS
  <2>4. run[m] = IF x.n # 0 \/ x.d.sigs[m].ignore THEN x ELSE Tried(s, m) BY <2>2, <2>3 DEF LoopBody
  <2>5. Alike(x.d, e, ans, q) /\ Chose(x.d, x.n, m - 1, e, ans, q) /\ DOMAIN x = {"d", "n"} BY <1>4, <2>1
  <2>6. CASE x.n # 0 \/ x.d.sigs[m].ignore
    <3>1. \A j \in 1..m : j = m \/ j \in 1..(m - 1) OBVIOUS
    <3>2. x.n \in 0..m BY <2>5 DEF Chose
    <3>3. Chose(x.d, x.n, m, e, ans, q) BY <2>5, <2>6, <3>1, <3>2 DEF Chose
    <3>. QED BY <2>4, <2>5, <2>6, <3>3
  <2>7. CASE ~(x.n # 0 \/ x.d.sigs[m].ignore)
    <3>1. Alike(s.d, e, ans, q) /\ Stepped(x.d, s, m, ans, q) BY <2>3, <2>5, AlikeStep
    <3>2. PICK y : y = run[m] OBVIOUS
    <3>3. y.d = s.d /\ (y.n = IF s.ret = "OK" /\ Passing(s.d.sigs[m]) THEN m ELSE 0) /\ DOMAIN y = {"d", "n"}
      BY <2>4, <2>7, <3>2 DEF Tried
    <3>4. Len(x.d.sigs) = Len(e.sigs) /\ SameHandle(x.d, e) BY <2>5, AlikeOK
    <3>5. ~s.d.sigs[m].ignore BY <2>7, <3>1, <3>4 DEF Stepped
    <3>6. y.n = 0 => Tested(e, s.d.sigs[m], ans, q)
      <4>1. SUFFICES ASSUME y.n = 0 PROVE Tested(e, s.d.sigs[m], ans, q) OBVIOUS
      <4>2. ~(s.ret = "OK" /\ Passing(s.d.sigs[m])) BY <3>3, <4>1
      <4>3. x.d.bodydone = e.bodydone /\ x.d.hdrsrun = e.hdrsrun BY <3>4 DEF SameHandle
      <4>4. s.d.sigs[m].spec = x.d.sigs[m].spec BY <3>1 DEF Stepped
      <4>5. /\ s.d.sigs[m].passed /\ e.bodydone => s.d.sigs[m].error # "UNKNOWN"
            /\ q /\ e.hdrsrun /\ ans[s.d.sigs[m].spec.key].st = "OK" =>
                 s.ret = "OK" /\ (s.d.sigs[m].error = "UNKNOWN" => s.d.sigs[m].passed)
        BY <2>7, <3>1, <4>3, <4>4 DEF Stepped
      <4>. QED BY <4>2, <4>5 DEF Tested
    <3>7. ASSUME y.n = 0, NEW j \in 1..m, ~s.d.sigs[j].ignore PROVE Tested(e, s.d.sigs[j], ans, q)
      <4>1. CASE j = m BY <3>6, <3>7, <4>1
      <4>2. CASE j # m
        <5>1. j \in 1..(m - 1) /\ j \in 1..Len(x.d.sigs) BY <1>1, <3>4, <4>2
        <5>2. s.d.sigs[j] = x.d.sigs[j] BY <3>1, <4>2, <5>1 DEF Stepped
        <5>. QED BY <2>5, <2>7, <3>7, <5>1, <5>2 DEF Chose
      <4>. QED BY <4>1, <4>2
    <3>8. y.n \in 0..m /\ (y.n # 0 => y.n = m /\ Passing(s.d.sigs[m])) BY <3>3
    <3>9. Chose(y.d, y.n, m, e, ans, q) BY <3>3, <3>5, <3>7, <3>8 DEF Chose
    <3>. QED BY <3>1, <3>2, <3>3, <3>9
  <2>. QED BY <2>6, <2>7
<1>. HIDE DEF A
<1>5. 0..n \subseteq A BY <1>1, <1>3, <1>4, Climb
<1>. QED BY <1>1, <1>2, <1>5 DEF A

\* Neither marking a signature nor its place in the list changes what is known of it.
LEMMA SigOKIgnored ==
    ASSUME NEW e, NEW ans, NEW q, NEW g, SigOK(e, g, ans, q), NEW b, NEW h, h = [g EXCEPT !.ignore = b]
    PROVE  SigOK(e, h, ans, q) /\ h.spec = g.spec /\ h.passed = g.passed
<1>1. DOMAIN g = SigFields BY DEF SigOK
<1>2. /\ DOMAIN h = SigFields /\ h.spec = g.spec /\ h.error = g.error /\ h.processed = g.processed
      /\ h.passed = g.passed /\ h.bh = g.bh /\ h.len = g.len /\ h.canon = g.canon /\ h.key = g.key
      /\ h.b64 = g.b64 /\ h.tags = g.tags /\ h.strict = g.strict
  BY <1>1 DEF SigFields
<1>3. Wrote(e, h) = Wrote(e, g) /\ (Beyond(e, h) <=> Beyond(e, g)) BY <1>2 DEF Wrote, Beyond
<1>4. KeyOK(h, ans[h.spec.key]) /\ PassedOK(e, h, ans[h.spec.key])
  BY <1>2 DEF SigOK, KeyOK, PassedOK
<1>5. HashOK(e, h) BY <1>2, <1>3 DEF SigOK, HashOK
<1>6. ErrorOK(e, h) BY <1>2, <1>3 DEF SigOK, ErrorOK, Untouched
<1>7. Justified(e, h, ans[h.spec.key], q) BY <1>2, <1>3 DEF SigOK, Justified
<1>. QED BY <1>2, <1>4, <1>5, <1>6, <1>7 DEF SigOK

\* The application's callbacks leave the list in order.
LEMMA HeardFacts ==
    ASSUME NEW e, ListOK(e), NEW ans, NEW q \in BOOLEAN, SigsOK(e, ans, q), Records(ans),
           NEW w, Honest(w, ans, q), NEW cb, NEW h, h = Heard(e, cb, w)
    PROVE  /\ SameHandle(h, e) /\ IsSeq(h.sigs) /\ Len(h.sigs) = Len(e.sigs)
           /\ SigsOK(h, ans, q) /\ (AllMade(e) => AllMade(h))
<1>1. Alike(e, e, ans, q) /\ Len(e.sigs) \in Nat BY AlikeSelf
<1>2. PICK run : /\ IsRun(run, "Heard", [cb |-> cb, w |-> w], e, Len(e.sigs))
                 /\ Heard(e, cb, w) = LET marked == Ignored(run[Len(e.sigs)], cb.ignore)
                                      IN  IF cb.swap THEN [marked EXCEPT !.sigs = Reverse(@)] ELSE marked
  BY <1>1, HeardRun
<1>. DEFINE n == Len(e.sigs)
            A == {m \in 0..n : Alike(run[m], e, ans, q)}
<1>3. 0 \in A
  <2>1. run[0] = e BY <1>1, <1>2 DEF IsRun
  <2>. QED BY <1>1, <2>1
<1>4. ASSUME NEW m \in 1..n, m - 1 \in A PROVE m \in A
  <2>1. PICK x : x = run[m - 1] OBVIOUS
  <2>2. run[m] = LoopBody("Heard", [cb |-> cb, w |-> w], x, m) BY <1>1, <1>2, <2>1 DEF IsRun
  <2>3. run[m] = x \/ run[m] = SigProcess(x, m, w).d BY <2>2 DEF LoopBody
  <2>4. Alike(x, e, ans, q) BY <1>4, <2>1
  <2>5. Alike(run[m], e, ans, q) BY <2>3, <2>4, AlikeStep
  <2>. QED BY <2>5
<1>5. n \in A
  <2>. HIDE DEF A
  <2>1. 0..n \subseteq A BY <1>1, <1>3, <1>4, Climb
  <2>. QED BY <1>1, <2>1
<1>6. PICK f : f = run[n] OBVIOUS
<1>7. Alike(f, e, ans, q) BY <1>5, <1>6
<1>8. ListOK(f) /\ SigsOK(f, ans, q) /\ Len(f.sigs) = n /\ SameHandle(f, e) BY <1>7, AlikeOK
<1>. DEFINE Mark(i) == [f.sigs[i] EXCEPT !.ignore = @ \/ i \in cb.ignore]
<1>9. PICK marked : marked = Ignored(f, cb.ignore) OBVIOUS
<1>10. PICK M : M = [i \in 1..n |-> Mark(i)] OBVIOUS
<1>11. \A i \in 1..n : SigOK(f, M[i], ans, q) /\ M[i].spec = f.sigs[i].spec /\ M[i].passed = f.sigs[i].passed
  <2>1. TAKE i \in 1..n
  <2>2. SigOK(f, f.sigs[i], ans, q) BY <1>8 DEF SigsOK
  <2>3. PICK b : b = (f.sigs[i].ignore \/ i \in cb.ignore) OBVIOUS
  <2>4. M[i] = [f.sigs[i] EXCEPT !.ignore = b]
    <3>1. DOMAIN f.sigs[i] = SigFields BY <2>2 DEF SigOK
    <3>. QED BY <1>10, <2>3, <3>1 DEF SigFields
  <2>. QED BY <2>2, <2>4, SigOKIgnored
<1>12. SameHandle(marked, f) /\ marked.sigs = M
  <2>1. marked = [f EXCEPT !.sigs = [i \in 1..Len(f.sigs) |-> Mark(i)]] BY <1>9 DEF Ignored
  <2>2. marked = [f EXCEPT !.sigs = M] BY <1>8, <1>10, <2>1
  <2>3. DOMAIN f = HandleFields BY <1>8 DEF ListOK
  <2>. QED BY ONLY <2>2, <2>3 DEF SameHandle, HandleFields
<1>13. PICK at \in [1..n -> 1..n] : SameHandle(h, f) /\ h.sigs = [i \in 1..n |-> M[at[i]]]
  <2>1. h = IF cb.swap THEN [marked EXCEPT !.sigs = Reverse(@)] ELSE marked BY <1>2, <1>6, <1>9
  <2>2. CASE ~cb.swap
    <3>. DEFINE at == [i \in 1..n |-> i]
    <3>1. at \in [1..n -> 1..n] /\ M = [i \in 1..n |-> M[at[i]]] BY <1>10
    <3>. QED BY <1>12, <2>1, <2>2, <3>1
  <2>3. CASE cb.swap
    <3>. DEFINE at == [i \in 1..n |-> (n - i) + 1]
    <3>1. at \in [1..n -> 1..n] BY <1>1
    <3>2. M \in Seq({M[i] : i \in 1..n}) /\ Len(M) = n
      <4>1. PICK Z : Z = {M[i] : i \in 1..n} OBVIOUS
      <4>2. M \in [1..n -> Z] BY <1>10, <4>1
      <4>. QED BY <1>1, <4>1, <4>2
    <3>3. Reverse(M) = [i \in 1..n |-> M[(n - i) + 1]] BY <3>2 DEF Reverse
    <3>4. Reverse(M) = [i \in 1..n |-> M[at[i]]] BY <3>3
    <3>5. SameHandle(h, marked) /\ h.sigs = Reverse(M)
      BY <1>12, <2>1, <2>3 DEF SameHandle, HandleFields
    <3>6. SameHandle(h, f) BY <1>12, <3>5 DEF SameHandle
    <3>. QED BY <3>1, <3>4, <3>5, <3>6
  <2>. QED BY <2>2, <2>3
<1>14. IsSeq(h.sigs) /\ Len(h.sigs) = n
  <2>1. PICK Z : Z = {M[at[i]] : i \in 1..n} OBVIOUS
  <2>2. h.sigs \in [1..n -> Z] BY <1>13, <2>1
  <2>3. h.sigs \in Seq(Z) /\ Len(h.sigs) = n BY <1>1, <2>2
  <2>. QED BY <2>3 DEF IsSeq
<1>15. SameHandle(h, e) BY <1>8, <1>13 DEF SameHandle
<1>16. SigsOK(h, ans, q)
  <2>1. SUFFICES ASSUME NEW i \in 1..n PROVE SigOK(h, h.sigs[i], ans, q) BY <1>14 DEF SigsOK
  <2>2. h.sigs[i] = M[at[i]] /\ at[i] \in 1..n BY <1>13
  <2>3. SigOK(f, h.sigs[i], ans, q) BY <1>11, <2>2
  <2>. QED BY <1>13, <2>3, SigOKElsewhere
<1>17. ASSUME AllMade(e) PROVE AllMade(h)
  <2>1. AllMade(f) BY <1>7, <1>17 DEF Alike
  <2>2. SUFFICES ASSUME NEW i \in 1..n, h.sigs[i].passed PROVE Made(h, h.sigs[i].spec) BY <1>14 DEF AllMade
  <2>3. h.sigs[i] = M[at[i]] /\ at[i] \in 1..n BY <1>13
  <2>4. f.sigs[at[i]].passed /\ h.sigs[i].spec = f.sigs[at[i]].spec BY <1>11, <2>2, <2>3
  <2>5. Made(f, h.sigs[i].spec) BY <1>8, <2>1, <2>3, <2>4 DEF AllMade
  <2>. QED BY <1>13, <2>5 DEF Made, SameHandle
<1>. QED BY <1>14, <1>15, <1>16, <1>17 DEF IsSeq

-----------------------------------------------------------------------------
(* The invariant of a handle.                                              *)

HandleOK(e, ans, q) ==
    /\ ListOK(e) /\ IsSeq(e.hdrs) /\ e.state \in Nat /\ e.fed \in Nat
    /\ e.chunk \in {"INIT", "HEADER", "BODY", "DONE"}
    /\ \A j \in 1..Len(e.hdrs) : IsField(e.hdrs[j], DOMAIN ans)
    /\ IsField(e.line, DOMAIN ans)
    /\ e.state <= HEADER \/ e.mode # "verify" => e.sigs = <<>>
    /\ e.hdrsrun => e.state >= EOH2
    /\ e.bodydone => e.state >= EOM1
    /\ (e.chunk = "HEADER" /\ e.state >= EOH2) \/ AllMade(e)
    /\ SigsOK(e, ans, q)

\* The invariant of a signature survives the rest of the handle's life.
LEMMA SigOKLater ==
    ASSUME NEW e, NEW f, NEW g, NEW ans, NEW q, NEW p, SigOK(e, g, ans, q), p => q,
           f.lib = e.lib, f.hdrs = e.hdrs, e.tail => f.tail, e.hdrsrun => f.hdrsrun,
           f.bodydone = e.bodydone, e.bodydone => f.fed = e.fed
    PROVE  SigOK(f, g, ans, p)
<1>1. Signs(f, g.spec) <=> Signs(e, g.spec) BY DEF Signs, HasHeader
<1>2. Beyond(f, g) <=> Beyond(e, g) BY DEF Beyond
<1>3. Made(f, g.spec) => Made(e, g.spec) BY DEF Made
<1>4. e.bodydone => Wrote(f, g) = Wrote(e, g) BY DEF Wrote
<1>5. HashOK(f, g) BY <1>2, <1>4 DEF HashOK, SigOK
<1>6. ErrorOK(f, g) BY <1>2 DEF ErrorOK, SigOK
<1>7. PassedOK(f, g, ans[g.spec.key]) BY <1>1 DEF PassedOK, SigOK
<1>8. Justified(f, g, ans[g.spec.key], p) BY <1>1, <1>2, <1>3 DEF Justified, SigOK
<1>. QED BY <1>5, <1>6, <1>7, <1>8 DEF SigOK

\* A handle of which only the state, a few marks and the streaming interface changed.
LEMMA HandleLater ==
    ASSUME NEW e, NEW f, NEW ans, NEW q, NEW p, HandleOK(e, ans, q), p => q,
           DOMAIN f = HandleFields, f.sigs = e.sigs, f.hdrs = e.hdrs, f.lib = e.lib, f.mode = e.mode, f.fed = e.fed,
           f.bodydone = e.bodydone, f.tail = e.tail, f.state \in Nat, e.state <= f.state,
           e.hdrsrun => f.hdrsrun, f.hdrsrun => f.state >= EOH2, f.bodydone => f.state >= EOM1,
           IsField(f.line, DOMAIN ans), f.chunk \in {e.chunk, "HEADER", "BODY", "DONE"},
           (f.chunk = "HEADER" /\ f.state >= EOH2) \/ AllMade(e)
    PROVE  HandleOK(f, ans, p)
<1>1. \A j \in 1..Len(f.sigs) : SigOK(f, f.sigs[j], ans, p)
  <2>1. TAKE j \in 1..Len(f.sigs)
  <2>2. SigOK(e, f.sigs[j], ans, q) BY DEF HandleOK, SigsOK
  <2>. QED BY <2>2, SigOKLater
<1>2. AllMade(e) => AllMade(f) BY DEF AllMade, Made
<1>3. f.state <= HEADER \/ f.mode # "verify" => f.sigs = <<>> BY DEF HandleOK, HEADER
<1>. QED BY <1>1, <1>2, <1>3 DEF HandleOK, SigsOK, ListOK

\* A handle whose signatures were processed, marked or put in another order.
LEMMA HandleSigs ==
    ASSUME NEW e, NEW f, NEW ans, NEW q, HandleOK(e, ans, q), SameHandle(f, e), IsSeq(f.sigs),
           Len(f.sigs) = Len(e.sigs), SigsOK(f, ans, q), AllMade(e) => AllMade(f)
    PROVE  HandleOK(f, ans, q)
<1>1. e.sigs = <<>> => f.sigs = <<>>
  <2>1. PICK S : f.sigs \in Seq(S) BY DEF IsSeq
  <2>2. e.sigs = <<>> => Len(f.sigs) = 0 OBVIOUS
  <2>. QED BY <2>1, <2>2
<1>. QED BY <1>1 DEF HandleOK, SameHandle, ListOK

\* The fields that a handle's invariant looks at, when a call begins.
LEMMA HandleFacts ==
    ASSUME NEW e, NEW ans, NEW q, HandleOK(e, ans, q)
    PROVE  /\ DOMAIN e = HandleFields /\ ListOK(e) /\ SigsOK(e, ans, q) /\ e.state \in Nat
           /\ Len(e.sigs) \in Nat /\ Len(e.hdrs) \in Nat
           /\ e.state < EOH2 => AllMade(e) /\ ~e.hdrsrun /\ ~e.bodydone
BY DEF HandleOK, ListOK, IsSeq, EOH2, EOM1

-----------------------------------------------------------------------------
(* dkim_header() and dkim_body().                                          *)

LEMMA HeaderFacts ==
    ASSUME NEW e, NEW ans, NEW q, HandleOK(e, ans, q), NEW h, IsField(h, DOMAIN ans),
           NEW r, r = Header(e, h), r.ret # "ABORT"
    PROVE  HandleOK(r.d, ans, q)
<1>1. DOMAIN e = HandleFields /\ e.state \in Nat BY HandleFacts
<1>2. CASE r.d = e BY <1>2
<1>3. CASE r.d # e
  <2>1. e.state <= HEADER BY <1>1, <1>3 DEF Header, Is, Abort, HEADER
  <2>2. e.sigs = <<>> /\ ~e.hdrsrun /\ ~e.bodydone BY <2>1 DEF HandleOK, HEADER, EOH2, EOM1
  <2>3. \/ r.d = [e EXCEPT !.state = HEADER]
        \/ r.d = [e EXCEPT !.state = HEADER, !.hdrs = Append(@, h)]
    BY <1>3 DEF Header, Is, Abort
  <2>4. /\ DOMAIN r.d = HandleFields /\ r.d.sigs = <<>> /\ r.d.state = HEADER /\ r.d.fed = e.fed
        /\ r.d.hdrsrun = e.hdrsrun /\ r.d.bodydone = e.bodydone /\ r.d.line = e.line /\ r.d.chunk = e.chunk
        /\ r.d.hdrs = e.hdrs \/ r.d.hdrs = Append(e.hdrs, h)
    BY <1>1, <2>2, <2>3 DEF HandleFields
  <2>5. IsSeq(r.d.hdrs) /\ \A j \in 1..Len(r.d.hdrs) : IsField(r.d.hdrs[j], DOMAIN ans)
    <3>1. IsSeq(e.hdrs) /\ \A j \in 1..Len(e.hdrs) : IsField(e.hdrs[j], DOMAIN ans) BY DEF HandleOK
    <3>2. PICK S : e.hdrs \in Seq(S) BY <3>1 DEF IsSeq
    <3>3. e.hdrs \in Seq(S \cup {h}) BY <3>2
    <3>4. Append(e.hdrs, h) \in Seq(S \cup {h}) /\ Len(Append(e.hdrs, h)) = Len(e.hdrs) + 1
          /\ \A j \in 1..Len(Append(e.hdrs, h)) :
               Append(e.hdrs, h)[j] = IF j = Len(e.hdrs) + 1 THEN h ELSE e.hdrs[j]
      BY <3>3
    <3>5. \A j \in 1..Len(Append(e.hdrs, h)) : IsField(Append(e.hdrs, h)[j], DOMAIN ans)
      BY <3>1, <3>2, <3>4
    <3>. QED BY <2>4, <3>1, <3>4, <3>5 DEF IsSeq
  <2>6. IsSeq(<<>>) /\ Len(<<>>) = 0
    <3>1. <<>> \in Seq({}) OBVIOUS
    <3>. QED BY <3>1 DEF IsSeq
  <2>7. ListOK(r.d) /\ SigsOK(r.d, ans, q) /\ AllMade(r.d) BY <2>4, <2>6 DEF ListOK, SigsOK, AllMade
  <2>8. r.d.state \in Nat BY <2>4 DEF HEADER
  <2>. QED BY <2>2, <2>4, <2>5, <2>7, <2>8 DEF HandleOK
<1>. QED BY <1>2, <1>3

LEMMA BodyFacts ==
    ASSUME NEW e, NEW ans, NEW q, HandleOK(e, ans, q), NEW r, r = Body(e), r.ret # "ABORT"
    PROVE  HandleOK(r.d, ans, q)
<1>1. DOMAIN e = HandleFields /\ e.state \in Nat BY HandleFacts
<1>2. CASE r.d = e BY <1>2
<1>3. CASE r.d # e
  <2>1. e.state <= BODY BY <1>1, <1>3 DEF Body, Is, Abort, BODY
  <2>2. ~e.bodydone BY <1>1, <2>1 DEF HandleOK, BODY, EOM1
  <2>3. r.d = [e EXCEPT !.state = BODY] \/ r.d = [e EXCEPT !.state = BODY, !.fed = @ + 1]
    BY <1>1, <1>3, <2>1 DEF Body, Is, Abort, HandleFields
  <2>4. /\ SameHandle([r.d EXCEPT !.state = e.state, !.fed = e.fed], e) /\ DOMAIN r.d = HandleFields
        /\ r.d.sigs = e.sigs /\ r.d.state = BODY /\ r.d.hdrs = e.hdrs /\ r.d.lib = e.lib /\ r.d.mode = e.mode
        /\ r.d.hdrsrun = e.hdrsrun /\ r.d.bodydone = e.bodydone /\ r.d.line = e.line /\ r.d.chunk = e.chunk /\ r.d.tail = e.tail
        /\ r.d.chunk = e.chunk /\ r.d.fed \in {e.fed, e.fed + 1}
    BY <1>1, <2>3 DEF HandleFields, SameHandle
  <2>5. \A j \in 1..Len(r.d.sigs) : SigOK(r.d, r.d.sigs[j], ans, q)
    <3>1. TAKE j \in 1..Len(r.d.sigs)
    <3>2. SigOK(e, r.d.sigs[j], ans, q) BY <2>4 DEF HandleOK, SigsOK
    <3>. QED BY <2>2, <2>4, <3>2, SigOKLater
  <2>6. AllMade(e) => AllMade(r.d) BY <2>4 DEF AllMade, Made
  <2>7. r.d.state \in Nat /\ e.state <= r.d.state /\ r.d.fed \in Nat /\ r.d.state >= EOH2 /\ ~(r.d.state <= HEADER)
    BY <2>1, <2>4 DEF HandleOK, BODY, EOH2, HEADER
  <2>. QED BY <2>2, <2>4, <2>5, <2>6, <2>7 DEF HandleOK, SigsOK, ListOK
<1>. QED BY <1>2, <1>3

-----------------------------------------------------------------------------
(* The list of signatures.                                                 *)

\* A list of signatures of which nothing is known but what they say.
FreshList(e, list, ans, q) ==
    IsSeq(list) /\ \A j \in 1..Len(list) : SigOK(e, list[j], ans, q) /\ ~list[j].passed

LEMMA SigInfoFacts ==
    ASSUME NEW e, ~e.bodydone, NEW ans, NEW q, NEW s, IsSig(s), s.key \in DOMAIN ans, NEW len \in Int,
           NEW g, g = SigInfo(s, len)
    PROVE  SigOK(e, g, ans, q) /\ ~g.passed
<1>1. PICK error : error = SetupError(s) OBVIOUS
<1>2. (error = "UNKNOWN" <=> s.flaws = {}) /\ error # "OK" BY <1>1, SetupErrorFacts DEF IsSig
<1>3. /\ DOMAIN g = SigFields /\ g.spec = s /\ g.error = error /\ g.ignore = FALSE /\ g.processed = FALSE
      /\ g.passed = FALSE /\ g.bh = "UNTESTED" /\ g.len = len /\ g.canon = (error = "UNKNOWN")
      /\ g.key = "none" /\ g.b64 = FALSE /\ g.tags = NoTags /\ g.strict = FALSE
  BY <1>1 DEF SigInfo, SigFields
<1>4. KeyOK(g, ans[s.key]) BY <1>3 DEF KeyOK, Held
<1>5. PassedOK(e, g, ans[s.key]) BY <1>3 DEF PassedOK
<1>6. HashOK(e, g) BY <1>2, <1>3 DEF HashOK
<1>7. ErrorOK(e, g) BY <1>2, <1>3 DEF ErrorOK, Beyond, Untouched
<1>8. Justified(e, g, ans[s.key], q) BY <1>2, <1>3 DEF Justified
<1>. QED BY <1>3, <1>4, <1>5, <1>6, <1>7, <1>8 DEF SigOK

LEMMA SetupFacts ==
    ASSUME NEW e, NEW ans, NEW q, ~e.bodydone, Len(e.hdrs) \in Nat,
           \A j \in 1..Len(e.hdrs) : IsField(e.hdrs[j], DOMAIN ans)
    PROVE  FreshList(e, Setup(e), ans, q)
<1>. DEFINE n == Len(e.hdrs)
            base == [len |-> -1, list |-> <<>>]
<1>1. PICK run : IsRun(run, "Setup", [e |-> e], base, n) /\ Setup(e) = run[n].list BY SetupRun
<1>. DEFINE A == {m \in 0..n : run[m].len \in Int /\ FreshList(e, run[m].list, ans, q)}
<1>2. 0 \in A
  <2>1. run[0] = base BY <1>1 DEF IsRun
  <2>2. run[0].len = -1 /\ run[0].list = <<>> BY <2>1
  <2>3. <<>> \in Seq({}) /\ Len(<<>>) = 0 OBVIOUS
  <2>4. FreshList(e, <<>>, ans, q) BY <2>3 DEF FreshList, IsSeq
  <2>. QED BY <2>2, <2>4
<1>3. ASSUME NEW m \in 1..n, m - 1 \in A PROVE m \in A
  <2>1. PICK x : x = run[m - 1] OBVIOUS
  <2>2. PICK h : h = e.hdrs[m] OBVIOUS
  <2>3. run[m] = LoopBody("Setup", [e |-> e], x, m)
    <3>1. m \in 0..n /\ m # 0 OBVIOUS
    <3>2. run[m] = IF m = 0 THEN base ELSE LoopBody("Setup", [e |-> e], run[m - 1], m)
      BY ONLY <1>1, <3>1 DEF IsRun
    <3>. QED BY <2>1, <3>1, <3>2
  <2>4. run[m] = IF ~IsSignature(h) THEN x
                 ELSE LET len == SignLen(x, h.sig) IN [len |-> len, list |-> Append(x.list, SigInfo(h.sig, len))]
    BY <2>2, <2>3 DEF LoopBody
  <2>5. x.len \in Int /\ FreshList(e, x.list, ans, q) BY <1>3, <2>1
  <2>6. CASE ~IsSignature(h) BY <2>1, <2>4, <2>5, <2>6
  <2>7. CASE IsSignature(h)
    <3>1. IsSig(h.sig) /\ h.sig.key \in DOMAIN ans BY <2>2, <2>7 DEF IsField, IsSignature
    <3>2. PICK len : len = SignLen(x, h.sig) OBVIOUS
    <3>3. len \in Int BY <2>5, <3>1, <3>2 DEF SignLen, IsSig
    <3>4. PICK g : g = SigInfo(h.sig, len) OBVIOUS
    <3>5. SigOK(e, g, ans, q) /\ ~g.passed BY <3>1, <3>3, <3>4, SigInfoFacts
    <3>6. run[m].len = len /\ run[m].list = Append(x.list, g) BY <2>4, <2>7, <3>2, <3>4
    <3>7. PICK S : x.list \in Seq(S) BY <2>5 DEF FreshList, IsSeq
    <3>8. x.list \in Seq(S \cup {g}) BY <3>7
    <3>9. /\ Append(x.list, g) \in Seq(S \cup {g}) /\ Len(Append(x.list, g)) = Len(x.list) + 1
          /\ \A j \in 1..Len(Append(x.list, g)) :
               Append(x.list, g)[j] = IF j = Len(x.list) + 1 THEN g ELSE x.list[j]
      BY <3>8
    <3>10. Len(x.list) \in Nat BY <3>7
    <3>11. \A j \in 1..Len(Append(x.list, g)) : j = Len(x.list) + 1 \/ j \in 1..Len(x.list) BY <3>9, <3>10
    <3>12. FreshList(e, Append(x.list, g), ans, q) BY <2>5, <3>5, <3>9, <3>11 DEF FreshList, IsSeq
    <3>13. run[m].len \in Int /\ FreshList(e, run[m].list, ans, q) BY <3>3, <3>6, <3>12
    <3>. QED BY <3>13
  <2>. QED BY <2>6, <2>7
<1>. HIDE DEF A
<1>4. 0..n \subseteq A BY <1>2, <1>3, Climb
<1>. QED BY <1>1, <1>4 DEF A

-----------------------------------------------------------------------------
(* dkim_eoh().                                                             *)

\* Before the headers are run the list of signatures is made, once.
LEMMA EohSigsFacts ==
    ASSUME NEW e, NEW ans, NEW q, HandleOK(e, ans, q), e.state = EOH1, e.mode = "verify",
           NEW s, s = EohSigs(e)
    PROVE  HandleOK(s.d, ans, q) /\ s.d.state = EOH1 /\ s.ret # "ABORT"
<1>1. DOMAIN e = HandleFields /\ e.state \in Nat /\ Len(e.hdrs) \in Nat /\ AllMade(e) /\ ~e.hdrsrun /\ ~e.bodydone
  BY HandleFacts DEF EOH1, EOH2
<1>2. CASE e.siglist BY <1>2 DEF EohSigs, Is
<1>3. CASE ~e.siglist
  <2>1. PICK sigs : sigs = Setup(e) OBVIOUS
  <2>2. FreshList(e, sigs, ans, q) BY <1>1, <2>1, SetupFacts DEF HandleOK
  <2>3. s = EohList(e, sigs) BY <1>3, <2>1 DEF EohSigs
  <2>4. CASE sigs = <<>>
    <3>1. s.d = [e EXCEPT !.skipbody = TRUE] /\ s.ret = "NOSIG" BY <2>3, <2>4 DEF EohList, Is
    <3>2. /\ DOMAIN s.d = HandleFields /\ s.d.sigs = e.sigs /\ s.d.hdrs = e.hdrs /\ s.d.lib = e.lib /\ s.d.mode = e.mode
          /\ s.d.fed = e.fed /\ s.d.bodydone = e.bodydone /\ s.d.tail = e.tail /\ s.d.state = e.state
          /\ s.d.hdrsrun = e.hdrsrun /\ s.d.line = e.line /\ s.d.chunk = e.chunk
      BY <1>1, <3>1 DEF HandleFields
    <3>3. IsField(s.d.line, DOMAIN ans) BY <3>2 DEF HandleOK
    <3>4. HandleOK(s.d, ans, q) BY <1>1, <3>2, <3>3, HandleLater
    <3>. QED BY <3>1, <3>2, <3>4
  <2>5. CASE sigs # <<>>
    <3>. DEFINE fails == e.lib.tmpfail /\ \E i \in 1..Len(sigs) : sigs[i].canon
                Listed(canons) == [e EXCEPT !.siglist = TRUE, !.sigs = sigs, !.canons = canons]
    <3>1. s = Is(Listed(IF fails THEN "broken" ELSE "ready"), IF fails THEN "NORESOURCE" ELSE "OK")
      BY <2>3, <2>5 DEF EohList
    <3>2. \E canons, st : s = Is(Listed(canons), st) /\ st \in {"OK", "NORESOURCE"}
      <4>1. CASE fails BY <3>1, <4>1
      <4>2. CASE ~fails BY <3>1, <4>2
      <4>. QED BY <4>1, <4>2
    <3>3. PICK canons, st : s = Is(Listed(canons), st) /\ st \in {"OK", "NORESOURCE"} BY <3>2
    <3>4. s.d = [e EXCEPT !.siglist = TRUE, !.sigs = sigs, !.canons = canons] /\ s.ret \in {"OK", "NORESOURCE"}
      BY <3>3 DEF Is
    <3>5. /\ DOMAIN s.d = HandleFields /\ s.d.sigs = sigs /\ s.d.hdrs = e.hdrs /\ s.d.lib = e.lib /\ s.d.mode = e.mode
          /\ s.d.fed = e.fed /\ s.d.bodydone = e.bodydone /\ s.d.tail = e.tail /\ s.d.state = e.state
          /\ s.d.hdrsrun = e.hdrsrun /\ s.d.line = e.line /\ s.d.chunk = e.chunk
      BY <1>1, <3>4 DEF HandleFields
    <3>6. \A j \in 1..Len(sigs) : SigOK(s.d, sigs[j], ans, q)
      <4>1. TAKE j \in 1..Len(sigs)
      <4>2. SigOK(e, sigs[j], ans, q) BY <2>2 DEF FreshList
      <4>. QED BY <3>5, <4>2, SigOKLater
    <3>7. AllMade(s.d) BY <2>2, <3>5 DEF AllMade, FreshList
    <3>8. ListOK(s.d) /\ SigsOK(s.d, ans, q) BY <2>2, <3>5, <3>6 DEF ListOK, SigsOK, FreshList
    <3>9. ~(s.d.state <= HEADER) BY <3>5 DEF EOH1, HEADER
    <3>. QED BY <1>1, <3>4, <3>5, <3>7, <3>8, <3>9 DEF HandleOK
  <2>. QED BY <2>4, <2>5
<1>. QED BY <1>2, <1>3

\* The headers are run.
LEMMA EohDecideFacts ==
    ASSUME NEW e, NEW ans, NEW q \in BOOLEAN, HandleOK(e, ans, q), e.state = EOH2, AllMade(e), Records(ans),
           NEW w, Honest(w, ans, q), NEW r, r = EohDecide(e, w), r.ret # "ABORT"
    PROVE  HandleOK(r.d, ans, q) /\ AllMade(r.d)
<1>1. DOMAIN e = HandleFields /\ e.state \in Nat BY HandleFacts
<1>2. CASE \A i \in 1..Len(e.sigs) : e.sigs[i].ignore
  <2>1. r.d = [e EXCEPT !.skipbody = TRUE] BY <1>2 DEF EohDecide, Is
  <2>2. /\ DOMAIN r.d = HandleFields /\ r.d.sigs = e.sigs /\ r.d.hdrs = e.hdrs /\ r.d.lib = e.lib /\ r.d.mode = e.mode
        /\ r.d.fed = e.fed /\ r.d.bodydone = e.bodydone /\ r.d.tail = e.tail /\ r.d.state = e.state
        /\ r.d.hdrsrun = e.hdrsrun /\ r.d.line = e.line /\ r.d.chunk = e.chunk
    BY <1>1, <2>1 DEF HandleFields
  <2>3. IsField(r.d.line, DOMAIN ans) /\ (e.bodydone => e.state >= EOM1) /\ (e.hdrsrun => e.state >= EOH2)
    BY <2>2 DEF HandleOK
  <2>4. AllMade(r.d) BY <2>2 DEF AllMade, Made
  <2>. QED BY <1>1, <2>2, <2>3, <2>4, HandleLater
<1>3. CASE ~(\A i \in 1..Len(e.sigs) : e.sigs[i].ignore)
  <2>1. PICK run : run = [e EXCEPT !.hdrsrun = TRUE] OBVIOUS
  <2>2. /\ DOMAIN run = HandleFields /\ run.sigs = e.sigs /\ run.hdrs = e.hdrs /\ run.lib = e.lib /\ run.mode = e.mode
        /\ run.fed = e.fed /\ run.bodydone = e.bodydone /\ run.tail = e.tail /\ run.state = e.state
        /\ run.hdrsrun = TRUE /\ run.line = e.line /\ run.chunk = e.chunk
    BY <1>1, <2>1 DEF HandleFields
  <2>3. IsField(run.line, DOMAIN ans) /\ (e.bodydone => e.state >= EOM1) BY <2>2 DEF HandleOK
  <2>4. e.state <= run.state /\ run.state >= EOH2 /\ run.state \in Nat BY <1>1, <2>2 DEF EOH2
  <2>5. HandleOK(run, ans, q) /\ AllMade(run)
    <3>1. HandleOK(run, ans, q) BY <2>2, <2>3, <2>4, HandleLater
    <3>. QED BY <2>2, <3>1 DEF AllMade, Made
  <2>6. r = EohCheck(IF e.lib.delay THEN Is(run, "OK") ELSE ProcessAll(run, w)) BY <1>3, <2>1 DEF EohDecide, Abort
  <2>7. r.d = run \/ r.d = ProcessAll(run, w).d BY <2>6 DEF EohCheck, Is
  <2>8. HandleOK(ProcessAll(run, w).d, ans, q) /\ AllMade(ProcessAll(run, w).d)
    <3>1. PICK f : f = ProcessAll(run, w).d OBVIOUS
    <3>2. ListOK(run) /\ SigsOK(run, ans, q) BY <2>5, HandleFacts
    <3>3. Alike(f, run, ans, q) BY <3>1, <3>2, ProcessAllFacts
    <3>4. ListOK(f) /\ SigsOK(f, ans, q) /\ Len(f.sigs) = Len(run.sigs) /\ SameHandle(f, run) BY <3>3, AlikeOK
    <3>5. IsSeq(f.sigs) /\ (AllMade(run) => AllMade(f)) BY <3>3 DEF Alike
    <3>. QED BY <2>5, <3>1, <3>4, <3>5, HandleSigs
  <2>. QED BY <2>5, <2>7, <2>8
<1>. QED BY <1>2, <1>3

LEMMA EohListedFacts ==
    ASSUME NEW s, NEW ans, NEW q \in BOOLEAN, HandleOK(s.d, ans, q), s.d.state = EOH1, Records(ans),
           s.ret # "ABORT", NEW w, Honest(w, ans, q), NEW cb, NEW r, r = EohListed(s, cb, w), r.ret # "ABORT"
    PROVE  HandleOK(r.d, ans, q) /\ AllMade(r.d)
<1>1. CASE s.ret # "OK"
  <2>1. r = s BY <1>1 DEF EohListed
  <2>. QED BY <2>1, HandleFacts DEF EOH1, EOH2
<1>2. CASE s.ret = "OK"
  <2>1. PICK f : f = IF s.d.lib.prescreen THEN Heard(s.d, cb, w) ELSE s.d OBVIOUS
  <2>2. HandleOK(f, ans, q) /\ f.state = EOH1
    <3>1. CASE ~s.d.lib.prescreen BY <2>1, <3>1
    <3>2. CASE s.d.lib.prescreen
      <4>1. ListOK(s.d) /\ SigsOK(s.d, ans, q) BY HandleFacts
      <4>2. f = Heard(s.d, cb, w) BY <2>1, <3>2
      <4>3. /\ SameHandle(f, s.d) /\ IsSeq(f.sigs) /\ Len(f.sigs) = Len(s.d.sigs)
            /\ SigsOK(f, ans, q) /\ (AllMade(s.d) => AllMade(f))
        BY <4>1, <4>2, HeardFacts
      <4>4. HandleOK(f, ans, q) BY <4>3, HandleSigs
      <4>. QED BY <4>3, <4>4 DEF SameHandle
    <3>. QED BY <3>1, <3>2
  <2>3. r = EohScreened(f, cb, w) BY <1>2, <2>1 DEF EohListed
  <2>4. CASE f.lib.prescreen /\ cb.st # "CONTINUE"
    <3>1. r.d = f BY <2>3, <2>4 DEF EohScreened, Is
    <3>. QED BY <2>2, <3>1, HandleFacts DEF EOH1, EOH2
  <2>5. CASE ~(f.lib.prescreen /\ cb.st # "CONTINUE")
    <3>1. PICK g : g = [f EXCEPT !.state = EOH2] OBVIOUS
    <3>2. r = EohDecide(g, w) BY <2>3, <2>5, <3>1 DEF EohScreened
    <3>3. DOMAIN f = HandleFields /\ f.state \in Nat /\ AllMade(f) /\ ~f.hdrsrun /\ ~f.bodydone
      BY <2>2, HandleFacts DEF EOH1, EOH2
    <3>4. /\ DOMAIN g = HandleFields /\ g.sigs = f.sigs /\ g.hdrs = f.hdrs /\ g.lib = f.lib /\ g.mode = f.mode
          /\ g.fed = f.fed /\ g.bodydone = f.bodydone /\ g.tail = f.tail /\ g.state = EOH2
          /\ g.hdrsrun = f.hdrsrun /\ g.line = f.line /\ g.chunk = f.chunk
      BY <3>1, <3>3 DEF HandleFields
    <3>5. IsField(g.line, DOMAIN ans) BY <2>2, <3>4 DEF HandleOK
    <3>6. g.state \in Nat /\ f.state <= g.state BY <2>2, <3>4 DEF EOH1, EOH2
    <3>7. HandleOK(g, ans, q) BY <2>2, <3>3, <3>4, <3>5, <3>6, HandleLater
    <3>8. AllMade(g) BY <3>3, <3>4 DEF AllMade, Made
    <3>. QED BY <3>2, <3>4, <3>7, <3>8, EohDecideFacts
  <2>. QED BY <2>4, <2>5
<1>. QED BY <1>1, <1>2

LEMMA EohVerifyFacts ==
    ASSUME NEW e, NEW ans, NEW q \in BOOLEAN, HandleOK(e, ans, q), e.mode = "verify", Records(ans),
           NEW w, Honest(w, ans, q), NEW cb, NEW r, r = EohVerify(e, cb, w), r.ret # "ABORT"
    PROVE  HandleOK(r.d, ans, q) /\ (AllMade(r.d) \/ r.ret = "INVALID")
<1>1. DOMAIN e = HandleFields /\ e.state \in Nat BY HandleFacts
<1>2. CASE e.state >= EOH2 BY <1>2 DEF EohVerify, Is
<1>3. CASE ~(e.state >= EOH2)
  <2>1. PICK b : b = [e EXCEPT !.state = IF @ < EOH1 THEN EOH1 ELSE @] OBVIOUS
  <2>2. e.state <= EOH1 /\ e.state < EOH2 BY <1>1, <1>3 DEF EOH1, EOH2
  <2>3. b = [e EXCEPT !.state = EOH1]
    <3>1. (IF e.state < EOH1 THEN EOH1 ELSE e.state) = EOH1 BY <1>1, <2>2 DEF EOH1
    <3>. QED BY <2>1, <3>1
  <2>4. \/ r.d = b
        \/ r.d = [b EXCEPT !.state = UNUSABLE]
        \/ r = EohListed(EohSigs([b EXCEPT !.domain = TRUE]), cb, w)
    BY <1>3, <2>1 DEF EohVerify, Is
  <2>5. AllMade(e) /\ ~e.hdrsrun /\ ~e.bodydone BY <2>2, HandleFacts
  <2>6. IsField(e.line, DOMAIN ans) BY DEF HandleOK
  <2>7. ASSUME NEW f,
               \/ f = b \/ f = [b EXCEPT !.state = UNUSABLE] \/ f = [b EXCEPT !.domain = TRUE]
        PROVE  HandleOK(f, ans, q) /\ AllMade(f)
    <3>1. /\ DOMAIN f = HandleFields /\ f.sigs = e.sigs /\ f.hdrs = e.hdrs /\ f.lib = e.lib /\ f.mode = e.mode
          /\ f.fed = e.fed /\ f.bodydone = e.bodydone /\ f.tail = e.tail /\ f.state \in {EOH1, UNUSABLE}
          /\ f.hdrsrun = e.hdrsrun /\ f.line = e.line /\ f.chunk = e.chunk
      BY <1>1, <2>3, <2>7 DEF HandleFields
    <3>2. f.state \in Nat /\ e.state <= f.state BY <1>1, <2>2, <3>1 DEF EOH1, UNUSABLE
    <3>3. AllMade(f) BY <2>5, <3>1 DEF AllMade, Made
    <3>. QED BY <2>5, <2>6, <3>1, <3>2, <3>3, HandleLater
  <2>8. CASE r.d = b \/ r.d = [b EXCEPT !.state = UNUSABLE] BY <2>7, <2>8
  <2>9. CASE r = EohListed(EohSigs([b EXCEPT !.domain = TRUE]), cb, w)
    <3>1. PICK f : f = [b EXCEPT !.domain = TRUE] OBVIOUS
    <3>2. PICK s : s = EohSigs(f) OBVIOUS
    <3>3. HandleOK(f, ans, q) BY <2>7, <3>1
    <3>4. f.state = EOH1 /\ f.mode = "verify" BY <1>1, <2>3, <3>1 DEF HandleFields
    <3>5. HandleOK(s.d, ans, q) /\ s.d.state = EOH1 /\ s.ret # "ABORT" BY <3>2, <3>3, <3>4, EohSigsFacts
    <3>6. r = EohListed(s, cb, w) BY <2>9, <3>1, <3>2
    <3>. QED BY <3>5, <3>6, EohListedFacts
  <2>. QED BY <2>4, <2>8, <2>9
<1>. QED BY <1>2, <1>3

LEMMA EohFacts ==
    ASSUME NEW e, NEW ans, NEW q \in BOOLEAN, HandleOK(e, ans, q), Records(ans), NEW w, Honest(w, ans, q),
           NEW cb, NEW r, r = Eoh(e, cb, w), r.ret # "ABORT"
    PROVE  HandleOK(r.d, ans, q) /\ (AllMade(r.d) \/ r.ret = "INVALID")
<1>1. CASE e.mode = "verify" BY <1>1, EohVerifyFacts DEF Eoh
<1>2. CASE e.mode # "verify"
  <2>1. r = EohSign(e) BY <1>2 DEF Eoh
  <2>2. DOMAIN e = HandleFields /\ e.state \in Nat BY HandleFacts
  <2>3. CASE e.state >= EOH2 BY <2>1, <2>3 DEF EohSign, Is
  <2>4. CASE ~(e.state >= EOH2)
    <3>1. e.state < EOH2 BY <2>2, <2>4 DEF EOH2
    <3>2. AllMade(e) /\ ~e.hdrsrun /\ ~e.bodydone BY <3>1, HandleFacts
    <3>3. IsField(e.line, DOMAIN ans) BY DEF HandleOK
    <3>4. /\ DOMAIN r.d = HandleFields /\ r.d.sigs = e.sigs /\ r.d.hdrs = e.hdrs /\ r.d.lib = e.lib /\ r.d.mode = e.mode
          /\ r.d.fed = e.fed /\ r.d.bodydone = e.bodydone /\ r.d.tail = e.tail /\ r.d.state \in {EOH2, UNUSABLE}
          /\ r.d.line = e.line /\ r.d.chunk = e.chunk
      BY <2>1, <2>2, <2>4 DEF EohSign, Is, HandleFields
    <3>5. r.d.state \in Nat /\ e.state <= r.d.state /\ r.d.state >= EOH2
      BY <2>2, <3>1, <3>4 DEF EOH2, UNUSABLE
    <3>6. AllMade(r.d) BY <3>2, <3>4 DEF AllMade, Made
    <3>. QED BY <3>2, <3>3, <3>4, <3>5, <3>6, HandleLater
  <2>. QED BY <2>3, <2>4
<1>. QED BY <1>1, <1>2

-----------------------------------------------------------------------------
(* dkim_eom().                                                             *)

\* The signature is good if its limit is taken for its l=.
Sound(e, g, a) ==
    /\ g.spec.flaws = {} /\ Made(e, g.spec) /\ KeyUsable(g.spec, a)
    /\ IF g.len = -1 THEN g.spec.over = e.fed ELSE g.len <= e.fed /\ g.spec.over = g.len
    /\ Signs(e, g.spec)

LEMMA SoundIsGenuine ==
    ASSUME NEW e, NEW g, NEW a, g.len = g.spec.l
    PROVE  Sound(e, g, a) <=> Genuine(e, g.spec, a)
<1>1. Signs(e, g.spec) <=> (e.lib.mbs /\ HasHeader(e, "Must") => g.spec.must) BY DEF Signs
<1>2. Made(e, g.spec) <=> g.spec.good /\ (e.tail => g.spec.tailok) BY DEF Made
<1>3. (IF g.len = -1 THEN g.spec.over = e.fed ELSE g.len <= e.fed /\ g.spec.over = g.len)
        <=> BodyIntact(g.spec, e.fed)
  BY DEF BodyIntact
<1>. QED BY <1>1, <1>2, <1>3 DEF Sound, Genuine

\* A signature with every check passed is good.
LEMMA PassedIsSound ==
    ASSUME NEW e, e.fed \in Nat, NEW g, NEW ans, NEW q, SigOK(e, g, ans, q),
           g.passed, Made(e, g.spec), g.error = "OK", g.bh # "MISMATCH"
    PROVE  Sound(e, g, ans[g.spec.key])
<1>. DEFINE a == ans[g.spec.key]
<1>1. g.bh = "MATCH" /\ g.spec.over = Wrote(e, g) /\ ~Beyond(e, g) /\ e.bodydone BY DEF SigOK, HashOK
<1>2. g.len \in Int /\ g.spec.flaws = {} BY DEF SigOK, ErrorOK
<1>3. IF g.len = -1 THEN g.spec.over = e.fed ELSE g.len <= e.fed /\ g.spec.over = g.len
  <2>1. CASE g.len = -1 BY <1>1, <2>1 DEF Wrote
  <2>2. CASE g.len # -1
    <3>1. ~(e.fed < g.len) BY <1>1, <2>2 DEF Beyond
    <3>2. g.len <= e.fed BY <1>2, <3>1
    <3>. QED BY <1>1, <2>2, <3>1, <3>2 DEF Wrote
  <2>. QED BY <2>1, <2>2
<1>4. Usable(g.spec, a) /\ ~(a.rec.strict /\ g.spec.sub) /\ Signs(e, g.spec) BY DEF SigOK, PassedOK
<1>5. KeyUsable(g.spec, a) BY <1>4 DEF KeyUsable, Usable, Readable
<1>. QED BY <1>2, <1>3, <1>4, <1>5 DEF Sound

\* A good signature that was looked at has every check passed.
LEMMA SoundPasses ==
    ASSUME NEW e, e.fed \in Nat, e.bodydone, NEW g, NEW ans, SigOK(e, g, ans, TRUE),
           Sound(e, g, ans[g.spec.key]), g.key # "garbage", g.error # "UNKNOWN"
    PROVE  Passing(g)
<1>. DEFINE a == ans[g.spec.key]
<1>1. g.len \in Int BY DEF SigOK
<1>2. ~Beyond(e, g) /\ g.spec.over = Wrote(e, g)
  <2>1. CASE g.len = -1 BY <2>1 DEF Sound, Beyond, Wrote
  <2>2. CASE g.len # -1
    <3>1. ~(e.fed < g.len) BY <1>1, <2>2 DEF Sound
    <3>. QED BY <2>2, <3>1 DEF Sound, Beyond, Wrote
  <2>. QED BY <2>1, <2>2
<1>3. Usable(g.spec, a) /\ ~(a.rec.strict /\ g.spec.sub) /\ Signs(e, g.spec) /\ Made(e, g.spec)
      /\ g.spec.flaws = {}
  BY DEF Sound, KeyUsable, Usable, Readable
<1>4. g.passed => g.strict = a.rec.strict BY DEF SigOK, PassedOK
<1>5. g.error = "OK"
  <2>1. SUFFICES ASSUME g.error \notin {"UNKNOWN", "OK"} PROVE FALSE OBVIOUS
  <2>2. Justified(e, g, a, TRUE) BY DEF SigOK
  <2>3. g.passed BY <1>2, <1>3, <2>1, <2>2 DEF Justified
  <2>. QED BY <1>2, <1>3, <1>4, <2>1, <2>2, <2>3 DEF Justified
<1>6. g.bh # "UNTESTED" BY <1>5 DEF SigOK, HashOK
<1>7. g.passed /\ g.bh = "MATCH" BY <1>2, <1>6 DEF SigOK, HashOK
<1>. QED BY <1>7 DEF Passing

\* A limit behind the end of the body is an error.
LEMMA TooLargeSig ==
    ASSUME NEW e, e.fed \in Nat, NEW f, f.lib = e.lib, f.hdrs = e.hdrs, f.tail = e.tail, f.hdrsrun = e.hdrsrun,
           f.fed = e.fed, f.bodydone, NEW g, NEW ans, NEW q, SigOK(e, g, ans, q),
           NEW h, h = IF g.canon /\ g.len # -1 /\ Wrote(f, g) < g.len THEN [g EXCEPT !.error = "TOOLARGE_L"] ELSE g
    PROVE  SigOK(f, h, ans, q) /\ h.spec = g.spec /\ h.passed = g.passed
<1>1. DOMAIN g = SigFields /\ g.len \in Int BY DEF SigOK
<1>2. /\ DOMAIN h = SigFields /\ h.spec = g.spec /\ h.processed = g.processed
      /\ h.passed = g.passed /\ h.bh = g.bh /\ h.len = g.len /\ h.canon = g.canon /\ h.key = g.key
      /\ h.b64 = g.b64 /\ h.tags = g.tags /\ h.strict = g.strict
  BY <1>1 DEF SigFields
<1>3. (g.len # -1 /\ Wrote(f, g) < g.len) <=> Beyond(f, g) BY <1>1 DEF Wrote, Beyond
<1>4. h.error = IF g.canon /\ Beyond(f, g) THEN "TOOLARGE_L" ELSE g.error BY <1>1, <1>3 DEF SigFields
<1>5. (Signs(f, g.spec) <=> Signs(e, g.spec)) /\ (Made(f, g.spec) <=> Made(e, g.spec))
  BY DEF Signs, HasHeader, Made
<1>6. Wrote(f, h) = Wrote(e, g) /\ (Beyond(f, h) <=> Beyond(f, g)) /\ (e.bodydone => (Beyond(e, g) <=> Beyond(f, g)))
      /\ (Beyond(e, g) => Beyond(f, g))
  BY <1>2 DEF Wrote, Beyond
<1>7. KeyOK(h, ans[h.spec.key]) BY <1>2 DEF SigOK, KeyOK
<1>8. PassedOK(f, h, ans[h.spec.key]) BY <1>2, <1>4, <1>5 DEF SigOK, PassedOK
<1>9. g.bh # "UNTESTED" => ~Beyond(f, g) BY <1>6 DEF SigOK, HashOK
<1>10. HashOK(f, h) BY <1>2, <1>4, <1>6, <1>9 DEF SigOK, HashOK
<1>11. ErrorOK(f, h) BY <1>2, <1>4, <1>6 DEF SigOK, ErrorOK, Untouched
<1>12. Justified(f, h, ans[h.spec.key], q) BY <1>2, <1>4, <1>5, <1>6, <1>9 DEF SigOK, Justified
<1>. QED BY <1>1, <1>2, <1>7, <1>8, <1>10, <1>11, <1>12 DEF SigOK

LEMMA TooLargeFacts ==
    ASSUME NEW e, NEW ans, NEW q, HandleOK(e, ans, q), e.state = EOM1,
           NEW t, t = TooLarge([e EXCEPT !.bodydone = TRUE])
    PROVE  /\ HandleOK(t, ans, q) /\ t.state = EOM1 /\ t.bodydone /\ t.chunk = e.chunk /\ t.mode = e.mode
           /\ AllMade(e) => AllMade(t)
<1>1. DOMAIN e = HandleFields /\ ListOK(e) /\ Len(e.sigs) \in Nat BY HandleFacts
<1>2. PICK b : b = [e EXCEPT !.bodydone = TRUE] OBVIOUS
<1>3. SameHandle([b EXCEPT !.bodydone = e.bodydone], e) /\ DOMAIN b = HandleFields /\ b.sigs = e.sigs
      /\ b.lib = e.lib /\ b.mode = e.mode /\ b.hdrs = e.hdrs /\ b.tail = e.tail /\ b.hdrsrun = e.hdrsrun /\ b.fed = e.fed
      /\ b.bodydone = TRUE /\ b.state = e.state /\ b.line = e.line /\ b.chunk = e.chunk
  BY <1>1, <1>2 DEF SameHandle, HandleFields
<1>. DEFINE Long(g) == IF g.canon /\ g.len # -1 /\ Wrote(b, g) < g.len THEN [g EXCEPT !.error = "TOOLARGE_L"] ELSE g
<1>4. PICK M : M = [i \in 1..Len(b.sigs) |-> Long(b.sigs[i])] OBVIOUS
<1>5. t = [b EXCEPT !.sigs = M] BY <1>2, <1>4 DEF TooLarge
<1>6. SameHandle(t, b) /\ t.sigs = M BY <1>3, <1>5 DEF SameHandle, HandleFields
<1>7. \A i \in 1..Len(e.sigs) :
        SigOK(t, M[i], ans, q) /\ M[i].spec = e.sigs[i].spec /\ M[i].passed = e.sigs[i].passed
  <2>1. TAKE i \in 1..Len(e.sigs)
  <2>2. SigOK(e, e.sigs[i], ans, q) BY DEF HandleOK, SigsOK
  <2>3. M[i] = Long(e.sigs[i]) BY <1>3, <1>4
  <2>4. e.fed \in Nat BY DEF HandleOK
  <2>5. SigOK(b, M[i], ans, q) /\ M[i].spec = e.sigs[i].spec /\ M[i].passed = e.sigs[i].passed
    BY <1>3, <2>2, <2>3, <2>4, TooLargeSig
  <2>. QED BY <1>6, <2>5, SigOKElsewhere
<1>8. IsSeq(M) /\ Len(M) = Len(e.sigs)
  <2>1. PICK Z : Z = {M[i] : i \in 1..Len(e.sigs)} OBVIOUS
  <2>2. M \in [1..Len(e.sigs) -> Z] BY <1>3, <1>4, <2>1
  <2>3. M \in Seq(Z) /\ Len(M) = Len(e.sigs) BY <1>1, <2>2
  <2>. QED BY <2>3 DEF IsSeq
<1>9. /\ DOMAIN t = HandleFields /\ t.sigs = M /\ t.lib = e.lib /\ t.mode = e.mode /\ t.hdrs = e.hdrs /\ t.tail = e.tail
      /\ t.hdrsrun = e.hdrsrun /\ t.fed = e.fed /\ t.bodydone /\ t.state = EOM1 /\ t.line = e.line /\ t.chunk = e.chunk
      /\ t.chunk = e.chunk /\ t.mode = e.mode
  BY <1>3, <1>6 DEF SameHandle
<1>10. SigsOK(t, ans, q) BY <1>7, <1>8, <1>9 DEF SigsOK
<1>11. AllMade(e) => AllMade(t)
  <2>1. SUFFICES ASSUME AllMade(e), NEW i \in 1..Len(t.sigs), t.sigs[i].passed PROVE Made(t, t.sigs[i].spec)
    BY DEF AllMade
  <2>2. i \in 1..Len(e.sigs) /\ e.sigs[i].passed /\ t.sigs[i].spec = e.sigs[i].spec
    BY <1>7, <1>8, <1>9, <2>1
  <2>3. Made(e, e.sigs[i].spec) BY <2>1, <2>2 DEF AllMade
  <2>. QED BY <1>9, <2>2, <2>3 DEF Made
<1>12. /\ t.state >= EOM1 /\ t.state >= EOH2 /\ ~(t.state <= HEADER) BY <1>9 DEF EOM1, EOH2, HEADER
<1>13. e.sigs = <<>> => M = <<>>
  <2>1. e.sigs = <<>> => Len(M) = 0 BY <1>8
  <2>2. PICK S : M \in Seq(S) BY <1>8 DEF IsSeq
  <2>. QED BY <2>1, <2>2
<1>14. HandleOK(t, ans, q) BY <1>8, <1>9, <1>10, <1>11, <1>12, <1>13 DEF HandleOK, ListOK
<1>. QED BY <1>9, <1>11, <1>14

\* What dkim_eom() answers for a signature.
LEMMA VerdictFacts ==
    ASSUME NEW e, NEW g, NEW ans, NEW q, SigOK(e, g, ans, q)
    PROVE  /\ Verdict(g) = "OK" => g.passed /\ g.bh # "MISMATCH" /\ g.error \in {"UNKNOWN", "OK"}
           /\ Passing(g) => g.error \in {"OK", "SUBDOMAIN", "MBSFAILED"}
           /\ Passing(g) /\ g.error = "OK" => Verdict(g) = "OK"
           /\ Verdict(g) \notin {"INVALID", "ABORT", "none"}
<1>1. Passing(g) => g.error \in {"OK", "SUBDOMAIN", "MBSFAILED"} BY DEF SigOK, Justified, Passing
<1>2. CASE g.error \notin {"OK", "UNKNOWN", "KEYFAIL", "BADSIG", "KEYREVOKED", "NOKEY"}
  <2>1. Verdict(g) = "CANTVRFY" BY <1>2 DEF Verdict
  <2>. QED BY <1>1, <1>2, <2>1
<1>3. CASE g.error = "NOKEY"
  <2>1. Verdict(g) = "NOKEY" BY <1>3 DEF Verdict
  <2>. QED BY <1>1, <1>3, <2>1
<1>4. CASE g.error = "KEYFAIL"
  <2>1. Verdict(g) = "KEYFAIL" BY <1>4 DEF Verdict
  <2>. QED BY <1>1, <1>4, <2>1
<1>5. CASE g.error = "KEYREVOKED"
  <2>1. Verdict(g) = "REVOKED" BY <1>5 DEF Verdict
  <2>. QED BY <1>1, <1>5, <2>1
<1>6. CASE g.error \in {"OK", "UNKNOWN", "BADSIG"}
  <2>1. Verdict(g) = IF ~g.passed \/ g.bh = "MISMATCH" \/ g.error = "BADSIG" THEN "BADSIG" ELSE "OK"
    BY <1>6 DEF Verdict
  <2>. QED BY <1>1, <1>6, <2>1 DEF Passing
<1>. QED BY <1>2, <1>3, <1>4, <1>5, <1>6

\* Pick names a wanted signature that is not ignored, if there is one.
LEMMA PickFacts ==
    ASSUME NEW e, Len(e.sigs) \in Nat, NEW wanted, wanted \subseteq 1..Len(e.sigs)
    PROVE  /\ Pick(e, wanted) \in 0..Len(e.sigs)
           /\ Pick(e, wanted) # 0 => Pick(e, wanted) \in wanted /\ ~e.sigs[Pick(e, wanted)].ignore
           /\ Pick(e, wanted) = 0 => \A i \in wanted : e.sigs[i].ignore
<1>. DEFINE hits == {i \in wanted : ~e.sigs[i].ignore}
<1>. DEFINE n == Len(e.sigs)
<1>1. CASE hits = {}
  <2>1. Pick(e, wanted) = 0 BY <1>1 DEF Pick
  <2>2. \A i \in wanted : e.sigs[i].ignore BY <1>1
  <2>. QED BY <2>1, <2>2
<1>2. CASE hits # {}
  <2>1. hits \subseteq Nat
    <3>1. \A i \in 1..n : i \in Nat OBVIOUS
    <3>. QED BY <3>1
  <2>2. \E i \in hits : \A j \in hits : ~(j < i)
    <3>. HIDE DEF hits
    <3>. QED BY <1>2, <2>1, Least
  <2>3. \E i \in hits : \A j \in hits : i <= j BY <2>2
  <2>4. Pick(e, wanted) = CHOOSE i \in hits : \A j \in hits : i <= j BY <1>2 DEF Pick
  <2>5. PICK p : p = Pick(e, wanted) OBVIOUS
  <2>6. p \in hits BY <2>3, <2>4, <2>5
  <2>7. p \in 1..n /\ p \in wanted /\ ~e.sigs[p].ignore BY <2>6
  <2>8. p \in 0..n /\ p # 0 BY <2>7
  <2>. QED BY <2>5, <2>7, <2>8
<1>. QED BY <1>1, <1>2

\* The signature that decides the message: one that passes, or all were
\* tried in vain and it is the first that is not ignored.
LEMMA ChoiceFacts ==
    ASSUME NEW e, ListOK(e), NEW ans, NEW q \in BOOLEAN, SigsOK(e, ans, q), Records(ans),
           NEW w, Honest(w, ans, q), NEW r, r = Choice(e, w)
    PROVE  /\ Alike(r.d, e, ans, q) /\ r.n \in 0..Len(e.sigs)
           /\ r.n # 0 => ~r.d.sigs[r.n].ignore
           /\ r.n = 0 => \A j \in 1..Len(e.sigs) : r.d.sigs[j].ignore
           /\ \/ r.n # 0 /\ Passing(r.d.sigs[r.n])
              \/ \A j \in 1..Len(e.sigs) : ~r.d.sigs[j].ignore => Tested(e, r.d.sigs[j], ans, q)
<1>1. Alike(e, e, ans, q) /\ Len(e.sigs) \in Nat BY AlikeSelf
<1>2. PICK p : p = Pick(e, PassingOnes(e)) OBVIOUS
<1>3. PassingOnes(e) \subseteq 1..Len(e.sigs) /\ \A i \in PassingOnes(e) : Passing(e.sigs[i]) BY DEF PassingOnes
<1>4. p \in 0..Len(e.sigs) /\ (p # 0 => p \in PassingOnes(e) /\ ~e.sigs[p].ignore)
  BY <1>1, <1>2, <1>3, PickFacts
<1>5. CASE p # 0
  <2>1. r = [d |-> e, n |-> p] BY <1>2, <1>5 DEF Choice
  <2>2. r.d = e /\ r.n = p BY <2>1
  <2>. QED BY <1>1, <1>3, <1>4, <1>5, <2>2
<1>6. CASE p = 0
  <2>1. PICK x : x = RunUntilPass(e, w) OBVIOUS
  <2>2. Alike(x.d, e, ans, q) /\ Chose(x.d, x.n, Len(e.sigs), e, ans, q) BY <2>1, RunUntilPassFacts
  <2>3. r = OrFirst(x) BY <1>2, <1>6, <2>1 DEF Choice
  <2>4. CASE x.n # 0
    <3>1. r = x BY <2>3, <2>4 DEF OrFirst
    <3>. QED BY <2>2, <2>4, <3>1 DEF Chose
  <2>5. CASE x.n = 0
    <3>1. PICK y : y = Pick(x.d, 1..Len(x.d.sigs)) OBVIOUS
    <3>2. DOMAIN x = {"d", "n"} BY <2>1, RunUntilPassFacts
    <3>3. r.d = x.d /\ r.n = y BY <2>3, <2>5, <3>1, <3>2 DEF OrFirst
    <3>4. Len(x.d.sigs) = Len(e.sigs) BY <2>2, AlikeOK
    <3>5. /\ y \in 0..Len(e.sigs) /\ (y # 0 => ~x.d.sigs[y].ignore)
          /\ y = 0 => \A j \in 1..Len(e.sigs) : x.d.sigs[j].ignore
      BY <1>1, <3>1, <3>4, PickFacts
    <3>. QED BY <2>2, <2>5, <3>3, <3>5 DEF Chose
  <2>. QED BY <2>4, <2>5
<1>. QED BY <1>4, <1>5, <1>6

\* What dkim_eom() promises of the signature it names when it answers OK, and
\* of the good ones when it answers something else.
GoodVerdict(e, ans) ==
    /\ e.signature \in 1..Len(e.sigs) /\ ~e.sigs[e.signature].ignore /\ e.hdrsrun
    /\ Sound(e, e.sigs[e.signature], ans[e.sigs[e.signature].spec.key])
Excused(e) == Passing(e.sigs[e.signature]) /\ e.sigs[e.signature].error \in {"SUBDOMAIN", "MBSFAILED"}
Decisive(e, ret, ans) ==
    \A i \in 1..Len(e.sigs) :
        Sound(e, e.sigs[i], ans[e.sigs[i].spec.key]) /\ ~e.sigs[i].ignore /\ e.sigs[i].key # "garbage" =>
            ret = "OK" \/ Excused(e)

LEMMA EomDecideFacts ==
    ASSUME NEW e, NEW ans, NEW q \in BOOLEAN, HandleOK(e, ans, q), Records(ans), AllMade(e),
           e.state = EOM1, e.bodydone, NEW w, Honest(w, ans, q), NEW r, r = EomDecide(e, w)
    PROVE  /\ HandleOK(r.d, ans, q) /\ r.d.mode = e.mode
           /\ r.ret = "OK" => GoodVerdict(r.d, ans)
           /\ q /\ r.d.hdrsrun => Decisive(r.d, r.ret, ans)
<1>1. DOMAIN e = HandleFields /\ e.state \in Nat BY HandleFacts
<1>2. PICK b : b = [e EXCEPT !.state = EOM2] OBVIOUS
<1>3. /\ DOMAIN b = HandleFields /\ b.sigs = e.sigs /\ b.hdrs = e.hdrs /\ b.lib = e.lib /\ b.mode = e.mode /\ b.fed = e.fed
      /\ b.bodydone = e.bodydone /\ b.tail = e.tail /\ b.state = EOM2 /\ b.hdrsrun = e.hdrsrun
      /\ b.line = e.line /\ b.chunk = e.chunk
  BY <1>1, <1>2 DEF HandleFields
<1>4. IsField(b.line, DOMAIN ans) /\ b.state \in Nat /\ e.state <= b.state /\ b.state >= EOM1 /\ b.state >= EOH2
  BY <1>3 DEF HandleOK, EOM1, EOM2, EOH2
<1>5. HandleOK(b, ans, q) /\ AllMade(b)
  <2>1. HandleOK(b, ans, q) BY <1>3, <1>4, HandleLater
  <2>. QED BY <1>3, <2>1 DEF AllMade, Made
<1>6. ListOK(b) /\ SigsOK(b, ans, q) /\ Len(b.sigs) \in Nat /\ b.fed \in Nat BY <1>5, HandleFacts DEF HandleOK
<1>7. PICK c : c = Choice(b, w) OBVIOUS
<1>8. /\ Alike(c.d, b, ans, q) /\ c.n \in 0..Len(b.sigs)
      /\ c.n # 0 => ~c.d.sigs[c.n].ignore
      /\ c.n = 0 => \A j \in 1..Len(b.sigs) : c.d.sigs[j].ignore
      /\ \/ c.n # 0 /\ Passing(c.d.sigs[c.n])
         \/ \A j \in 1..Len(b.sigs) : ~c.d.sigs[j].ignore => Tested(b, c.d.sigs[j], ans, q)
  BY <1>6, <1>7, ChoiceFacts
<1>9. PICK f : f = c.d OBVIOUS
<1>10. /\ ListOK(f) /\ SigsOK(f, ans, q) /\ Len(f.sigs) = Len(b.sigs) /\ SameHandle(f, b)
       /\ IsSeq(f.sigs) /\ AllMade(f)
  BY <1>5, <1>8, <1>9, AlikeOK DEF Alike
<1>11. HandleOK(f, ans, q) BY <1>5, <1>10, HandleSigs
<1>12. r = Chosen(c) BY <1>2, <1>7 DEF EomDecide
<1>13. \/ c.n = 0 /\ r.d = f /\ r.ret = "NOSIG"
       \/ c.n # 0 /\ r.d = [f EXCEPT !.signature = c.n] /\ r.ret = Verdict(f.sigs[c.n])
  BY <1>9, <1>12 DEF Chosen, Is
<1>14. PICK z : z = r.d OBVIOUS
<1>15. /\ DOMAIN z = HandleFields /\ z.sigs = f.sigs /\ z.hdrs = f.hdrs /\ z.lib = f.lib /\ z.mode = f.mode /\ z.fed = f.fed
       /\ z.bodydone = f.bodydone /\ z.tail = f.tail /\ z.state = f.state /\ z.hdrsrun = f.hdrsrun
       /\ z.line = f.line /\ z.chunk = f.chunk /\ (c.n # 0 => z.signature = c.n)
  BY <1>10, <1>13, <1>14 DEF ListOK, HandleFields
<1>16. HandleOK(z, ans, q)
  <2>1. IsField(z.line, DOMAIN ans) /\ f.state \in Nat /\ (f.bodydone => f.state >= EOM1) /\ (f.hdrsrun => f.state >= EOH2)
    BY <1>11, <1>15 DEF HandleOK
  <2>2. f.state <= z.state BY <1>15, <2>1
  <2>. QED BY <1>10, <1>11, <1>15, <2>1, <2>2, HandleLater
<1>17. \A j \in 1..Len(f.sigs) : SigOK(f, f.sigs[j], ans, q) BY <1>10 DEF SigsOK
<1>18. f.bodydone /\ f.fed \in Nat /\ f.hdrsrun = b.hdrsrun /\ f.mode = e.mode BY <1>3, <1>6, <1>10 DEF SameHandle
<1>19. ASSUME NEW j
       PROVE  Sound(z, f.sigs[j], ans[f.sigs[j].spec.key]) <=> Sound(f, f.sigs[j], ans[f.sigs[j].spec.key])
  BY <1>15 DEF Sound, Made, Signs, HasHeader
<1>20. ASSUME r.ret = "OK" PROVE GoodVerdict(z, ans)
  <2>1. PICK g : g = f.sigs[c.n] OBVIOUS
  <2>2. c.n \in 1..Len(f.sigs) /\ Verdict(g) = "OK" BY <1>8, <1>10, <1>13, <1>20, <2>1
  <2>3. SigOK(f, g, ans, q) /\ ~g.ignore BY <1>8, <1>9, <1>17, <2>1, <2>2
  <2>4. g.passed /\ g.bh # "MISMATCH" /\ g.error \in {"UNKNOWN", "OK"} BY <2>2, <2>3, VerdictFacts
  <2>5. g.error # "UNKNOWN"
    <3>1. CASE Passing(g) BY <2>3, <3>1, VerdictFacts
    <3>2. CASE ~Passing(g)
      <4>1. Tested(b, g, ans, q) BY <1>8, <1>9, <1>10, <2>1, <2>2, <2>3, <3>2
      <4>. QED BY <1>3, <2>4, <4>1 DEF Tested
    <3>. QED BY <3>1, <3>2
  <2>6. Made(f, g.spec) BY <1>10, <2>1, <2>2, <2>4 DEF AllMade
  <2>7. Sound(f, g, ans[g.spec.key]) BY <1>18, <2>3, <2>4, <2>5, <2>6, PassedIsSound
  <2>8. z.hdrsrun BY <1>15, <2>3, <2>4 DEF SigOK, PassedOK, ErrorOK
  <2>. QED BY <1>15, <1>19, <2>1, <2>2, <2>3, <2>7, <2>8 DEF GoodVerdict
<1>21. ASSUME q, z.hdrsrun PROVE Decisive(z, r.ret, ans)
  <2>1. SUFFICES ASSUME NEW i \in 1..Len(f.sigs), Sound(f, f.sigs[i], ans[f.sigs[i].spec.key]),
                        ~f.sigs[i].ignore, f.sigs[i].key # "garbage"
                 PROVE  r.ret = "OK" \/ Excused(z)
    BY <1>15, <1>19 DEF Decisive
  <2>2. PICK g : g = f.sigs[i] OBVIOUS
  <2>3. SigOK(f, g, ans, q) BY <1>17, <2>2
  <2>4. ~Tested(b, g, ans, q)
    <3>1. SUFFICES ASSUME Tested(b, g, ans, q) PROVE FALSE OBVIOUS
    <3>2. ans[g.spec.key].st = "OK" BY <2>1, <2>2 DEF Sound, KeyUsable
    <3>3. g.error # "UNKNOWN" /\ ~Passing(g) BY <1>3, <1>15, <1>18, <1>21, <3>1, <3>2 DEF Tested
    <3>4. SigOK(f, g, ans, TRUE) BY <1>21, <2>3
    <3>. QED BY <1>18, <2>1, <2>2, <3>3, <3>4, SoundPasses
  <2>5. c.n # 0 /\ Passing(f.sigs[c.n]) BY <1>8, <1>9, <1>10, <2>1, <2>2, <2>4
  <2>6. PICK h : h = f.sigs[c.n] OBVIOUS
  <2>7. SigOK(f, h, ans, q) /\ Passing(h) BY <1>8, <1>10, <1>17, <2>5, <2>6
  <2>8. h.error \in {"OK", "SUBDOMAIN", "MBSFAILED"} /\ (h.error = "OK" => Verdict(h) = "OK") BY <2>7, VerdictFacts
  <2>. QED BY <1>13, <1>15, <2>5, <2>6, <2>7, <2>8 DEF Excused
<1>. QED BY <1>14, <1>15, <1>16, <1>18, <1>20, <1>21

LEMMA EomVerifyFacts ==
    ASSUME NEW e, NEW ans, NEW q \in BOOLEAN, HandleOK(e, ans, q), Records(ans), NEW w, Honest(w, ans, q),
           NEW cb, NEW r, r = EomVerify(e, cb, w), r.ret # "ABORT"
    PROVE  /\ HandleOK(r.d, ans, q) /\ r.d.mode = e.mode
           /\ r.ret = "OK" => GoodVerdict(r.d, ans)
           /\ q /\ r.ret # "INVALID" /\ r.d.state = EOM2 /\ r.d.hdrsrun => Decisive(r.d, r.ret, ans)
<1>1. DOMAIN e = HandleFields /\ e.state \in Nat BY HandleFacts
<1>2. CASE e.state >= EOM2
  <2>1. r = Is(e, "INVALID") BY <1>2 DEF EomVerify
  <2>. QED BY <2>1 DEF Is
<1>3. CASE ~(e.state >= EOM2)
  <2>1. PICK b : b = [e EXCEPT !.state = IF @ < EOM1 THEN EOM1 ELSE @] OBVIOUS
  <2>2. e.state <= EOM1 BY <1>1, <1>3 DEF EOM1, EOM2
  <2>3. b = [e EXCEPT !.state = EOM1]
    <3>1. (IF e.state < EOM1 THEN EOM1 ELSE e.state) = EOM1 BY <1>1, <2>2 DEF EOM1
    <3>. QED BY <2>1, <3>1
  <2>4. /\ DOMAIN b = HandleFields /\ b.sigs = e.sigs /\ b.hdrs = e.hdrs /\ b.lib = e.lib /\ b.mode = e.mode /\ b.fed = e.fed
        /\ b.bodydone = e.bodydone /\ b.tail = e.tail /\ b.state = EOM1 /\ b.hdrsrun = e.hdrsrun
        /\ b.line = e.line /\ b.chunk = e.chunk
    BY <1>1, <2>3 DEF HandleFields
  <2>5. IsField(b.line, DOMAIN ans) /\ b.state \in Nat /\ e.state <= b.state /\ b.state >= EOM1 /\ b.state >= EOH2
    BY <2>2, <2>4 DEF HandleOK, EOM1, EOH2
  <2>6. HandleOK(b, ans, q)
    <3>1. (b.chunk = "HEADER" /\ b.state >= EOH2) \/ AllMade(e) BY <2>4, <2>5 DEF HandleOK
    <3>. QED BY <2>4, <2>5, <3>1, HandleLater
  <2>7. CASE e.chunk \notin {"INIT", "DONE"}
    <3>1. r = Is(b, "INVALID") BY <1>3, <2>1, <2>7 DEF EomVerify
    <3>. QED BY <2>4, <2>6, <3>1 DEF Is
  <2>8. CASE e.chunk \in {"INIT", "DONE"} /\ e.canons = "broken"
    <3>1. r = Abort(b) BY <1>3, <2>1, <2>8 DEF EomVerify
    <3>. QED BY <3>1 DEF Abort
  <2>9. CASE e.chunk \in {"INIT", "DONE"} /\ e.canons # "broken" /\ e.sigs = <<>>
    <3>1. PICK f : f = [b EXCEPT !.bodydone = TRUE] OBVIOUS
    <3>2. r = EomUnsigned(f) BY <1>3, <2>1, <2>9, <3>1 DEF EomVerify
    <3>3. r.ret \in {"NOSIG", "CANTVRFY"} /\ (r.d = f \/ r.d = [f EXCEPT !.domain = TRUE])
      BY <3>2 DEF EomUnsigned, Is
    <3>4. /\ DOMAIN r.d = HandleFields /\ r.d.sigs = <<>> /\ r.d.hdrs = b.hdrs /\ r.d.lib = b.lib /\ r.d.mode = b.mode
          /\ r.d.fed = b.fed /\ r.d.bodydone = TRUE /\ r.d.tail = b.tail /\ r.d.state = EOM1
          /\ r.d.hdrsrun = b.hdrsrun /\ r.d.line = b.line /\ r.d.chunk = b.chunk
      <4>1. /\ DOMAIN f = HandleFields /\ f.sigs = <<>> /\ f.hdrs = b.hdrs /\ f.lib = b.lib /\ f.mode = b.mode
            /\ f.fed = b.fed /\ f.bodydone = TRUE /\ f.tail = b.tail /\ f.state = EOM1
            /\ f.hdrsrun = b.hdrsrun /\ f.line = b.line /\ f.chunk = b.chunk
        BY <2>4, <2>9, <3>1 DEF HandleFields
      <4>2. CASE r.d = f BY <4>1, <4>2
      <4>3. CASE r.d = [f EXCEPT !.domain = TRUE] BY <4>1, <4>3 DEF HandleFields
      <4>. QED BY <3>3, <4>2, <4>3
    <3>5. <<>> \in Seq({}) /\ Len(<<>>) = 0 OBVIOUS
    <3>6. ListOK(r.d) /\ SigsOK(r.d, ans, q) /\ AllMade(r.d)
      BY <3>4, <3>5 DEF ListOK, SigsOK, AllMade, IsSeq
    <3>7. HandleOK(r.d, ans, q) BY <2>4, <2>5, <2>6, <3>4, <3>6 DEF HandleOK
    <3>8. r.d.state # EOM2 BY <3>4 DEF EOM1, EOM2
    <3>. QED BY <2>4, <3>3, <3>4, <3>7, <3>8
  <2>10. CASE e.chunk \in {"INIT", "DONE"} /\ e.canons # "broken" /\ e.sigs # <<>>
    <3>1. PICK t : t = TooLarge([b EXCEPT !.bodydone = TRUE]) OBVIOUS
    <3>2. AllMade(b) BY <2>4, <2>6, <2>10 DEF HandleOK
    <3>3. HandleOK(t, ans, q) /\ t.state = EOM1 /\ t.bodydone /\ AllMade(t) /\ t.mode = e.mode
      BY <2>4, <2>6, <3>1, <3>2, TooLargeFacts
    <3>4. PICK f : f = IF e.lib.final THEN Heard(t, cb, w) ELSE t OBVIOUS
    <3>5. r = EomFinal(f, cb, w)
      BY <1>3, <2>1, <2>10, <3>1, <3>4 DEF EomVerify
    <3>6. HandleOK(f, ans, q) /\ f.state = EOM1 /\ f.bodydone /\ AllMade(f) /\ f.mode = e.mode
      <4>1. CASE ~e.lib.final BY <3>3, <3>4, <4>1
      <4>2. CASE e.lib.final
        <5>1. ListOK(t) /\ SigsOK(t, ans, q) BY <3>3, HandleFacts
        <5>2. f = Heard(t, cb, w) BY <3>4, <4>2
        <5>3. /\ SameHandle(f, t) /\ IsSeq(f.sigs) /\ Len(f.sigs) = Len(t.sigs)
              /\ SigsOK(f, ans, q) /\ (AllMade(t) => AllMade(f))
          BY <5>1, <5>2, HeardFacts
        <5>4. HandleOK(f, ans, q) BY <3>3, <5>3, HandleSigs
        <5>. QED BY <3>3, <5>3, <5>4 DEF SameHandle
      <4>. QED BY <4>1, <4>2
    <3>7. CASE f.lib.final /\ cb.st # "CONTINUE"
      <4>1. r = Is(f, CallbackStatus(cb.st)) BY <3>5, <3>7 DEF EomFinal
      <4>2. CallbackStatus(cb.st) # "OK" BY DEF CallbackStatus
      <4>3. f.state # EOM2 BY <3>6 DEF EOM1, EOM2
      <4>. QED BY <3>6, <4>1, <4>2, <4>3 DEF Is
    <3>8. CASE ~(f.lib.final /\ cb.st # "CONTINUE")
      <4>1. r = EomDecide(f, w) BY <3>5, <3>8 DEF EomFinal
      <4>. QED BY <3>6, <4>1, EomDecideFacts
    <3>. QED BY <3>7, <3>8
  <2>. QED BY <2>7, <2>8, <2>9, <2>10
<1>. QED BY <1>2, <1>3

LEMMA EomFacts ==
    ASSUME NEW e, NEW ans, NEW q \in BOOLEAN, HandleOK(e, ans, q), Records(ans), NEW w, Honest(w, ans, q),
           NEW cb, NEW r, r = Eom(e, cb, w), r.ret # "ABORT"
    PROVE  /\ HandleOK(r.d, ans, q) /\ r.d.mode = e.mode
           /\ e.mode = "verify" /\ r.ret = "OK" => GoodVerdict(r.d, ans)
           /\ e.mode = "verify" /\ q /\ r.ret # "INVALID" /\ r.d.state = EOM2 /\ r.d.hdrsrun =>
                Decisive(r.d, r.ret, ans)
<1>1. CASE e.mode = "verify"
  <2>1. r = EomVerify(e, cb, w) BY <1>1 DEF Eom
  <2>. QED BY <2>1, EomVerifyFacts
<1>2. CASE e.mode # "verify"
  <2>1. r = EomSign(e, w) BY <1>2 DEF Eom
  <2>2. DOMAIN e = HandleFields /\ e.state \in Nat BY HandleFacts
  <2>3. CASE e.state >= EOM2
    <3>1. r = Is(e, "INVALID") BY <2>1, <2>3 DEF EomSign
    <3>. QED BY <1>2, <3>1 DEF Is
  <2>4. CASE ~(e.state >= EOM2)
    <3>1. PICK b : b = [e EXCEPT !.state = EOM2] OBVIOUS
    <3>2. \/ r.d = b
          \/ e.chunk # "HEADER" /\ r.d = [b EXCEPT !.bodydone = TRUE]
          \/ e.chunk # "HEADER" /\ r.d = [b EXCEPT !.bodydone = TRUE, !.signature = 1, !.signed = TRUE]
      BY <2>1, <2>4, <3>1 DEF EomSign, Is, Abort
    <3>3. /\ DOMAIN r.d = HandleFields /\ r.d.sigs = e.sigs /\ r.d.hdrs = e.hdrs /\ r.d.lib = e.lib /\ r.d.mode = e.mode
          /\ r.d.fed = e.fed /\ r.d.tail = e.tail /\ r.d.state = EOM2 /\ r.d.hdrsrun = e.hdrsrun
          /\ r.d.line = e.line /\ r.d.chunk = e.chunk
      BY <2>2, <3>1, <3>2 DEF HandleFields
    <3>4. e.sigs = <<>> /\ r.d.sigs = <<>> BY <1>2, <3>3 DEF HandleOK
    <3>5. r.d.state \in Nat /\ r.d.state >= EOM1 /\ r.d.state >= EOH2 /\ ~(r.d.state <= HEADER)
      BY <3>3 DEF EOM1, EOM2, EOH2, HEADER
    <3>6. <<>> \in Seq({}) /\ Len(<<>>) = 0 OBVIOUS
    <3>7. ListOK(r.d) /\ SigsOK(r.d, ans, q) /\ AllMade(r.d)
      BY <3>3, <3>4, <3>6 DEF ListOK, SigsOK, AllMade, IsSeq
    <3>8. HandleOK(r.d, ans, q) BY <3>3, <3>4, <3>5, <3>7 DEF HandleOK
    <3>. QED BY <1>2, <3>3, <3>8
  <2>. QED BY <2>3, <2>4
<1>. QED BY <1>1, <1>2

-----------------------------------------------------------------------------
(* dkim_chunk().                                                           *)

\* A handle whose streaming interface alone changed.
Streamed(f, e) ==
    /\ DOMAIN f = HandleFields
    /\ f.mode = e.mode /\ f.lib = e.lib /\ f.state = e.state /\ f.hdrs = e.hdrs /\ f.sigs = e.sigs
    /\ f.hdrsrun = e.hdrsrun /\ f.fed = e.fed /\ f.bodydone = e.bodydone

LEMMA StreamedFacts ==
    ASSUME NEW e, NEW f, NEW ans, NEW q, HandleOK(e, ans, q), Streamed(f, e), f.tail = e.tail,
           IsField(f.line, DOMAIN ans),
           f.chunk = e.chunk \/ (AllMade(e) /\ f.chunk \in {"HEADER", "BODY", "DONE"})
    PROVE  HandleOK(f, ans, q)
<1>1. e.state \in Nat /\ e.state <= f.state /\ f.state \in Nat BY DEF HandleOK, Streamed
<1>2. (f.chunk = "HEADER" /\ f.state >= EOH2) \/ AllMade(e) BY DEF HandleOK, Streamed
<1>3. (f.hdrsrun => f.state >= EOH2) /\ (f.bodydone => f.state >= EOM1) BY DEF HandleOK, Streamed
<1>. QED BY <1>1, <1>2, <1>3, HandleLater DEF Streamed

LEMMA NoHeaderField ==
    ASSUME NEW keys, NEW name, name # "DKIM-Signature"
    PROVE  IsField([NoHeader EXCEPT !.name = name], keys) /\ IsField(NoHeader, keys)
<1>1. PICK h : h = NoHeader OBVIOUS
<1>2. DOMAIN h = {"name", "colon", "addr", "sig"} /\ h.name = "none" /\ h.sig = Sig("none")
  BY <1>1 DEF NoHeader, Field
<1>3. IsSig(Sig("none")) BY DEF Sig, IsSig
<1>4. PICK k : k = [h EXCEPT !.name = name] OBVIOUS
<1>5. DOMAIN k = {"name", "colon", "addr", "sig"} /\ k.name = name /\ k.sig = Sig("none") BY <1>2, <1>4
<1>. QED BY <1>1, <1>2, <1>3, <1>4, <1>5 DEF IsField

LEMMA NoHeaderIsField ==
    ASSUME NEW keys
    PROVE  IsField(NoHeader, keys)
<1>1. PICK h : h = NoHeader OBVIOUS
<1>2. DOMAIN h = {"name", "colon", "addr", "sig"} /\ h.name = "none" /\ h.sig = Sig("none")
  BY <1>1 DEF NoHeader, Field
<1>3. IsSig(Sig("none")) BY DEF Sig, IsSig
<1>. QED BY <1>1, <1>2, <1>3 DEF IsField

\* A handle as dkim_new() makes it.
LEMMA NewFacts ==
    ASSUME NEW mode, NEW lib, NEW ans, NEW q, NEW e, e = New(mode, lib)
    PROVE  HandleOK(e, ans, q)
<1>1. /\ DOMAIN e = HandleFields /\ e.sigs = <<>> /\ e.hdrs = <<>> /\ e.state = INIT /\ e.fed = 0
      /\ e.chunk = "INIT" /\ e.line = NoHeader /\ e.hdrsrun = FALSE /\ e.bodydone = FALSE
  BY DEF New, HandleFields
<1>2. <<>> \in Seq({}) /\ Len(<<>>) = 0 OBVIOUS
<1>3. IsField(NoHeader, DOMAIN ans) BY NoHeaderIsField
<1>4. INIT \in Nat BY DEF INIT
<1>5. ListOK(e) /\ SigsOK(e, ans, q) /\ AllMade(e) /\ IsSeq(e.hdrs)
  BY <1>1, <1>2 DEF ListOK, SigsOK, AllMade, IsSeq
<1>6. /\ Len(e.hdrs) = 0 /\ e.state \in Nat /\ e.fed \in Nat /\ ~e.hdrsrun /\ ~e.bodydone
      /\ e.chunk \in {"INIT", "HEADER", "BODY", "DONE"} /\ IsField(e.line, DOMAIN ans)
  BY <1>1, <1>2, <1>3, <1>4
<1>7. \A j \in 1..Len(e.hdrs) : IsField(e.hdrs[j], DOMAIN ans) BY <1>6
<1>8. e.sigs = <<>> BY <1>1
<1>. QED BY ONLY <1>5, <1>6, <1>7, <1>8 DEF HandleOK

\* The headers end, the interface goes on with the body.
LEMMA ChunkEohFacts ==
    ASSUME NEW e, NEW ans, NEW q \in BOOLEAN, HandleOK(e, ans, q), Records(ans), NEW w, Honest(w, ans, q),
           NEW cb, NEW r, r = ChunkEoh(Eoh(e, cb, w)), r.ret # "ABORT"
    PROVE  HandleOK(r.d, ans, q) /\ (r.ret = "OK" => r.d.chunk = "BODY")
<1>1. PICK s : s = Eoh(e, cb, w) OBVIOUS
<1>2. CASE s.ret # "OK"
  <2>1. r = s BY <1>1, <1>2 DEF ChunkEoh
  <2>. QED BY <1>1, <1>2, <2>1, EohFacts
<1>3. CASE s.ret = "OK"
  <2>1. HandleOK(s.d, ans, q) /\ AllMade(s.d) BY <1>1, <1>3, EohFacts
  <2>2. r.d = [s.d EXCEPT !.chunk = "BODY", !.cr = FALSE, !.line = NoHeader] BY <1>1, <1>3 DEF ChunkEoh, Is
  <2>3. DOMAIN s.d = HandleFields BY <2>1, HandleFacts
  <2>4. Streamed(r.d, s.d) /\ r.d.tail = s.d.tail /\ r.d.line = NoHeader /\ r.d.chunk = "BODY"
    BY <2>2, <2>3 DEF Streamed, HandleFields
  <2>5. IsField(NoHeader, DOMAIN ans) BY NoHeaderIsField
  <2>. QED BY <2>1, <2>4, <2>5, StreamedFacts
<1>. QED BY <1>2, <1>3

LEMMA ChunkLineFacts ==
    ASSUME NEW e, NEW ans, NEW q \in BOOLEAN, HandleOK(e, ans, q), Records(ans), NEW w, Honest(w, ans, q),
           e.chunk \in {"HEADER", "BODY"}, NEW cb, NEW tok, IsField(tok.h, DOMAIN ans),
           NEW r, r = ChunkLine(e, tok, cb, w), r.ret # "ABORT"
    PROVE  HandleOK(r.d, ans, q) /\ (r.ret = "OK" => r.d.chunk \in {"HEADER", "BODY"})
<1>1. PICK header : header = Header(e, e.line) OBVIOUS
<1>2. DOMAIN e = HandleFields /\ IsField(e.line, DOMAIN ans) BY HandleFacts DEF HandleOK
<1>3. header.ret # "ABORT" => HandleOK(header.d, ans, q) BY <1>1, <1>2, HeaderFacts
<1>4. header.ret # "ABORT" => DOMAIN header.d = HandleFields /\ IsField(header.d.line, DOMAIN ans)
  BY <1>3, HandleFacts DEF HandleOK
<1>10. header.ret # "ABORT" => header.d.chunk = e.chunk BY <1>1, <1>2 DEF Header, Is, Abort, HandleFields
<1>5. CASE e.chunk = "BODY"
  <2>1. r = Body(e) BY <1>5 DEF ChunkLine
  <2>2. r.d.chunk = e.chunk BY <1>2, <2>1 DEF Body, Is, Abort, HandleFields
  <2>. QED BY <1>5, <2>1, <2>2, BodyFacts
<1>6. CASE e.chunk = "HEADER" /\ e.line = NoHeader
  <2>1. PICK h : h = IF tok.t = "line" THEN tok.h ELSE [NoHeader EXCEPT !.name = "empty"] OBVIOUS
  <2>2. r.d = [e EXCEPT !.line = h] BY <1>6, <2>1 DEF ChunkLine, Is
  <2>3. IsField(h, DOMAIN ans) BY <2>1, NoHeaderField
  <2>4. Streamed(r.d, e) /\ r.d.tail = e.tail /\ r.d.line = h /\ r.d.chunk = e.chunk
    BY <1>2, <2>2 DEF Streamed, HandleFields
  <2>. QED BY <1>6, <2>3, <2>4, StreamedFacts
<1>7. CASE e.chunk = "HEADER" /\ e.line # NoHeader /\ header.ret # "OK"
  <2>1. PICK cr : cr = (header.d.cr \/ tok.t = "blank") OBVIOUS
  <2>2. r = Is([header.d EXCEPT !.cr = @ \/ tok.t = "blank"], header.ret) BY <1>1, <1>7 DEF ChunkLine
  <2>3. r.ret = header.ret /\ r.d = [header.d EXCEPT !.cr = cr] BY <2>1, <2>2 DEF Is
  <2>4. Streamed(r.d, header.d) /\ r.d.tail = header.d.tail /\ r.d.line = header.d.line
        /\ r.d.chunk = header.d.chunk
    BY <1>4, <2>3 DEF Streamed, HandleFields
  <2>. QED BY <1>3, <1>4, <1>7, <1>10, <2>3, <2>4, StreamedFacts
<1>8. CASE e.chunk = "HEADER" /\ e.line # NoHeader /\ header.ret = "OK" /\ (tok.t # "blank" \/ e.cr)
  <2>1. PICK h : h = IF e.cr THEN [NoHeader EXCEPT !.name = "Other"] ELSE tok.h OBVIOUS
  <2>2. r.d = [header.d EXCEPT !.cr = FALSE, !.line = h] BY <1>1, <1>8, <2>1 DEF ChunkLine, Is
  <2>3. IsField(h, DOMAIN ans) BY <2>1, NoHeaderField
  <2>4. Streamed(r.d, header.d) /\ r.d.tail = header.d.tail /\ r.d.line = h /\ r.d.chunk = header.d.chunk
    BY <1>4, <1>8, <2>2 DEF Streamed, HandleFields
  <2>. QED BY <1>3, <1>8, <1>10, <2>3, <2>4, StreamedFacts
<1>9. CASE e.chunk = "HEADER" /\ e.line # NoHeader /\ header.ret = "OK" /\ ~(tok.t # "blank" \/ e.cr)
  <2>1. PICK f : f = [header.d EXCEPT !.cr = TRUE] OBVIOUS
  <2>2. r = ChunkEoh(Eoh(f, cb, w)) BY <1>1, <1>9, <2>1 DEF ChunkLine
  <2>3. Streamed(f, header.d) /\ f.tail = header.d.tail /\ f.line = header.d.line /\ f.chunk = header.d.chunk
    BY <1>4, <1>9, <2>1 DEF Streamed, HandleFields
  <2>4. HandleOK(f, ans, q) BY <1>3, <1>4, <1>9, <2>3, StreamedFacts
  <2>. QED BY <2>2, <2>4, ChunkEohFacts
<1>. QED BY <1>5, <1>6, <1>7, <1>8, <1>9

LEMMA ChunkEndFacts ==
    ASSUME NEW e, NEW ans, NEW q \in BOOLEAN, HandleOK(e, ans, q), Records(ans), NEW w, Honest(w, ans, q),
           NEW cb, NEW r, r = ChunkEnd(e, cb, w), r.ret # "ABORT"
    PROVE  HandleOK(r.d, ans, q)
<1>1. PICK field : field = IF e.line.name = "empty" THEN [e.line EXCEPT !.name = "Other"] ELSE e.line OBVIOUS
<1>2. PICK f : f = [e EXCEPT !.tail = TRUE] OBVIOUS
<1>3. PICK header : header = IF e.line = NoHeader THEN Is(e, "OK") ELSE Header(f, field) OBVIOUS
<1>4. PICK s : s = IF e.chunk # "HEADER" THEN Is(e, "OK")
                   ELSE IF header.ret # "OK" THEN header ELSE Eoh(header.d, cb, w)
  OBVIOUS
<1>5. r = ChunkDone(s) BY <1>1, <1>2, <1>3, <1>4 DEF ChunkEnd
<1>6. DOMAIN e = HandleFields /\ IsField(e.line, DOMAIN ans) BY HandleFacts DEF HandleOK
<1>7. s.ret # "ABORT" => HandleOK(s.d, ans, q) /\ (s.ret = "OK" => AllMade(s.d))
  <2>1. CASE e.chunk # "HEADER"
    <3>1. s.d = e BY <1>4, <2>1 DEF Is
    <3>. QED BY <2>1, <3>1 DEF HandleOK
  <2>2. CASE e.chunk = "HEADER"
    <3>1. IsField(field, DOMAIN ans)
      <4>1. CASE e.line.name # "empty" BY <1>1, <1>6, <4>1
      <4>2. CASE e.line.name = "empty"
        <5>1. DOMAIN e.line = {"name", "colon", "addr", "sig"} /\ IsSig(e.line.sig) BY <1>6 DEF IsField
        <5>2. field = [e.line EXCEPT !.name = "Other"] BY <1>1, <4>2
        <5>3. DOMAIN field = {"name", "colon", "addr", "sig"} /\ field.sig = e.line.sig /\ field.name = "Other"
          BY <5>1, <5>2
        <5>. QED BY <5>1, <5>3 DEF IsField
      <4>. QED BY <4>1, <4>2
    <3>2. Streamed(f, e) /\ f.tail = TRUE /\ f.line = e.line /\ f.chunk = e.chunk
      BY <1>2, <1>6 DEF Streamed, HandleFields
    <3>3. HandleOK(f, ans, q)
      <4>1. \A j \in 1..Len(f.sigs) : SigOK(f, f.sigs[j], ans, q)
        <5>1. TAKE j \in 1..Len(f.sigs)
        <5>2. SigOK(e, f.sigs[j], ans, q) BY <3>2 DEF HandleOK, SigsOK, Streamed
        <5>. QED BY <3>2, <5>2, SigOKLater DEF Streamed
      <4>2. AllMade(f) \/ f.state >= EOH2
        <5>1. SUFFICES ASSUME ~(f.state >= EOH2), NEW j \in 1..Len(f.sigs), f.sigs[j].passed PROVE FALSE
          BY DEF AllMade
        <5>2. SigOK(f, f.sigs[j], ans, q) BY <4>1
        <5>3. f.hdrsrun BY <5>1, <5>2 DEF SigOK, PassedOK, ErrorOK
        <5>. QED BY <3>2, <5>1, <5>3 DEF HandleOK, Streamed
      <4>3. ListOK(f) BY <3>2 DEF ListOK, HandleOK, Streamed
      <4>. QED BY <2>2, <3>2, <4>1, <4>2, <4>3 DEF HandleOK, SigsOK, Streamed
    <3>4. header.ret # "ABORT" => HandleOK(header.d, ans, q)
      <4>1. CASE e.line = NoHeader BY <1>3, <4>1 DEF Is
      <4>2. CASE e.line # NoHeader BY <1>3, <3>1, <3>3, <4>2, HeaderFacts
      <4>. QED BY <4>1, <4>2
    <3>5. CASE header.ret # "OK" BY <1>4, <2>2, <3>4, <3>5
    <3>6. CASE header.ret = "OK"
      <4>1. s = Eoh(header.d, cb, w) BY <1>4, <2>2, <3>6
      <4>2. HandleOK(header.d, ans, q) BY <3>4, <3>6
      <4>3. s.ret # "ABORT" => HandleOK(s.d, ans, q) /\ (AllMade(s.d) \/ s.ret = "INVALID")
        BY <4>1, <4>2, EohFacts
      <4>. QED BY <4>3
    <3>. QED BY <3>5, <3>6
  <2>. QED BY <2>1, <2>2
<1>8. CASE s.ret # "OK" BY <1>5, <1>7, <1>8 DEF ChunkDone
<1>9. CASE s.ret = "OK"
  <2>1. r.d = [s.d EXCEPT !.chunk = "DONE"] BY <1>5, <1>9 DEF ChunkDone, Is
  <2>2. HandleOK(s.d, ans, q) /\ AllMade(s.d) BY <1>7, <1>9
  <2>3. DOMAIN s.d = HandleFields /\ IsField(s.d.line, DOMAIN ans) BY <2>2, HandleFacts DEF HandleOK
  <2>4. Streamed(r.d, s.d) /\ r.d.tail = s.d.tail /\ r.d.line = s.d.line /\ r.d.chunk = "DONE"
    BY <2>1, <2>3 DEF Streamed, HandleFields
  <2>. QED BY <2>2, <2>3, <2>4, StreamedFacts
<1>. QED BY <1>8, <1>9

LEMMA ChunkFacts ==
    ASSUME NEW e, NEW ans, NEW q \in BOOLEAN, HandleOK(e, ans, q), Records(ans), NEW w, Honest(w, ans, q),
           NEW cb, NEW toks, IsSeq(toks), \A n \in 1..Len(toks) : IsField(toks[n].h, DOMAIN ans),
           NEW r, r = Chunk(e, toks, cb, w), r.ret # "ABORT"
    PROVE  HandleOK(r.d, ans, q)
<1>1. CASE e.chunk = "DONE"
  <2>1. r.d = e BY <1>1 DEF Chunk, Is
  <2>. QED BY <2>1
<1>2. CASE e.chunk # "DONE"
  <2>1. PICK b : b = IF e.chunk = "INIT" THEN [e EXCEPT !.chunk = "HEADER", !.line = NoHeader] ELSE e OBVIOUS
  <2>2. DOMAIN e = HandleFields BY HandleFacts
  <2>3. HandleOK(b, ans, q) /\ b.chunk \in {"HEADER", "BODY"}
    <3>1. CASE e.chunk # "INIT" BY <1>2, <2>1, <3>1 DEF HandleOK
    <3>2. CASE e.chunk = "INIT"
      <4>1. Streamed(b, e) /\ b.tail = e.tail /\ b.line = NoHeader /\ b.chunk = "HEADER"
        BY <2>1, <2>2, <3>2 DEF Streamed, HandleFields
      <4>2. IsField(NoHeader, DOMAIN ans) BY NoHeaderIsField
      <4>3. AllMade(e) BY <3>2 DEF HandleOK
      <4>. QED BY <4>1, <4>2, <4>3, StreamedFacts
    <3>. QED BY <3>1, <3>2
  <2>4. CASE toks = <<>>
    <3>1. r = ChunkEnd(b, cb, w) BY <1>2, <2>1, <2>4 DEF Chunk
    <3>. QED BY <2>3, <3>1, ChunkEndFacts
  <2>5. CASE toks # <<>>
    <3>1. Len(toks) \in Nat BY DEF IsSeq
    <3>2. PICK run : /\ IsRun(run, "Chunk", [toks |-> toks, cb |-> cb, w |-> w], Is(b, "OK"), Len(toks))
                     /\ Chunk(e, toks, cb, w) = run[Len(toks)]
      BY <1>2, <2>1, <2>5, <3>1, ChunkRun
    <3>. DEFINE n == Len(toks)
                Fine(x) == x.ret = "ABORT" \/ (HandleOK(x.d, ans, q) /\ (x.ret = "OK" => x.d.chunk \in {"HEADER", "BODY"}))
                A == {m \in 0..n : Fine(run[m])}
    <3>3. 0 \in A
      <4>1. run[0] = Is(b, "OK") BY <3>1, <3>2 DEF IsRun
      <4>. QED BY <2>3, <4>1 DEF Is
    <3>4. ASSUME NEW m \in 1..n, m - 1 \in A PROVE m \in A
      <4>1. PICK x : x = run[m - 1] OBVIOUS
      <4>2. run[m] = LoopBody("Chunk", [toks |-> toks, cb |-> cb, w |-> w], x, m)
        BY <3>1, <3>2, <4>1 DEF IsRun
      <4>3. run[m] = IF x.ret # "OK" THEN x ELSE ChunkLine(x.d, toks[m], cb, w) BY <4>2 DEF LoopBody
      <4>4. Fine(x) BY <3>4, <4>1
      <4>5. Fine(run[m])
        <5>1. CASE x.ret # "OK" BY <4>3, <4>4, <5>1
        <5>2. CASE x.ret = "OK"
          <6>1. PICK y : y = ChunkLine(x.d, toks[m], cb, w) OBVIOUS
          <6>2. IsField(toks[m].h, DOMAIN ans) OBVIOUS
          <6>3. HandleOK(x.d, ans, q) /\ x.d.chunk \in {"HEADER", "BODY"} BY <4>4, <5>2
          <6>4. PICK tok : tok = toks[m] OBVIOUS
          <6>5. y.ret # "ABORT" => HandleOK(y.d, ans, q) /\ (y.ret = "OK" => y.d.chunk \in {"HEADER", "BODY"})
            BY <6>1, <6>2, <6>3, <6>4, ChunkLineFacts
          <6>. QED BY <4>3, <5>2, <6>1, <6>5
        <5>. QED BY <5>1, <5>2
      <4>. QED BY <4>5
    <3>. HIDE DEF A
    <3>5. 0..n \subseteq A BY <3>1, <3>3, <3>4, Climb
    <3>. QED BY <3>1, <3>2, <3>5 DEF A
  <2>. QED BY <2>4, <2>5
<1>. QED BY <1>1, <1>2

-----------------------------------------------------------------------------
(* What a handle keeps of the message.                                     *)

\* m is the list l after its signatures were processed or marked.
SameList(m, l) ==
    /\ Len(m) = Len(l)
    /\ \A i \in 1..Len(l) : m[i].spec = l[i].spec /\ m[i].len = l[i].len /\ (l[i].ignore => m[i].ignore)

\* f is e after a call that passed neither fields nor body.
SameMail(f, e) ==
    /\ f.mode = e.mode /\ f.lib = e.lib /\ f.hdrs = e.hdrs /\ f.fed = e.fed /\ f.chunk = e.chunk
SameMessage(f, e) == SameMail(f, e) /\ f.hdrsrun = e.hdrsrun /\ SameList(f.sigs, e.sigs)

\* Every signature of a list is in a field; the limit it is held to is its own
\* or, if it has none, another one's.
FromFields(list, hdrs) ==
    \A i \in 1..Len(list) :
        /\ \E n \in 1..Len(hdrs) : IsSignature(hdrs[n]) /\ list[i].spec = hdrs[n].sig
        /\ \/ list[i].len = list[i].spec.l \/ list[i].spec.flaws # {}
           \/ /\ list[i].spec.l = -1
              /\ \E n \in 1..Len(hdrs) : IsSignature(hdrs[n]) /\ list[i].len = hdrs[n].sig.l

LEMMA SameListSame ==
    ASSUME NEW m, NEW l, SameList(m, l), NEW hdrs, FromFields(l, hdrs)
    PROVE  FromFields(m, hdrs)
BY DEF SameList, FromFields

LEMMA AlikeSame ==
    ASSUME NEW e, NEW f, NEW ans, NEW q, Alike(f, e, ans, q)
    PROVE  SameMessage(f, e)
BY DEF Alike, SameHandle, SameMessage, SameMail, SameList

\* The list of signatures comes from the fields.
LEMMA SetupFrom ==
    ASSUME NEW e, Len(e.hdrs) \in Nat, \A j \in 1..Len(e.hdrs) : IsSignature(e.hdrs[j]) => IsSig(e.hdrs[j].sig)
    PROVE  FromFields(Setup(e), e.hdrs)
<1>. DEFINE n == Len(e.hdrs)
            base == [len |-> -1, list |-> <<>>]
            Limit(len) == len = -1 \/ \E i \in 1..n : IsSignature(e.hdrs[i]) /\ len = e.hdrs[i].sig.l
<1>1. PICK run : IsRun(run, "Setup", [e |-> e], base, n) /\ Setup(e) = run[n].list BY SetupRun
<1>. DEFINE A == {m \in 0..n : Limit(run[m].len) /\ IsSeq(run[m].list) /\ FromFields(run[m].list, e.hdrs)}
<1>2. 0 \in A
  <2>1. run[0] = base BY <1>1 DEF IsRun
  <2>2. run[0].len = -1 /\ run[0].list = <<>> BY <2>1
  <2>3. <<>> \in Seq({}) /\ Len(<<>>) = 0 OBVIOUS
  <2>4. Limit(run[0].len) /\ IsSeq(run[0].list) BY <2>2, <2>3 DEF IsSeq
  <2>5. FromFields(run[0].list, e.hdrs) BY <2>2, <2>3 DEF FromFields
  <2>. QED BY <2>4, <2>5
<1>3. ASSUME NEW m \in 1..n, m - 1 \in A PROVE m \in A
  <2>1. PICK x : x = run[m - 1] OBVIOUS
  <2>2. PICK h : h = e.hdrs[m] OBVIOUS
  <2>3. run[m] = LoopBody("Setup", [e |-> e], x, m)
    <3>1. m \in 0..n /\ m # 0 OBVIOUS
    <3>2. run[m] = IF m = 0 THEN base ELSE LoopBody("Setup", [e |-> e], run[m - 1], m)
      BY ONLY <1>1, <3>1 DEF IsRun
    <3>. QED BY <2>1, <3>1, <3>2
  <2>4. run[m] = IF ~IsSignature(h) THEN x
                 ELSE LET len == SignLen(x, h.sig) IN [len |-> len, list |-> Append(x.list, SigInfo(h.sig, len))]
    BY <2>2, <2>3 DEF LoopBody
  <2>5. Limit(x.len) /\ IsSeq(x.list) /\ FromFields(x.list, e.hdrs) BY <1>3, <2>1
  <2>6. CASE ~IsSignature(h) BY <2>1, <2>4, <2>5, <2>6
  <2>7. CASE IsSignature(h)
    <3>1. PICK s : s = h.sig OBVIOUS
    <3>2. IsSig(s) BY <2>2, <2>7, <3>1
    <3>3. PICK len : len = SignLen(x, s) OBVIOUS
    <3>4. s.flaws = {} => ReachesLength(s)
      <4>1. Len(SetupChecks) = 25 /\ \A k \in 1..25 : SetupChecks[k] # "UNKNOWN" BY DEF SetupChecks
      <4>2. s.flaws = {} => SetupError(s) = "UNKNOWN" BY <3>2, SetupErrorFacts DEF IsSig
      <4>. QED BY <4>1, <4>2 DEF ReachesLength
    <3>5. len = s.l \/ s.flaws # {} \/ (s.l = -1 /\ len = x.len) BY <3>3, <3>4 DEF SignLen
    <3>6. len = s.l \/ len = x.len BY <3>3 DEF SignLen
    <3>7. PICK g : g = SigInfo(s, len) OBVIOUS
    <3>8. g.spec = s /\ g.len = len BY <3>7 DEF SigInfo
    <3>9. run[m].len = len /\ run[m].list = Append(x.list, g) BY <2>4, <2>7, <3>1, <3>3, <3>7
    <3>10. PICK S : x.list \in Seq(S) BY <2>5 DEF IsSeq
    <3>11. x.list \in Seq(S \cup {g}) BY <3>10
    <3>12. /\ Append(x.list, g) \in Seq(S \cup {g}) /\ Len(Append(x.list, g)) = Len(x.list) + 1
           /\ \A j \in 1..Len(Append(x.list, g)) :
                Append(x.list, g)[j] = IF j = Len(x.list) + 1 THEN g ELSE x.list[j]
           /\ Len(x.list) \in Nat
      BY <3>11
    <3>13. Limit(len) BY <2>2, <2>5, <2>7, <3>1, <3>6
    <3>14. /\ \E i \in 1..n : IsSignature(e.hdrs[i]) /\ g.spec = e.hdrs[i].sig
           /\ \/ g.len = g.spec.l \/ g.spec.flaws # {}
              \/ g.spec.l = -1 /\ \E i \in 1..n : IsSignature(e.hdrs[i]) /\ g.len = e.hdrs[i].sig.l
      BY <2>2, <2>5, <2>7, <3>1, <3>5, <3>8
    <3>15. FromFields(Append(x.list, g), e.hdrs)
      <4>1. SUFFICES ASSUME NEW j \in 1..Len(Append(x.list, g)), NEW y, y = Append(x.list, g)[j]
                     PROVE  /\ \E i \in 1..n : IsSignature(e.hdrs[i]) /\ y.spec = e.hdrs[i].sig
                            /\ \/ y.len = y.spec.l \/ y.spec.flaws # {}
                               \/ y.spec.l = -1 /\ \E i \in 1..n : IsSignature(e.hdrs[i]) /\ y.len = e.hdrs[i].sig.l
        BY DEF FromFields
      <4>2. CASE j = Len(x.list) + 1 BY <3>12, <3>14, <4>1, <4>2
      <4>3. CASE j # Len(x.list) + 1
        <5>1. j \in 1..Len(x.list) /\ y = x.list[j] BY <3>12, <4>1, <4>3
        <5>. QED BY <2>5, <5>1 DEF FromFields
      <4>. QED BY <4>2, <4>3
    <3>16. IsSeq(Append(x.list, g)) BY <3>12 DEF IsSeq
    <3>17. m \in 0..n OBVIOUS
    <3>18. Limit(run[m].len) BY <3>9, <3>13
    <3>19. IsSeq(run[m].list) /\ FromFields(run[m].list, e.hdrs) BY <3>9, <3>15, <3>16
    <3>. QED BY <3>17, <3>18, <3>19
  <2>. QED BY <2>6, <2>7
<1>. HIDE DEF A
<1>4. 0..n \subseteq A BY <1>2, <1>3, Climb
<1>. QED BY <1>1, <1>4 DEF A

\* Only the fields count for the list of signatures.
LEMMA SetupSame ==
    ASSUME NEW e, NEW f, f.hdrs = e.hdrs, Len(e.hdrs) \in Nat
    PROVE  Setup(f) = Setup(e)
<1>. DEFINE n == Len(e.hdrs)
            base == [len |-> -1, list |-> <<>>]
<1>1. PICK x : IsRun(x, "Setup", [e |-> e], base, n) /\ Setup(e) = x[n].list BY SetupRun
<1>2. PICK y : IsRun(y, "Setup", [e |-> f], base, n) /\ Setup(f) = y[n].list
  <2>1. Len(f.hdrs) = n /\ Len(f.hdrs) \in Nat OBVIOUS
  <2>. QED BY ONLY <2>1, SetupRun
<1>. DEFINE A == {m \in 0..n : x[m] = y[m]}
<1>3. 0 \in A BY <1>1, <1>2 DEF IsRun
<1>4. ASSUME NEW m \in 1..n, m - 1 \in A PROVE m \in A
  <2>1. PICK z : z = x[m - 1] /\ z = y[m - 1] BY <1>4
  <2>2. m \in 0..n /\ m # 0 OBVIOUS
  <2>3. x[m] = LoopBody("Setup", [e |-> e], z, m) BY ONLY <1>1, <2>1, <2>2 DEF IsRun
  <2>4. y[m] = LoopBody("Setup", [e |-> f], z, m) BY ONLY <1>2, <2>1, <2>2 DEF IsRun
  <2>5. PICK h : h = e.hdrs[m] /\ h = f.hdrs[m] OBVIOUS
  <2>. QED BY <2>2, <2>3, <2>4, <2>5 DEF LoopBody
<1>. HIDE DEF A
<1>5. 0..n \subseteq A BY <1>3, <1>4, Climb
<1>6. n \in A BY <1>5
<1>. QED BY <1>1, <1>2, <1>6 DEF A

\* A callback that processes nothing marks signatures, and that is all.
LEMMA HeardMarks ==
    ASSUME NEW e, ListOK(e), \A j \in 1..Len(e.sigs) : DOMAIN e.sigs[j] = SigFields,
           NEW cb, cb.process = {}, ~cb.swap, NEW w, NEW h, h = Heard(e, cb, w)
    PROVE  /\ SameHandle(h, e) /\ SameList(h.sigs, e.sigs)
           /\ \A i \in 1..Len(e.sigs) : i \in cb.ignore => h.sigs[i].ignore
<1>. DEFINE n == Len(e.sigs)
<1>1. n \in Nat BY DEF ListOK, IsSeq
<1>2. PICK run : /\ IsRun(run, "Heard", [cb |-> cb, w |-> w], e, n)
                 /\ Heard(e, cb, w) = LET marked == Ignored(run[n], cb.ignore)
                                      IN  IF cb.swap THEN [marked EXCEPT !.sigs = Reverse(@)] ELSE marked
  BY <1>1, HeardRun
<1>. DEFINE A == {m \in 0..n : run[m] = e}
<1>3. 0 \in A BY <1>1, <1>2 DEF IsRun
<1>4. ASSUME NEW m \in 1..n, m - 1 \in A PROVE m \in A
  <2>1. m \in 0..n /\ m # 0 /\ run[m - 1] = e BY <1>1, <1>4
  <2>2. run[m] = LoopBody("Heard", [cb |-> cb, w |-> w], e, m) BY ONLY <1>2, <2>1 DEF IsRun
  <2>. QED BY <2>1, <2>2 DEF LoopBody
<1>. HIDE DEF A
<1>5. 0..n \subseteq A BY <1>1, <1>3, <1>4, Climb
<1>6. run[n] = e BY <1>1, <1>5 DEF A
<1>7. h = Ignored(e, cb.ignore) BY <1>2, <1>6
<1>8. PICK M : M = [i \in 1..n |-> [e.sigs[i] EXCEPT !.ignore = @ \/ i \in cb.ignore]] OBVIOUS
<1>9. h = [e EXCEPT !.sigs = M] BY <1>7, <1>8 DEF Ignored
<1>10. SameHandle(h, e) /\ h.sigs = M BY <1>9 DEF SameHandle, ListOK, HandleFields
<1>11. \A i \in 1..n : /\ M[i].spec = e.sigs[i].spec /\ M[i].len = e.sigs[i].len
                       /\ e.sigs[i].ignore \/ i \in cb.ignore => M[i].ignore
  <2>1. TAKE i \in 1..n
  <2>2. PICK b : b = (e.sigs[i].ignore \/ i \in cb.ignore) OBVIOUS
  <2>3. DOMAIN e.sigs[i] = SigFields OBVIOUS
  <2>4. M[i] = [e.sigs[i] EXCEPT !.ignore = b] BY <1>8, <2>2, <2>3 DEF SigFields
  <2>5. M[i].spec = e.sigs[i].spec /\ M[i].len = e.sigs[i].len /\ M[i].ignore = b BY <2>3, <2>4 DEF SigFields
  <2>. QED BY <2>2, <2>5
<1>12. Len(M) = n BY <1>1, <1>8
<1>. QED BY <1>10, <1>11, <1>12 DEF SameList

\* A handle whose headers were run takes the body.
TakesBody(f) == f.hdrsrun => ~f.skipbody /\ f.canons # "none" /\ f.state <= BODY

LEMMA EohDecideKeeps ==
    ASSUME NEW e, NEW ans, NEW q \in BOOLEAN, HandleOK(e, ans, q), e.state = EOH2, Records(ans),
           ~e.skipbody, e.canons # "none", ~e.hdrsrun,
           NEW w, Honest(w, ans, q), NEW r, r = EohDecide(e, w), r.ret # "ABORT"
    PROVE  SameMail(r.d, e) /\ TakesBody(r.d) /\ SameList(r.d.sigs, e.sigs)
<1>1. DOMAIN e = HandleFields /\ ListOK(e) /\ SigsOK(e, ans, q) BY HandleFacts
<1>2. CASE \A i \in 1..Len(e.sigs) : e.sigs[i].ignore
  <2>1. r.d = [e EXCEPT !.skipbody = TRUE] BY <1>2 DEF EohDecide, Is
  <2>2. r.d.sigs = e.sigs /\ r.d.hdrsrun = e.hdrsrun /\ SameMail(r.d, e) BY <1>1, <2>1 DEF HandleFields, SameMail
  <2>. QED BY <2>2 DEF TakesBody, SameList
<1>3. CASE ~(\A i \in 1..Len(e.sigs) : e.sigs[i].ignore)
  <2>1. PICK run : run = [e EXCEPT !.hdrsrun = TRUE] OBVIOUS
  <2>2. /\ DOMAIN run = HandleFields /\ run.sigs = e.sigs /\ SameMail(run, e) /\ run.hdrs = e.hdrs /\ run.lib = e.lib
        /\ run.fed = e.fed /\ run.bodydone = e.bodydone /\ run.tail = e.tail /\ run.hdrsrun = TRUE
        /\ run.state = e.state /\ run.skipbody = e.skipbody /\ run.canons = e.canons
    BY <1>1, <2>1 DEF HandleFields, SameMail
  <2>3. ListOK(run) BY <1>1, <2>2 DEF ListOK
  <2>4. SigsOK(run, ans, q)
    <3>1. SUFFICES ASSUME NEW j \in 1..Len(run.sigs) PROVE SigOK(run, run.sigs[j], ans, q) BY DEF SigsOK
    <3>2. SigOK(e, run.sigs[j], ans, q) BY <1>1, <2>2 DEF SigsOK
    <3>. QED BY <2>2, <3>2, SigOKLater
  <2>5. r = EohCheck(IF e.lib.delay THEN Is(run, "OK") ELSE ProcessAll(run, w)) BY <1>3, <2>1 DEF EohDecide, Abort
  <2>6. r.d = run \/ r.d = ProcessAll(run, w).d BY <2>5 DEF EohCheck, Is
  <2>7. Alike(run, run, ans, q) BY <2>3, <2>4, AlikeSelf
  <2>8. Alike(r.d, run, ans, q) BY <2>3, <2>4, <2>6, <2>7, ProcessAllFacts
  <2>9. PICK f : f = r.d OBVIOUS
  <2>10. SameMessage(f, run) /\ SameHandle(f, run) BY <2>8, <2>9, AlikeSame DEF Alike
  <2>11. SameMail(f, e) BY <2>2, <2>10 DEF SameMessage, SameMail
  <2>12. TakesBody(f) BY <2>2, <2>10 DEF SameHandle, TakesBody, EOH2, BODY
  <2>13. SameList(f.sigs, e.sigs) BY <2>2, <2>10 DEF SameMessage
  <2>. QED BY <2>9, <2>11, <2>12, <2>13
<1>. QED BY <1>2, <1>3

\* The list of signatures of a handle is made of the fields, and those that the
\* application's callback does not want are marked before the headers are run.
Lists(f, e, set) ==
    /\ SameMail(f, e) /\ TakesBody(f)
    /\ f.hdrsrun => /\ SameList(f.sigs, Setup(e))
                    /\ f.lib.prescreen => \A i \in 1..Len(f.sigs) : i \in set => f.sigs[i].ignore

LEMMA EohListedKeeps ==
    ASSUME NEW s, NEW ans, NEW q \in BOOLEAN, HandleOK(s.d, ans, q), s.d.state = EOH1, Records(ans),
           s.ret = "OK", ~s.d.skipbody, s.d.canons # "none",
           NEW w, Honest(w, ans, q), NEW cb, cb.process = {}, ~cb.swap, cb.st = "CONTINUE",
           NEW r, r = EohListed(s, cb, w), r.ret # "ABORT"
    PROVE  /\ SameMail(r.d, s.d) /\ TakesBody(r.d) /\ SameList(r.d.sigs, s.d.sigs)
           /\ s.d.lib.prescreen => \A i \in 1..Len(s.d.sigs) : i \in cb.ignore => r.d.sigs[i].ignore
<1>1. PICK f : f = IF s.d.lib.prescreen THEN Heard(s.d, cb, w) ELSE s.d OBVIOUS
<1>2. ListOK(s.d) /\ SigsOK(s.d, ans, q) BY HandleFacts
<1>3. \A j \in 1..Len(s.d.sigs) : DOMAIN s.d.sigs[j] = SigFields BY <1>2 DEF SigsOK, SigOK
<1>4. /\ HandleOK(f, ans, q) /\ SameHandle(f, s.d) /\ SameList(f.sigs, s.d.sigs)
      /\ s.d.lib.prescreen => \A i \in 1..Len(s.d.sigs) : i \in cb.ignore => f.sigs[i].ignore
  <2>1. CASE ~s.d.lib.prescreen BY <1>1, <1>2, <2>1 DEF SameHandle, SameList, ListOK
  <2>2. CASE s.d.lib.prescreen
    <3>1. f = Heard(s.d, cb, w) BY <1>1, <2>2
    <3>2. /\ SameHandle(f, s.d) /\ IsSeq(f.sigs) /\ Len(f.sigs) = Len(s.d.sigs)
          /\ SigsOK(f, ans, q) /\ (AllMade(s.d) => AllMade(f))
      BY <1>2, <3>1, HeardFacts
    <3>3. HandleOK(f, ans, q) BY <3>2, HandleSigs
    <3>4. /\ SameList(f.sigs, s.d.sigs)
          /\ \A i \in 1..Len(s.d.sigs) : i \in cb.ignore => f.sigs[i].ignore
      BY <1>2, <1>3, <3>1, HeardMarks
    <3>. QED BY <3>2, <3>3, <3>4
  <2>. QED BY <2>1, <2>2
<1>5. PICK g : g = [f EXCEPT !.state = EOH2] OBVIOUS
<1>6. r = EohDecide(g, w) BY <1>1, <1>5 DEF EohListed, EohScreened
<1>7. DOMAIN f = HandleFields /\ f.state = EOH1 /\ f.state \in Nat /\ AllMade(f) /\ ~f.hdrsrun /\ ~f.bodydone
  BY <1>4, HandleFacts DEF EOH1, EOH2, SameHandle
<1>8. /\ DOMAIN g = HandleFields /\ g.sigs = f.sigs /\ g.hdrs = f.hdrs /\ g.lib = f.lib /\ g.mode = f.mode
      /\ g.fed = f.fed /\ g.bodydone = f.bodydone /\ g.tail = f.tail /\ g.state = EOH2
      /\ g.hdrsrun = f.hdrsrun /\ g.line = f.line /\ g.chunk = f.chunk
      /\ g.skipbody = f.skipbody /\ g.canons = f.canons
  BY <1>5, <1>7 DEF HandleFields
<1>9. HandleOK(g, ans, q)
  <2>1. IsField(g.line, DOMAIN ans) BY <1>4, <1>8 DEF HandleOK
  <2>2. g.state \in Nat /\ f.state <= g.state BY <1>7, <1>8 DEF EOH1, EOH2
  <2>. QED BY <1>4, <1>7, <1>8, <2>1, <2>2, HandleLater
<1>10. ~g.skipbody /\ g.canons # "none" /\ ~g.hdrsrun BY <1>4, <1>7, <1>8 DEF SameHandle
<1>11. SameMail(r.d, g) /\ TakesBody(r.d) /\ SameList(r.d.sigs, g.sigs)
  BY <1>6, <1>8, <1>9, <1>10, EohDecideKeeps
<1>12. SameMail(r.d, s.d) BY <1>4, <1>8, <1>11 DEF SameMail, SameHandle
<1>13. PICK m : m = r.d.sigs OBVIOUS
<1>14. SameList(m, f.sigs) BY <1>8, <1>11, <1>13
<1>15. SameList(m, s.d.sigs) BY <1>4, <1>14 DEF SameList
<1>16. s.d.lib.prescreen => \A i \in 1..Len(s.d.sigs) : i \in cb.ignore => m[i].ignore
  BY <1>4, <1>14 DEF SameList
<1>. QED BY <1>11, <1>12, <1>13, <1>15, <1>16

LEMMA EohLists ==
    ASSUME NEW e, NEW ans, NEW q \in BOOLEAN, HandleOK(e, ans, q), e.mode = "verify", e.state <= HEADER,
           ~e.siglist, ~e.skipbody, Records(ans), NEW w, Honest(w, ans, q),
           NEW cb, cb.process = {}, ~cb.swap, cb.st = "CONTINUE", NEW r, r = Eoh(e, cb, w), r.ret # "ABORT"
    PROVE  Lists(r.d, e, cb.ignore)
<1>1. DOMAIN e = HandleFields /\ e.state \in Nat /\ Len(e.hdrs) \in Nat BY HandleFacts
<1>2. AllMade(e) /\ ~e.hdrsrun /\ ~e.bodydone BY <1>1, HandleFacts DEF HEADER, EOH2
<1>3. PICK b : b = [e EXCEPT !.state = IF @ < EOH1 THEN EOH1 ELSE @] OBVIOUS
<1>4. b = [e EXCEPT !.state = EOH1]
  <2>1. (IF e.state < EOH1 THEN EOH1 ELSE e.state) = EOH1 BY <1>1 DEF EOH1, HEADER
  <2>. QED BY <1>3, <2>1
<1>5. ~(e.state >= EOH2) BY <1>1 DEF EOH2, HEADER
<1>6. \/ r.d = b
      \/ r.d = [b EXCEPT !.state = UNUSABLE]
      \/ r = EohListed(EohSigs([b EXCEPT !.domain = TRUE]), cb, w)
  BY <1>3, <1>5 DEF Eoh, EohVerify, Is
<1>7. CASE r.d = b \/ r.d = [b EXCEPT !.state = UNUSABLE]
  <2>1. r.d.hdrsrun = e.hdrsrun /\ SameMail(r.d, e) BY <1>1, <1>4, <1>7 DEF HandleFields, SameMail
  <2>. QED BY <1>2, <2>1 DEF Lists, TakesBody
<1>8. CASE r = EohListed(EohSigs([b EXCEPT !.domain = TRUE]), cb, w)
  <2>1. PICK f : f = [b EXCEPT !.domain = TRUE] OBVIOUS
  <2>2. /\ DOMAIN f = HandleFields /\ f.sigs = e.sigs /\ f.hdrs = e.hdrs /\ f.lib = e.lib /\ f.mode = e.mode
        /\ f.fed = e.fed /\ f.bodydone = e.bodydone /\ f.tail = e.tail /\ f.state = EOH1
        /\ f.hdrsrun = e.hdrsrun /\ f.line = e.line /\ f.chunk = e.chunk /\ f.siglist = e.siglist
        /\ f.skipbody = e.skipbody
    BY <1>1, <1>4, <2>1 DEF HandleFields
  <2>3. HandleOK(f, ans, q)
    <3>1. IsField(f.line, DOMAIN ans) BY <2>2 DEF HandleOK
    <3>2. f.state \in Nat /\ e.state <= f.state BY <1>1, <2>2 DEF EOH1, HEADER
    <3>3. AllMade(f) BY <1>2, <2>2 DEF AllMade, Made
    <3>. QED BY <1>2, <2>2, <3>1, <3>2, <3>3, HandleLater
  <2>4. PICK s : s = EohSigs(f) OBVIOUS
  <2>5. HandleOK(s.d, ans, q) /\ s.d.state = EOH1 /\ s.ret # "ABORT" BY <2>2, <2>3, <2>4, EohSigsFacts
  <2>6. r = EohListed(s, cb, w) BY <1>8, <2>1, <2>4
  <2>7. PICK list : list = Setup(e) OBVIOUS
  <2>8. s = EohList(f, list)
    <3>1. Setup(f) = Setup(e) BY <1>1, <2>2, SetupSame
    <3>. QED BY <2>2, <2>4, <2>7, <3>1 DEF EohSigs
  <2>9. /\ SameMail(s.d, e) /\ s.d.hdrsrun = e.hdrsrun
        /\ s.ret = "OK" => s.d.sigs = list /\ ~s.d.skipbody /\ s.d.canons # "none"
    <3>1. CASE list = <<>>
      <4>1. s.d = [f EXCEPT !.skipbody = TRUE] /\ s.ret = "NOSIG" BY <2>8, <3>1 DEF EohList, Is
      <4>. QED BY <2>2, <4>1 DEF HandleFields, SameMail
    <3>2. CASE list # <<>>
      <4>1. PICK c, st : /\ s.d = [f EXCEPT !.siglist = TRUE, !.sigs = list, !.canons = c] /\ s.ret = st
                         /\ c \in {"broken", "ready"}
        BY <2>8, <3>2 DEF EohList, Is
      <4>. QED BY <2>2, <4>1 DEF HandleFields, SameMail
    <3>. QED BY <3>1, <3>2
  <2>10. CASE s.ret # "OK"
    <3>1. r = s BY <2>6, <2>10 DEF EohListed
    <3>. QED BY <1>2, <2>9, <3>1 DEF Lists, TakesBody
  <2>11. CASE s.ret = "OK"
    <3>1. /\ SameMail(r.d, s.d) /\ TakesBody(r.d) /\ SameList(r.d.sigs, s.d.sigs)
          /\ s.d.lib.prescreen => \A i \in 1..Len(s.d.sigs) : i \in cb.ignore => r.d.sigs[i].ignore
      BY <2>5, <2>6, <2>9, <2>11, EohListedKeeps
    <3>2. PICK g : g = r.d OBVIOUS
    <3>3. SameMail(g, e) BY <2>9, <3>1, <3>2 DEF SameMail
    <3>4. SameList(g.sigs, list) BY <2>9, <2>11, <3>1, <3>2
    <3>5. Len(g.sigs) = Len(s.d.sigs) /\ g.lib = s.d.lib BY <3>1, <3>2 DEF SameList, SameMail
    <3>6. g.lib.prescreen => \A i \in 1..Len(g.sigs) : i \in cb.ignore => g.sigs[i].ignore BY <3>1, <3>2, <3>5
    <3>. QED BY <2>7, <3>1, <3>2, <3>3, <3>4, <3>6 DEF Lists
  <2>. QED BY <2>10, <2>11
<1>. QED BY <1>6, <1>7, <1>8

\* The end of the body marks signatures that reach beyond it, and that is all.
LEMMA TooLargeSame ==
    ASSUME NEW e, ListOK(e), \A j \in 1..Len(e.sigs) : DOMAIN e.sigs[j] = SigFields, NEW t, t = TooLarge(e)
    PROVE  SameMessage(t, e)
<1>1. Len(e.sigs) \in Nat /\ DOMAIN e = HandleFields BY DEF ListOK, IsSeq
<1>. DEFINE Long(g) == IF g.canon /\ g.len # -1 /\ Wrote(e, g) < g.len THEN [g EXCEPT !.error = "TOOLARGE_L"] ELSE g
<1>2. PICK M : M = [i \in 1..Len(e.sigs) |-> Long(e.sigs[i])] OBVIOUS
<1>3. t = [e EXCEPT !.sigs = M] BY <1>2 DEF TooLarge
<1>4. t.sigs = M /\ SameMail(t, e) /\ t.hdrsrun = e.hdrsrun BY <1>1, <1>3 DEF HandleFields, SameMail
<1>5. Len(M) = Len(e.sigs) BY <1>1, <1>2
<1>6. ASSUME NEW i \in 1..Len(e.sigs)
      PROVE  M[i].spec = e.sigs[i].spec /\ M[i].len = e.sigs[i].len /\ (e.sigs[i].ignore => M[i].ignore)
  <2>1. PICK g : g = e.sigs[i] OBVIOUS
  <2>2. DOMAIN g = SigFields BY <2>1
  <2>3. M[i] = Long(g) BY <1>2, <2>1
  <2>4. Long(g).spec = g.spec /\ Long(g).len = g.len /\ Long(g).ignore = g.ignore BY <2>2 DEF SigFields
  <2>. QED BY <2>1, <2>3, <2>4
<1>. QED BY <1>4, <1>5, <1>6 DEF SameMessage, SameList

LEMMA SameMessageTwice ==
    ASSUME NEW e, NEW f, NEW g, SameMessage(f, e), SameMessage(g, f)
    PROVE  SameMessage(g, e)
BY DEF SameMessage, SameMail, SameList

\* The end of the message leaves the message alone.
LEMMA EomSame ==
    ASSUME NEW e, NEW ans, NEW q \in BOOLEAN, HandleOK(e, ans, q), e.mode = "verify",
           Records(ans), NEW w, Honest(w, ans, q), NEW cb, cb.process = {}, ~cb.swap,
           NEW r, r = Eom(e, cb, w), r.ret # "ABORT"
    PROVE  SameMessage(r.d, e)
<1>1. DOMAIN e = HandleFields /\ ListOK(e) /\ SigsOK(e, ans, q) /\ e.state \in Nat BY HandleFacts
<1>2. SameMessage(e, e) BY DEF SameMessage, SameMail, SameList
<1>3. r = EomVerify(e, cb, w) BY DEF Eom
<1>4. CASE e.state >= EOM2
  <2>1. r.d = e BY <1>3, <1>4 DEF EomVerify, Is
  <2>. QED BY <1>2, <2>1
<1>5. CASE ~(e.state >= EOM2)
  <2>1. PICK b : b = [e EXCEPT !.state = IF @ < EOM1 THEN EOM1 ELSE @] OBVIOUS
  <2>2. e.state <= EOM1 BY <1>1, <1>5 DEF EOM1, EOM2
  <2>3. b = [e EXCEPT !.state = EOM1]
    <3>1. (IF e.state < EOM1 THEN EOM1 ELSE e.state) = EOM1 BY <1>1, <2>2 DEF EOM1
    <3>. QED BY <2>1, <3>1
  <2>4. /\ DOMAIN b = HandleFields /\ b.sigs = e.sigs /\ b.hdrs = e.hdrs /\ b.lib = e.lib /\ b.mode = e.mode /\ b.fed = e.fed
        /\ b.bodydone = e.bodydone /\ b.tail = e.tail /\ b.state = EOM1 /\ b.hdrsrun = e.hdrsrun
        /\ b.line = e.line /\ b.chunk = e.chunk
    BY <1>1, <2>3 DEF HandleFields
  <2>5. ASSUME NEW f, DOMAIN f = HandleFields, f.sigs = b.sigs, f.hdrs = b.hdrs, f.lib = b.lib, f.mode = b.mode,
               f.fed = b.fed, f.chunk = b.chunk, f.hdrsrun = b.hdrsrun
        PROVE  SameMessage(f, e)
    BY <2>4, <2>5 DEF SameMessage, SameMail, SameList
  <2>6. PICK c : c = [b EXCEPT !.bodydone = TRUE] OBVIOUS
  <2>7. /\ DOMAIN c = HandleFields /\ c.sigs = b.sigs /\ c.hdrs = b.hdrs /\ c.lib = b.lib /\ c.mode = b.mode
        /\ c.fed = b.fed /\ c.chunk = b.chunk /\ c.hdrsrun = b.hdrsrun
    BY <2>4, <2>6 DEF HandleFields
  <2>8. CASE e.chunk \notin {"INIT", "DONE"}
    <3>1. r.d = b BY <1>3, <1>5, <2>1, <2>8 DEF EomVerify, Is
    <3>. QED BY <2>4, <2>5, <3>1
  <2>9. CASE e.chunk \in {"INIT", "DONE"} /\ e.canons = "broken"
    <3>1. r = Abort(b) BY <1>3, <1>5, <2>1, <2>9 DEF EomVerify
    <3>. QED BY <3>1 DEF Abort
  <2>10. CASE e.chunk \in {"INIT", "DONE"} /\ e.canons # "broken" /\ e.sigs = <<>>
    <3>1. r = EomUnsigned(c) BY <1>3, <1>5, <2>1, <2>6, <2>10 DEF EomVerify
    <3>2. r.d = c \/ r.d = [c EXCEPT !.domain = TRUE] BY <3>1 DEF EomUnsigned, Is
    <3>3. PICK f : f = r.d OBVIOUS
    <3>4. /\ DOMAIN f = HandleFields /\ f.sigs = b.sigs /\ f.hdrs = b.hdrs /\ f.lib = b.lib /\ f.mode = b.mode
          /\ f.fed = b.fed /\ f.chunk = b.chunk /\ f.hdrsrun = b.hdrsrun
      BY <2>7, <3>2, <3>3 DEF HandleFields
    <3>. QED BY <2>5, <3>3, <3>4
  <2>11. CASE e.chunk \in {"INIT", "DONE"} /\ e.canons # "broken" /\ e.sigs # <<>>
    <3>1. PICK t : t = TooLarge(c) OBVIOUS
    <3>2. SameMessage(c, e) BY <2>5, <2>7
    <3>3. SameMessage(t, e)
      <4>1. ListOK(c) BY <1>1, <2>4, <2>7 DEF ListOK
      <4>2. \A j \in 1..Len(c.sigs) : DOMAIN c.sigs[j] = SigFields BY <1>1, <2>4, <2>7 DEF SigsOK, SigOK
      <4>3. SameMessage(t, c) BY <3>1, <4>1, <4>2, TooLargeSame
      <4>. QED BY <3>2, <4>3, SameMessageTwice
    <3>4. HandleOK(t, ans, q) /\ t.bodydone /\ t.state = EOM1
      <4>1. HandleOK(b, ans, q)
        <5>1. IsField(b.line, DOMAIN ans) /\ b.state \in Nat /\ e.state <= b.state /\ b.state >= EOM1 /\ b.state >= EOH2
          BY <2>2, <2>4 DEF HandleOK, EOM1, EOH2
        <5>2. (b.chunk = "HEADER" /\ b.state >= EOH2) \/ AllMade(e) BY <2>4, <5>1 DEF HandleOK
        <5>. QED BY <2>4, <5>1, <5>2, HandleLater
      <4>. QED BY <2>4, <2>6, <3>1, <4>1, TooLargeFacts
    <3>5. ListOK(t) /\ SigsOK(t, ans, q) BY <3>4, HandleFacts
    <3>6. PICK f : f = IF e.lib.final THEN Heard(t, cb, w) ELSE t OBVIOUS
    <3>7. SameMessage(f, e) /\ ListOK(f) /\ SigsOK(f, ans, q)
      <4>1. CASE ~e.lib.final BY <3>3, <3>5, <3>6, <4>1
      <4>2. CASE e.lib.final
        <5>1. \A j \in 1..Len(t.sigs) : DOMAIN t.sigs[j] = SigFields BY <3>5 DEF SigsOK, SigOK
        <5>2. f = Heard(t, cb, w) BY <3>6, <4>2
        <5>3. SameHandle(f, t) /\ IsSeq(f.sigs) /\ SigsOK(f, ans, q) BY <3>5, <5>2, HeardFacts
        <5>4. SameList(f.sigs, t.sigs) BY <3>5, <5>1, <5>2, HeardMarks
        <5>5. SameMessage(f, t) /\ ListOK(f) BY <5>3, <5>4 DEF SameMessage, SameMail, SameHandle, ListOK
        <5>. QED BY <3>3, <5>3, <5>5, SameMessageTwice
      <4>. QED BY <4>1, <4>2
    <3>8. r = EomFinal(f, cb, w) BY <1>3, <1>5, <2>1, <2>6, <2>11, <3>1, <3>6 DEF EomVerify
    <3>9. CASE f.lib.final /\ cb.st # "CONTINUE"
      <4>1. r.d = f BY <3>8, <3>9 DEF EomFinal, Is
      <4>. QED BY <3>7, <4>1
    <3>10. CASE ~(f.lib.final /\ cb.st # "CONTINUE")
      <4>1. PICK g : g = [f EXCEPT !.state = EOM2] OBVIOUS
      <4>2. r = Chosen(Choice(g, w)) BY <3>8, <3>10, <4>1 DEF EomFinal, EomDecide
      <4>3. /\ DOMAIN f = HandleFields /\ DOMAIN g = HandleFields /\ g.sigs = f.sigs /\ g.hdrs = f.hdrs /\ g.lib = f.lib
            /\ g.mode = f.mode /\ g.fed = f.fed /\ g.bodydone = f.bodydone /\ g.tail = f.tail
            /\ g.hdrsrun = f.hdrsrun /\ g.chunk = f.chunk
        BY <3>7, <4>1 DEF HandleFields, ListOK
      <4>4. SameMessage(g, f) BY <4>3 DEF SameMessage, SameMail, SameList
      <4>5. ListOK(g) /\ SigsOK(g, ans, q)
        <5>1. ASSUME NEW j \in 1..Len(g.sigs) PROVE SigOK(g, g.sigs[j], ans, q)
          <6>1. SigOK(f, g.sigs[j], ans, q) BY <3>7, <4>3 DEF SigsOK
          <6>. QED BY <4>3, <6>1, SigOKLater
        <5>. QED BY <3>7, <4>3, <5>1 DEF ListOK, SigsOK
      <4>6. PICK x : x = Choice(g, w) OBVIOUS
      <4>7. Alike(x.d, g, ans, q) BY <4>5, <4>6, ChoiceFacts
      <4>8. PICK y : y = x.d OBVIOUS
      <4>9. SameMessage(y, g) /\ DOMAIN y = HandleFields
        <5>1. Alike(y, g, ans, q) BY <4>7, <4>8
        <5>. QED BY ONLY <5>1, AlikeSame DEF Alike, SameHandle
      <4>10. r.d = y \/ r.d = [y EXCEPT !.signature = x.n] BY <4>2, <4>6, <4>8 DEF Chosen, Is
      <4>11. SameMessage(r.d, y) BY <4>9, <4>10 DEF SameMessage, SameMail, SameList, HandleFields
      <4>12. SameMessage(y, e) BY <3>7, <4>4, <4>9, SameMessageTwice
      <4>. QED BY <4>11, <4>12, SameMessageTwice
    <3>. QED BY <3>9, <3>10
  <2>. QED BY <2>8, <2>9, <2>10, <2>11
<1>. QED BY <1>4, <1>5

\* A piece of body counts once the headers were run.
LEMMA BodySame ==
    ASSUME NEW e, DOMAIN e = HandleFields, e.state \in Nat, e.fed \in Nat, TakesBody(e), NEW r, r = Body(e), r.ret # "ABORT"
    PROVE  /\ r.d.mode = e.mode /\ r.d.lib = e.lib /\ r.d.hdrs = e.hdrs /\ r.d.chunk = e.chunk /\ r.d.sigs = e.sigs
           /\ r.d.hdrsrun = e.hdrsrun /\ r.d.bodydone = e.bodydone /\ TakesBody(r.d)
           /\ e.hdrsrun => r.ret = "OK" /\ r.d.fed = e.fed + 1
<1>1. PICK b : b = [e EXCEPT !.state = BODY] OBVIOUS
<1>2. CASE e.state > BODY
  <2>1. r = Is(e, "INVALID") BY <1>2 DEF Body
  <2>2. ~e.hdrsrun BY <1>2 DEF TakesBody, BODY
  <2>. QED BY <2>1, <2>2 DEF Is
<1>3. CASE ~(e.state > BODY) /\ (e.skipbody \/ e.canons = "none")
  <2>1. r = Is(b, "OK") BY <1>1, <1>3 DEF Body
  <2>2. r.d = b /\ ~e.hdrsrun BY <1>3, <2>1 DEF TakesBody, Is
  <2>. QED BY <1>1, <2>2 DEF HandleFields, TakesBody, BODY
<1>4. CASE ~(e.state > BODY) /\ ~(e.skipbody \/ e.canons = "none")
  <2>1. e.canons # "broken"
    <3>1. SUFFICES ASSUME e.canons = "broken" PROVE FALSE OBVIOUS
    <3>2. r = Abort(b) BY <1>1, <1>4, <3>1 DEF Body
    <3>. QED BY <3>2 DEF Abort
  <2>2. r = Is([b EXCEPT !.fed = @ + 1], "OK") BY <1>1, <1>4, <2>1 DEF Body
  <2>3. r.ret = "OK" /\ r.d = [b EXCEPT !.fed = @ + 1] BY <2>2 DEF Is
  <2>. QED BY <1>1, <1>4, <2>3 DEF HandleFields, TakesBody, BODY
<1>. QED BY <1>2, <1>3, <1>4

\* Of finitely many numbers one is the greatest.
LEMMA Greatest ==
    ASSUME NEW n \in Nat, NEW f \in [1..n -> Int], NEW T, T \subseteq 1..n, T # {}
    PROVE  \E k \in T : \A j \in T : f[j] <= f[k]
<1>. DEFINE Top(m) == \E k \in T : k <= m /\ \A j \in T : j <= m => f[j] <= f[k]
            A == {m \in 0..n : (\A j \in T : j > m) \/ Top(m)}
<1>1. 0 \in A OBVIOUS
<1>2. ASSUME NEW m \in 1..n, m - 1 \in A PROVE m \in A
  <2>1. CASE m \notin T
    <3>1. \A j \in T : (j <= m <=> j <= m - 1) /\ (j > m - 1 => j > m) BY <2>1
    <3>2. m \in 0..n OBVIOUS
    <3>3. CASE \A j \in T : j > m - 1 BY <3>1, <3>2, <3>3
    <3>4. CASE Top(m - 1)
      <4>1. PICK k \in T : k <= m - 1 /\ \A j \in T : j <= m - 1 => f[j] <= f[k] BY <3>4
      <4>2. k <= m BY <3>1, <4>1
      <4>3. \A j \in T : j <= m => f[j] <= f[k] BY <3>1, <4>1
      <4>4. Top(m) BY <4>2, <4>3
      <4>. QED BY <3>2, <4>4
    <3>. QED BY <1>2, <3>3, <3>4
  <2>2. CASE m \in T /\ \A j \in T : j > m - 1
    <3>1. \A j \in T : j <= m => j = m BY <2>2
    <3>. QED BY <2>2, <3>1
  <2>3. CASE m \in T /\ Top(m - 1)
    <3>1. PICK k \in T : k <= m - 1 /\ \A j \in T : j <= m - 1 => f[j] <= f[k] BY <2>3
    <3>2. \A j \in T : j <= m => j = m \/ j <= m - 1 OBVIOUS
    <3>3. CASE f[m] <= f[k] BY <3>1, <3>2, <3>3
    <3>4. CASE ~(f[m] <= f[k])
      <4>1. \A j \in T : j <= m => f[j] <= f[m] BY <3>1, <3>2, <3>4
      <4>. QED BY <2>3, <4>1
    <3>. QED BY <3>3, <3>4
  <2>. QED BY <1>2, <2>1, <2>2, <2>3
<1>. HIDE DEF A
<1>3. 0..n \subseteq A BY <1>1, <1>2, Climb
<1>4. n \in A BY <1>3
<1>5. (\A j \in T : j > n) \/ Top(n) BY <1>4 DEF A
<1>6. \A j \in T : j <= n OBVIOUS
<1>7. ~(\A j \in T : j > n)
  <2>1. PICK j \in T : TRUE OBVIOUS
  <2>2. j \in 1..n OBVIOUS
  <2>3. ~(j > n) BY <2>2
  <2>. QED BY <2>3
<1>. QED BY <1>5, <1>6, <1>7

\* When no more body is wanted, no signature reaches beyond what was passed.
LEMMA MinBodyFacts ==
    ASSUME NEW e, NEW ans, NEW q, HandleOK(e, ans, q), e.mode = "verify", ~e.bodydone, MinBody(e) = 0
    PROVE  \A i \in 1..Len(e.sigs) : e.sigs[i].canon => e.sigs[i].len # -1 /\ e.sigs[i].len <= e.fed
<1>. DEFINE wants(g) == IF g.len = -1 THEN -1 ELSE g.len - Wrote(e, g)
            left == {wants(g) : g \in {h \in Range(e.sigs) : h.canon}}
            n == Len(e.sigs)
            T == {i \in 1..n : e.sigs[i].canon}
<1>1. n \in Nat /\ SigsOK(e, ans, q) /\ e.fed \in Nat BY HandleFacts DEF HandleOK
<1>2. \A i \in 1..n : e.sigs[i].len \in Int BY <1>1 DEF SigsOK, SigOK
<1>3. DOMAIN e.sigs = 1..n
  <2>1. PICK S : e.sigs \in Seq(S) BY DEF HandleOK, ListOK, IsSeq
  <2>. QED BY <2>1
<1>4. Range(e.sigs) = {e.sigs[i] : i \in 1..n} BY <1>3 DEF Range
<1>5. left = {wants(e.sigs[i]) : i \in T} BY <1>4
<1>6. PICK f : f = [i \in 1..n |-> wants(e.sigs[i])] OBVIOUS
<1>7. f \in [1..n -> Int] BY <1>1, <1>2, <1>6 DEF Wrote
<1>8. left = {f[i] : i \in T} BY <1>5, <1>6
<1>9. MinBody(e) = IF left = {} THEN 0 ELSE IF -1 \in left THEN -1 ELSE CHOOSE x \in left : \A y \in left : y <= x
  BY DEF MinBody
<1>10. SUFFICES ASSUME NEW i \in T PROVE e.sigs[i].len # -1 /\ e.sigs[i].len <= e.fed OBVIOUS
<1>11. f[i] \in left BY <1>8
<1>12. -1 \notin left
  <2>1. left # {} BY <1>11
  <2>. HIDE DEF left
  <2>. QED BY <1>9, <2>1
<1>13. \E x \in left : \A y \in left : y <= x
  <2>1. PICK k \in T : \A j \in T : f[j] <= f[k]
    <3>1. T \subseteq 1..n /\ T # {} OBVIOUS
    <3>. HIDE DEF T
    <3>. QED BY ONLY <1>1, <1>7, <3>1, Greatest
  <2>. QED BY <1>8, <2>1
<1>14. \A y \in left : y <= 0
  <2>1. PICK z : z = CHOOSE x \in left : \A y \in left : y <= x OBVIOUS
  <2>2. \A y \in left : y <= z
    <3>. HIDE DEF left
    <3>. QED BY <1>13, <2>1
  <2>3. z = 0
    <3>. HIDE DEF left
    <3>. QED BY <1>9, <1>11, <1>12, <2>1
  <2>. QED BY <2>2, <2>3
<1>15. f[i] <= 0 /\ f[i] # -1 BY <1>11, <1>12, <1>14
<1>. QED BY <1>1, <1>2, <1>6, <1>15 DEF Wrote
=============================================================================
