------------------------------ MODULE DkimLib -------------------------------
(***************************************************************************)
(* What the calls of libopendkim on one message handle do.  A call is an   *)
(* operator from a handle to [d |-> new handle, ret |-> status]: the same  *)
(* operators serve the exploration of call sequences (DkimHandle), the     *)
(* replay of the library's own tests (DkimTests) and the mail filter       *)
(* (Filter).                                                               *)
(*                                                                         *)
(* Texts are abstracted to what the calls tell apart.  A body is a number  *)
(* of equal pieces; a hash over it is the number of pieces hashed.         *)
(***************************************************************************)
EXTENDS Integers, FiniteSets, Sequences, SequencesExt

\* States of a handle and of its streaming interface, in order.
INIT == 0
HEADER == 1
EOH1 == 2
EOH2 == 3
BODY == 4
EOM1 == 5
EOM2 == 6
UNUSABLE == 99

\* What is known of a signature from its tags and of how it was made: whether
\* it parses, the checks it fails, its key, whether the key made it over these
\* headers (even if the last one is passed with its CRLF), its l= or -1, the
\* pieces of body its bh= was made over, its hash, and the user of the sender,
\* whom dkim_key_granok() compares with g= (never the identity in i=).
Sig(key) == [set |-> "ok", flaws |-> {}, key |-> key, good |-> TRUE, tailok |-> TRUE, l |-> -1, over |-> 1,
             hash |-> "sha1", user |-> "user", sub |-> FALSE, must |-> TRUE]

\* Tags of a key record, and the record of which nothing was read.
Tags == [flaws |-> {}, hashes |-> {"sha1", "sha256"}, gran |-> "*", strict |-> FALSE, p |-> "good"]
NoTags == [flaws |-> {"untold"}, hashes |-> {}, gran |-> "*", strict |-> FALSE, p |-> "missing"]

Field(name) == [name |-> name, colon |-> TRUE, addr |-> TRUE, sig |-> Sig("none")]
NoHeader == [Field("none") EXCEPT !.colon = FALSE, !.addr = FALSE]

\* dkim_new(), called by dkim_sign() and dkim_verify().
New(mode, lib) ==
    [mode |-> mode, lib |-> lib, state |-> INIT, hdrs |-> <<>>, sigs |-> <<>>, siglist |-> FALSE,
     canons |-> "none", hdrsrun |-> FALSE, skipbody |-> FALSE, fed |-> 0, bodydone |-> FALSE,
     chunk |-> "INIT", line |-> NoHeader, cr |-> FALSE, tail |-> FALSE, domain |-> (mode = "sign"),
     signature |-> 0, signed |-> FALSE]

\* An assertion that fails, or memory that is not there: the process ends.
Abort(e) == [d |-> [e EXCEPT !.state = UNUSABLE, !.chunk = "DONE"], ret |-> "ABORT"]
Is(e, status) == [d |-> e, ret |-> status]

\* A loop: step(x, i) for i from 1 to n, beginning with base.
Repeat(step(_, _), base, n) ==
    LET run[i \in 0..n] == IF i = 0 THEN base ELSE step(run[i - 1], i) IN run[n]

\* The first of a list of checks that fails, "UNKNOWN" if none does.
FirstOf(checks, failing) ==
    LET hits == {n \in 1..Len(checks) : checks[n] \in failing}
    IN  IF hits = {} THEN "UNKNOWN" ELSE checks[CHOOSE n \in hits : \A m \in hits : n <= m]

-----------------------------------------------------------------------------
\* Mutant: malformed tags are not reported.
HeaderAnyTags(e, h) ==
    IF h.name = "empty" THEN Abort(e)
    ELSE IF e.state > HEADER THEN Is(e, "INVALID")
    ELSE IF e.mode = "sign" /\ h.name \in e.lib.skip THEN Is([e EXCEPT !.state = HEADER], "OK")
    ELSE Is([e EXCEPT !.state = HEADER, !.hdrs = Append(@, h)], "OK")

\* dkim_header().  The field is stored even if its tags are malformed: the
\* tag set is then marked bad and the status tells so.
Header(e, h) ==
    IF h.name = "empty" THEN Abort(e)
    ELSE IF e.state > HEADER THEN Is(e, "INVALID")
    ELSE IF e.mode = "sign" /\ h.name \in e.lib.skip THEN Is([e EXCEPT !.state = HEADER], "OK")
    ELSE Is([e EXCEPT !.state = HEADER, !.hdrs = Append(@, h)],
            IF h.name = "DKIM-Signature" /\ h.colon /\ h.sig.set = "bad" THEN "SYNTAX" ELSE "OK")

HasHeader(e, name) == \E n \in 1..Len(e.hdrs) : e.hdrs[n].name = name
FirstHeader(e, names) ==
    LET of == SelectSeq(e.hdrs, LAMBDA h : h.name \in names)
    IN  IF of = <<>> THEN NoHeader ELSE Head(of)

-----------------------------------------------------------------------------
\* dkim_siglist_setup(): the checks of a signature, in the order they are
\* made; the first that fails is the signature's error.
SetupChecks == <<"MISSING_D", "EMPTY_D", "MISSING_S", "EMPTY_S", "VERSION", "DOMAIN", "EXPIRED", "FUTURE",
                 "TIMESTAMPS", "MISSING_C", "INVALID_HC", "INVALID_BC", "MISSING_A", "INVALID_A",
                 "MISSING_H", "EMPTY_H", "INVALID_H", "INVALID_L", "INVALID_Q", "INVALID_QO",
                 "MISSING_BH", "EMPTY_BH", "MISSING_B", "EMPTY_B", "CORRUPT_B">>

SetupError(s) == FirstOf(SetupChecks, s.flaws)

\* Whether the checks come as far as the l= tag.
ReachesLength(s) ==
    \A n \in 1..Len(SetupChecks) : SetupChecks[n] = SetupError(s) => n >= 18

SigInfo(s, len) ==
    [spec |-> s, error |-> SetupError(s), ignore |-> FALSE, processed |-> FALSE, passed |-> FALSE,
     bh |-> "UNTESTED", len |-> len, canon |-> (SetupError(s) = "UNKNOWN"), key |-> "none",
     b64 |-> FALSE, tags |-> NoTags, strict |-> FALSE]

\* The length limit is a variable of the whole loop: a signature without l=
\* has the limit of the last one before it that had one.
SignLen(acc, s) == IF s.l # -1 /\ ReachesLength(s) THEN s.l ELSE acc.len

IsSignature(h) == h.name = "DKIM-Signature" /\ h.colon /\ h.sig.set = "ok"
Setup(e) ==
    LET add(acc, n) ==
            IF ~IsSignature(e.hdrs[n]) THEN acc
            ELSE LET len == SignLen(acc, e.hdrs[n].sig)
                 IN  [len |-> len, list |-> Append(acc.list, SigInfo(e.hdrs[n].sig, len))]
    IN  Repeat(add, [len |-> -1, list |-> <<>>], Len(e.hdrs)).list

-----------------------------------------------------------------------------
\* dkim_get_key(): the checks of a key record, in order, and those that a
\* record fails for a signature.
KeyChecks == <<"KEYVERSION", "KEYUNKNOWNHASH", "KEYHASHMISMATCH", "NOTEMAILKEY", "GRANULARITY",
               "KEYTYPEMISSING", "KEYTYPEUNKNOWN">>
KeyFlaws(s, rec) ==
    (rec.flaws \cap {"KEYVERSION", "NOTEMAILKEY", "KEYTYPEMISSING", "KEYTYPEUNKNOWN"})
        \cup (IF rec.hashes \cap {"sha1", "sha256"} = {} THEN {"KEYUNKNOWNHASH"} ELSE {})
        \cup (IF s.hash \notin rec.hashes THEN {"KEYHASHMISMATCH"} ELSE {})
        \cup (IF rec.gran \notin {"*", s.user} THEN {"GRANULARITY"} ELSE {})
KeyError(s, rec) == FirstOf(KeyChecks, KeyFlaws(s, rec))
KeyStatus(error) == IF error \in {"KEYHASHMISMATCH", "NOTEMAILKEY", "GRANULARITY"} THEN "CANTVRFY" ELSE "SYNTAX"

\* The key itself, unless it was copied.
DataStatus(rec) ==
    CASE rec.p \in {"missing", "undecodable"} -> "SYNTAX" [] rec.p = "empty" -> "REVOKED" [] OTHER -> "OK"

\* The first processed signature with the same selector and domain.
Donors(e, i) == {j \in 1..Len(e.sigs) : j # i /\ e.sigs[j].processed /\ e.sigs[j].spec.key = e.sigs[i].spec.key}
Donor(e, i) == CHOOSE j \in Donors(e, i) : \A k \in Donors(e, i) : j <= k

\* The key and the record it hands on.  Only a key that was decoded from its
\* record is copied with its data; one that could not be decoded has no length.
Handed(e, i) ==
    LET from == e.sigs[Donor(e, i)]
    IN  IF Donors(e, i) = {} THEN [key |-> "none", tags |-> NoTags]
        ELSE [key |-> IF from.key \in {"none", "undecodable"} \/ from.b64 THEN from.key ELSE "garbage",
              tags |-> from.tags]

\* A record is read: its tags are kept, and the key too unless one was handed on.
ReadRecord(g, gotkey, rec) ==
    LET error == KeyError(g.spec, rec)
        st == IF gotkey THEN "OK" ELSE DataStatus(rec)
        kept == [g EXCEPT !.tags = rec]
        held == IF gotkey \/ rec.p \in {"missing", "empty"} THEN kept
                ELSE [kept EXCEPT !.key = rec.p, !.b64 = TRUE]
    IN  IF error # "UNKNOWN" THEN [st |-> KeyStatus(error), g |-> [kept EXCEPT !.error = error]]
        ELSE IF st # "OK" THEN [st |-> st, g |-> held]
        ELSE [st |-> "OK", g |-> [held EXCEPT !.strict = rec.strict]]

\* ans is what a lookup gets, if one is made.
KeyOf(g, had, ans, keycb) ==
    LET gotkey == had.key # "none"
        gotset == had.tags # NoTags
        copied == IF gotkey THEN [g EXCEPT !.key = had.key] ELSE g
    IN  IF ~gotkey /\ (keycb \/ ~gotset) /\ ans.st # "OK" THEN [st |-> ans.st, g |-> copied]
        ELSE IF ~gotset /\ "malformed" \in ans.rec.flaws THEN [st |-> "SYNTAX", g |-> copied]
        ELSE ReadRecord(copied, gotkey, IF gotset THEN had.tags ELSE ans.rec)

\* w says how lookups go during this call: w.ans gives every key's answer,
\* w.luck what uninitialised memory holds.  Returns the status and the
\* signature.
GetKey(e, i, w) == KeyOf(e.sigs[i], Handed(e, i), w.ans[e.sigs[i].spec.key], e.lib.keycb)

-----------------------------------------------------------------------------
\* dkim_canon_write() counts what a body canonicalization consumed.
Wrote(e, g) == IF g.len = -1 \/ e.fed < g.len THEN e.fed ELSE g.len

\* dkim_sig_process() after the key was got: it is loaded and the header
\* hash verified.  A key that cannot be loaded leaves the signature unprocessed.
Loads(g, w) == g.key = "good" \/ (g.key = "garbage" /\ w.luck)
RSAVerify(e, g, w) ==
    IF ~Loads(g, w) THEN [g EXCEPT !.error = "KEYDECODE"]
    ELSE IF g.spec.good /\ (e.tail => g.spec.tailok) THEN [g EXCEPT !.passed = TRUE, !.processed = TRUE]
    ELSE [g EXCEPT !.error = "BADSIG", !.processed = TRUE]

\* The rest of dkim_sig_process(): body hash, t=s, must-be-signed headers.
BodyHash(e, g) ==
    IF e.bodydone /\ g.bh = "UNTESTED" /\ g.passed
    THEN [g EXCEPT !.bh = IF g.spec.over = Wrote(e, g) THEN "MATCH" ELSE "MISMATCH"]
    ELSE g

Concluded(e, g) ==
    LET a == IF g.strict /\ g.spec.sub THEN [g EXCEPT !.error = "SUBDOMAIN"] ELSE g
        b == IF e.lib.mbs /\ HasHeader(e, "Must") /\ ~g.spec.must THEN [a EXCEPT !.error = "MBSFAILED"] ELSE a
    IN  IF b.error = "UNKNOWN" /\ b.bh # "UNTESTED" THEN [b EXCEPT !.error = "OK"] ELSE b

Settled(st, error) ==
    CASE st \in {"NOKEY", "KEYFAIL"} -> st
      [] st \in {"CANTVRFY", "SYNTAX"} -> IF error = "UNKNOWN" THEN "DNSSYNTAX" ELSE error
      [] st = "MULTIDNSREPLY" -> "MULTIREPLY"
      [] st = "REVOKED" -> "KEYREVOKED"
      [] OTHER -> "retry"

Store(e, i, g) == [e EXCEPT !.sigs[i] = g]

\* The signature was verified, or its key could not be loaded.
Verified(e, i, g) == Is(Store(e, i, IF g.error = "KEYDECODE" THEN g ELSE Concluded(e, BodyHash(e, g))), "OK")

\* The lookup of the key is over; k is what GetKey returned.
WithKey(e, i, k, w) ==
    LET error == Settled(k.st, k.g.error)
    IN  IF k.st = "OK" THEN Verified(e, i, RSAVerify(e, k.g, w))
        ELSE IF error = "retry" THEN Is(Store(e, i, k.g), k.st)
        ELSE Is(Store(e, i, [k.g EXCEPT !.processed = TRUE, !.error = error]), "OK")

SigProcess(e, i, w) ==
    LET g == e.sigs[i]
    IN  IF g.ignore \/ g.error # "UNKNOWN" THEN Is(e, "OK")
        ELSE IF g.processed THEN Verified(e, i, g)
        ELSE IF ~e.hdrsrun THEN Is(e, "INTERNAL")
        ELSE WithKey(e, i, GetKey(e, i, w), w)

-----------------------------------------------------------------------------
\* What a callback on the list of signatures may do: process some
\* (dkim_sig_process()), mark some to be ignored (dkim_sig_ignore()), change
\* their order, and say how to go on.
Silent == [st |-> "CONTINUE", ignore |-> {}, process |-> {}, swap |-> FALSE]
Ignored(e, set) == [e EXCEPT !.sigs = [i \in 1..Len(e.sigs) |-> [e.sigs[i] EXCEPT !.ignore = @ \/ i \in set]]]
Heard(e, cb, w) ==
    LET step(acc, i) == IF i \in cb.process THEN SigProcess(acc, i, w).d ELSE acc
        marked == Ignored(Repeat(step, e, Len(e.sigs)), cb.ignore)
    IN  IF cb.swap THEN [marked EXCEPT !.sigs = Reverse(@)] ELSE marked
CallbackStatus(st) == CASE st = "REJECT" -> "CBREJECT" [] st = "TRYAGAIN" -> "CBTRYAGAIN" [] OTHER -> "CBINVALID"

\* dkim_eoh_verify() from the moment the headers were run: every signature
\* still in question is processed, in order, up to the first that cannot be.
ProcessAll(e, w) ==
    LET wanted(g) == ~g.processed /\ ~g.ignore /\ g.error = "UNKNOWN"
        step(acc, i) == IF acc.ret # "OK" \/ ~wanted(acc.d.sigs[i]) THEN acc ELSE SigProcess(acc.d, i, w)
    IN  Repeat(step, Is(e, "OK"), Len(e.sigs))

StillGood(e) == \E i \in 1..Len(e.sigs) :
    LET g == e.sigs[i] IN ~g.ignore /\ g.error \in {"UNKNOWN", "OK"} /\ (g.processed => g.passed)

EohCheck(r) == IF r.ret = "OK" /\ r.d.lib.eohcheck /\ ~StillGood(r.d) THEN Is(r.d, "CANTVRFY") ELSE r

EohDecide(e, w) ==
    LET run == [e EXCEPT !.hdrsrun = TRUE]
    IN  IF \A i \in 1..Len(e.sigs) : e.sigs[i].ignore THEN Is([e EXCEPT !.skipbody = TRUE], "NOSIG")
        ELSE IF e.canons = "broken" THEN Abort(e)
        ELSE EohCheck(IF e.lib.delay THEN Is(run, "OK") ELSE ProcessAll(run, w))

\* The list of signatures is made once; a later call goes on with it.
EohList(e, sigs) ==
    LET fails == e.lib.tmpfail /\ \E i \in 1..Len(sigs) : sigs[i].canon
    IN  IF sigs = <<>> THEN Is([e EXCEPT !.skipbody = TRUE], "NOSIG")
        ELSE Is([e EXCEPT !.siglist = TRUE, !.sigs = sigs, !.canons = IF fails THEN "broken" ELSE "ready"],
                IF fails THEN "NORESOURCE" ELSE "OK")
EohSigs(e) == IF e.siglist THEN Is(e, "OK") ELSE EohList(e, Setup(e))

\* The application's prescreen callback sees the list first.
EohScreened(e, cb, w) ==
    IF e.lib.prescreen /\ cb.st # "CONTINUE" THEN Is(e, CallbackStatus(cb.st))
    ELSE EohDecide([e EXCEPT !.state = EOH2], w)
EohListed(s, cb, w) ==
    IF s.ret # "OK" THEN s
    ELSE EohScreened(IF s.d.lib.prescreen THEN Heard(s.d, cb, w) ELSE s.d, cb, w)

EohVerify(e, cb, w) ==
    LET sender == FirstHeader(e, {"From"})
        b == [e EXCEPT !.state = IF @ < EOH1 THEN EOH1 ELSE @]
    IN  IF e.state >= EOH2 THEN Is(e, "INVALID")
        ELSE IF sender = NoHeader THEN Is([b EXCEPT !.state = UNUSABLE], "SYNTAX")
        ELSE IF ~sender.colon THEN Is(b, "SYNTAX")
        ELSE IF ~sender.addr THEN Is([b EXCEPT !.state = UNUSABLE], "SYNTAX")
        ELSE EohListed(EohSigs([b EXCEPT !.domain = TRUE]), cb, w)

\* dkim_eoh_sign().
EohSign(e) ==
    LET b == [e EXCEPT !.state = EOH2]
        s == [b EXCEPT !.siglist = TRUE, !.canons = IF e.lib.tmpfail THEN "broken" ELSE "ready"]
    IN  IF e.state >= EOH2 THEN Is(e, "INVALID")
        ELSE IF ~HasHeader(e, "From") THEN Is([b EXCEPT !.state = UNUSABLE], "SYNTAX")
        ELSE IF e.lib.tmpfail THEN Is(s, "NORESOURCE")
        ELSE Is([s EXCEPT !.hdrsrun = TRUE], "OK")

Eoh(e, cb, w) == IF e.mode = "verify" THEN EohVerify(e, cb, w) ELSE EohSign(e)

-----------------------------------------------------------------------------
\* dkim_body().
Body(e) ==
    LET b == [e EXCEPT !.state = BODY]
    IN  IF e.state > BODY THEN Is(e, "INVALID")
        ELSE IF e.skipbody \/ e.canons = "none" THEN Is(b, "OK")
        ELSE IF e.canons = "broken" THEN Abort(b)
        ELSE Is([b EXCEPT !.fed = @ + 1], "OK")

\* dkim_eom_verify(): l= beyond the end of the body.
TooLarge(e) ==
    [e EXCEPT !.sigs = [i \in 1..Len(@) |->
        IF @[i].canon /\ @[i].len # -1 /\ Wrote(e, @[i]) < @[i].len
        THEN [@[i] EXCEPT !.error = "TOOLARGE_L"] ELSE @[i]]]

Passing(g) == g.passed /\ g.bh = "MATCH"
PassingOnes(e) == {i \in 1..Len(e.sigs) : Passing(e.sigs[i])}
Pick(e, wanted) ==
    LET hits == {i \in wanted : ~e.sigs[i].ignore}
    IN  IF hits = {} THEN 0 ELSE CHOOSE i \in hits : \A j \in hits : i <= j

\* Mutant: only the first signature is run.
RunFirst(e, w) ==
    LET r == SigProcess(e, 1, w) IN [d |-> r.d, n |-> IF Passing(r.d.sigs[1]) THEN 1 ELSE 0]

\* The first passing signature there is; else the signatures are run one by
\* one until one passes; else the first that is not ignored.
Tried(r, i) == [d |-> r.d, n |-> IF r.ret = "OK" /\ Passing(r.d.sigs[i]) THEN i ELSE 0]
RunUntilPass(e, w) ==
    LET step(acc, i) ==
            IF acc.n # 0 \/ acc.d.sigs[i].ignore THEN acc ELSE Tried(SigProcess(acc.d, i, w), i)
    IN  Repeat(step, [d |-> e, n |-> 0], Len(e.sigs))

OrFirst(r) == IF r.n # 0 THEN r ELSE [r EXCEPT !.n = Pick(r.d, 1..Len(r.d.sigs))]
Choice(e, w) ==
    IF Pick(e, PassingOnes(e)) # 0 THEN [d |-> e, n |-> Pick(e, PassingOnes(e))] ELSE OrFirst(RunUntilPass(e, w))

\* Mutant: the body hash is forgotten.
VerdictNoBody(g) ==
    CASE g.error \notin {"OK", "UNKNOWN", "KEYFAIL", "BADSIG", "KEYREVOKED", "NOKEY"} -> "CANTVRFY"
      [] g.error = "NOKEY" -> "NOKEY"
      [] g.error = "KEYFAIL" -> "KEYFAIL"
      [] g.error = "KEYREVOKED" -> "REVOKED"
      [] g.error \in {"OK", "UNKNOWN", "BADSIG"} -> IF ~g.passed \/ g.error = "BADSIG" THEN "BADSIG" ELSE "OK"

Verdict(g) ==
    CASE g.error \notin {"OK", "UNKNOWN", "KEYFAIL", "BADSIG", "KEYREVOKED", "NOKEY"} -> "CANTVRFY"
      [] g.error = "NOKEY" -> "NOKEY"
      [] g.error = "KEYFAIL" -> "KEYFAIL"
      [] g.error = "KEYREVOKED" -> "REVOKED"
      [] g.error \in {"OK", "UNKNOWN", "BADSIG"} ->
           IF ~g.passed \/ g.bh = "MISMATCH" \/ g.error = "BADSIG" THEN "BADSIG" ELSE "OK"

Chosen(c) == IF c.n = 0 THEN Is(c.d, "NOSIG") ELSE Is([c.d EXCEPT !.signature = c.n], Verdict(c.d.sigs[c.n]))
EomDecide(e, w) == Chosen(Choice([e EXCEPT !.state = EOM2], w))

EomUnsigned(e) ==
    LET from == FirstHeader(e, {"From"})
    IN  IF e.domain \/ (from.colon /\ from.addr) THEN Is([e EXCEPT !.domain = TRUE], "NOSIG")
        ELSE Is(e, "CANTVRFY")

\* The application's final callback sees the signatures first.
EomFinal(e, cb, w) ==
    IF e.lib.final /\ cb.st # "CONTINUE" THEN Is(e, CallbackStatus(cb.st)) ELSE EomDecide(e, w)

EomVerify(e, cb, w) ==
    LET b == [e EXCEPT !.state = IF @ < EOM1 THEN EOM1 ELSE @]
        t == TooLarge([b EXCEPT !.bodydone = TRUE])
    IN  IF e.state >= EOM2 THEN Is(e, "INVALID")
        ELSE IF e.chunk \notin {"INIT", "DONE"} THEN Is(b, "INVALID")
        ELSE IF e.canons = "broken" THEN Abort(b)
        ELSE IF e.sigs = <<>> THEN EomUnsigned([b EXCEPT !.bodydone = TRUE])
        ELSE EomFinal(IF e.lib.final THEN Heard(t, cb, w) ELSE t, cb, w)

\* dkim_eom_sign(); w.luck: the private key can be parsed.
EomSign(e, w) ==
    LET b == [e EXCEPT !.state = EOM2]
    IN  IF e.state >= EOM2 THEN Is(e, "INVALID")
        ELSE IF e.chunk \notin {"INIT", "DONE"} THEN Is(b, "INVALID")
        ELSE IF e.canons # "ready" THEN Abort(b)
        ELSE IF ~w.luck THEN Is([b EXCEPT !.bodydone = TRUE], "NORESOURCE")
        ELSE Is([b EXCEPT !.bodydone = TRUE, !.signature = 1, !.signed = TRUE], "OK")

Eom(e, cb, w) == IF e.mode = "verify" THEN EomVerify(e, cb, w) ELSE EomSign(e, w)

\* dkim_getsighdr().
GetSigHdr(e) ==
    IF e.state # EOM2 \/ e.mode # "sign" THEN Is(e, "INVALID") ELSE IF ~e.siglist THEN Abort(e) ELSE Is(e, "OK")

\* dkim_set_margin(), given a margin that is not negative.
SetMargin(e) == Is(e, IF e.mode # "sign" \/ e.state >= EOM2 THEN "INVALID" ELSE "OK")

\* dkim_minbody(): how much more body any signature wants, -1 for all of it.
MinBody(e) ==
    LET wants(g) == IF g.len = -1 THEN -1 ELSE g.len - Wrote(e, g)
        left == {wants(g) : g \in {h \in Range(e.sigs) : h.canon}} \cup IF e.mode = "sign" /\ e.siglist THEN {-1} ELSE {}
    IN  IF e.bodydone \/ left = {} THEN 0 ELSE IF -1 \in left THEN -1 ELSE CHOOSE n \in left : \A m \in left : m <= n

-----------------------------------------------------------------------------
\* The headers have ended, with status r.ret.
ChunkEoh(r) == IF r.ret # "OK" THEN r ELSE Is([r.d EXCEPT !.chunk = "BODY", !.cr = FALSE, !.line = NoHeader], "OK")

\* Mutant: the blank line ends the headers before the last field was passed on.
ChunkLineEarly(e, tok, cb, w) ==
    LET header == Header(e, e.line)
    IN  CASE e.chunk = "BODY" -> Body(e)
          [] e.chunk = "HEADER" /\ e.line = NoHeader -> Is([e EXCEPT !.line = tok.h], "OK")
          [] e.chunk = "HEADER" /\ e.line # NoHeader /\ tok.t # "blank" ->
               IF header.ret = "OK" THEN Is([header.d EXCEPT !.line = tok.h], "OK") ELSE header
          [] OTHER -> ChunkEoh(Eoh(e, cb, w))

\* dkim_chunk() on a text cut into lines: [t |-> "line", h |-> a header
\* field], [t |-> "blank"] and [t |-> "body"].  A field is passed on when the
\* next line shows that it is complete.  When passing it on fails, it stays
\* in the buffer and the rest of the text is dropped; e.cr remembers that the
\* failure was at the blank line.
ChunkLine(e, tok, cb, w) ==
    LET header == Header(e, e.line)
    IN  CASE e.chunk = "BODY" -> Body(e)
          [] e.chunk = "HEADER" /\ e.line = NoHeader ->
               Is([e EXCEPT !.line = IF tok.t = "line" THEN tok.h ELSE [NoHeader EXCEPT !.name = "empty"]], "OK")
          [] e.chunk = "HEADER" /\ e.line # NoHeader /\ header.ret # "OK" ->
               Is([header.d EXCEPT !.cr = @ \/ tok.t = "blank"], header.ret)
          [] e.chunk = "HEADER" /\ e.line # NoHeader /\ header.ret = "OK" /\ (tok.t # "blank" \/ e.cr) ->
               Is([header.d EXCEPT !.cr = FALSE,
                                   !.line = IF e.cr THEN [NoHeader EXCEPT !.name = "Other"] ELSE tok.h], "OK")
          [] OTHER -> ChunkEoh(Eoh([header.d EXCEPT !.cr = TRUE], cb, w))

\* The call that ends the message.  A last field is passed on with its CRLF.
ChunkDone(r) == IF r.ret = "OK" THEN Is([r.d EXCEPT !.chunk = "DONE"], "OK") ELSE r
ChunkEnd(e, cb, w) ==
    LET field == IF e.line.name = "empty" THEN [e.line EXCEPT !.name = "Other"] ELSE e.line
        header == IF e.line = NoHeader THEN Is(e, "OK") ELSE Header([e EXCEPT !.tail = TRUE], field)
    IN  ChunkDone(IF e.chunk # "HEADER" THEN Is(e, "OK")
                  ELSE IF header.ret # "OK" THEN header ELSE Eoh(header.d, cb, w))

Chunk(e, toks, cb, w) ==
    LET b == IF e.chunk = "INIT" THEN [e EXCEPT !.chunk = "HEADER", !.line = NoHeader] ELSE e
        step(acc, n) == IF acc.ret # "OK" THEN acc ELSE ChunkLine(acc.d, toks[n], cb, w)
    IN  IF e.chunk = "DONE" THEN Is(e, "INVALID")
        ELSE IF toks = <<>> THEN ChunkEnd(b, cb, w)
        ELSE Repeat(step, Is(b, "OK"), Len(toks))

-----------------------------------------------------------------------------
(* What signatures, header fields and key records may be like.             *)

SetupFlaws == {SetupChecks[n] : n \in 1..Len(SetupChecks)}
IsSig(s) == DOMAIN s = DOMAIN Sig("none") /\ s.l \in Int /\ s.flaws \subseteq SetupFlaws
IsField(h, keys) ==
    /\ DOMAIN h = {"name", "colon", "addr", "sig"} /\ IsSig(h.sig)
    /\ h.name = "DKIM-Signature" => h.sig.key \in keys
IsRecord(rec) ==
    /\ rec.flaws \subseteq {"malformed", "KEYVERSION", "NOTEMAILKEY", "KEYTYPEMISSING", "KEYTYPEUNKNOWN"}
    /\ rec.p \in {"good", "missing", "empty", "undecodable", "notkey"}

-----------------------------------------------------------------------------
\* What makes a signature good, told from the message and the key's record alone.

KeyUsable(s, a) ==
    /\ a.st = "OK" /\ "malformed" \notin a.rec.flaws
    /\ KeyFlaws(s, a.rec) = {} /\ a.rec.p = "good"
    /\ ~(a.rec.strict /\ s.sub)

BodyIntact(s, fed) == IF s.l = -1 THEN s.over = fed ELSE s.l <= fed /\ s.over = s.l

Genuine(e, s, ans) ==
    /\ s.flaws = {} /\ s.good /\ (e.tail => s.tailok)
    /\ KeyUsable(s, ans) /\ BodyIntact(s, e.fed)
    /\ e.lib.mbs /\ HasHeader(e, "Must") => s.must
=============================================================================
