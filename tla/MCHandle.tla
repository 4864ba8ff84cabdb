------------------------------ MODULE MCHandle ------------------------------
(* Message handles for TLC: messages with up to three signatures.          *)
EXTENDS DkimTests

Screened == [Plain EXCEPT !.eohcheck = TRUE, !.prescreen = TRUE]
Asked == [Plain EXCEPT !.keycb = TRUE, !.final = TRUE]
Delayed == [Plain EXCEPT !.delay = TRUE, !.mbs = TRUE]
Failing == [Plain EXCEPT !.tmpfail = TRUE, !.skip = {"Other"}]

MCKeyNames == {"k1", "k2"}
Strict == [k1 |-> Published(Tags), k2 |-> Published([Tags EXCEPT !.strict = TRUE])]
NoSha1 == [k1 |-> Published(Tags), k2 |-> Published([Tags EXCEPT !.hashes = {"sha256"}])]
Revoked == [k1 |-> Published([Tags EXCEPT !.p = "empty"]), k2 |-> Published(Tags)]

Must == Field("Must")
S(s) == DkimSignature(s)

One == S(Sig("k1"))
Two == S([Sig("k2") EXCEPT !.sub = TRUE, !.over = 2])
SigPool == {One, Two,
    S([Sig("k1") EXCEPT !.l = 1]),
    S([Sig("k1") EXCEPT !.l = 2, !.over = 2, !.flaws = {"INVALID_Q"}]),
    S([Sig("k1") EXCEPT !.good = FALSE]),
    S([Sig("k2") EXCEPT !.must = FALSE]),
    S([Sig("k1") EXCEPT !.set = "bad"]) }
Odd == {<<From>>, <<Must>>, <<Field("Other"), From, One>>, <<[From EXCEPT !.colon = FALSE], One>>,
        <<[From EXCEPT !.addr = FALSE], One>>, <<Must, One, From>>}
Pairs == {<<From, a, b>> : a \in SigPool, b \in SigPool}
Triple == <<From, One, S([Sig("k1") EXCEPT !.over = 2]), One>>

\* A key that cannot be decoded, copied by a callback from a signature to one
\* whose hash the record does not allow for.
Late == [Plain EXCEPT !.final = TRUE, !.delay = TRUE]
Spoilt == [k1 |-> Published([Tags EXCEPT !.p = "undecodable", !.hashes = {"sha1"}]), k2 |-> Published(Tags)]
Copied == <<From, One, S([Sig("k1") EXCEPT !.hash = "sha256"]), One>>

MCSetups ==
    UNION {[mode : {"verify"}, lib : {Screened}, dns : {Strict}, msg : Pairs],
           [mode : {"verify"}, lib : {Asked}, dns : {NoSha1}, msg : Pairs],
           [mode : {"verify"}, lib : {Delayed}, dns : {Strict, Revoked}, msg : Pairs],
           [mode : {"verify", "sign"}, lib : {Plain, Asked, Failing}, dns : {Strict}, msg : Odd],
           [mode : {"verify"}, lib : {Delayed}, dns : {Strict}, msg : {Triple}],
           [mode : {"verify"}, lib : {Late}, dns : {Spoilt}, msg : {Copied}]}

\* For OwnLength: a signature without l=, made over a shorter body, behind one with l=.
Appended == <<From, S([Sig("k1") EXCEPT !.l = 1, !.good = FALSE]), S([Sig("k1") EXCEPT !.over = 1])>>
AppendedSetups == [mode : {"verify"}, lib : {Plain}, dns : {Strict}, msg : {Appended}]
=============================================================================
