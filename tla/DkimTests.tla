------------------------------ MODULE DkimTests ------------------------------
(***************************************************************************)
(* The library's own tests (t-setup.c, t-testNN.c) as clients of the       *)
(* handle: each test is the sequence of calls its main() makes with the    *)
(* status it asserts for each, played on the operators of DkimLib.         *)
(*                                                                         *)
(* Texts are abstracted as in DkimLib: a test's signature is what it       *)
(* was made over and what is wrong with it, a body call is one piece.      *)
(* What the tests say of the signature's text, of its canonicalization     *)
(* and of policies is not replayed.                                        *)
(***************************************************************************)
EXTENDS DkimHandle, TLC

VARIABLES
    test,      \* the test being played, "none" for a client that does as it likes
    script,    \* its steps still to come
    outcome    \* what the last step asserts and what the model gave

testvars == <<test, script, outcome>>

Plain == [skip |-> {}, delay |-> FALSE, eohcheck |-> FALSE, prescreen |-> FALSE, final |-> FALSE,
          keycb |-> FALSE, mbs |-> FALSE, tmpfail |-> FALSE]
Published(rec) == [st |-> "OK", rec |-> rec]

\* t-setup.c writes the file of keys the tests use, selector by selector.
KeyFile ==
    [k \in {"none", "nosuchkey", "freelotto"} |-> [st |-> "NOKEY", rec |-> NoTags]] @@
    [test |-> Published([Tags EXCEPT !.strict = TRUE]),
     brisbane |-> Published(Tags),
     sendmail |-> Published(Tags),
     granular |-> Published([Tags EXCEPT !.strict = TRUE, !.gran = "M*K"]),
     badv |-> Published([Tags EXCEPT !.flaws = {"KEYVERSION"}]),
     sha256only |-> Published([Tags EXCEPT !.hashes = {"sha256"}]),
     badh |-> Published([Tags EXCEPT !.hashes = {"other"}]),
     nok |-> Published(Tags),
     badk |-> Published([Tags EXCEPT !.flaws = {"KEYTYPEUNKNOWN"}]),
     emptyp |-> Published([Tags EXCEPT !.p = "empty"]),
     nop |-> Published([Tags EXCEPT !.p = "missing"]),
     corruptp |-> Published([Tags EXCEPT !.p = "notkey"])]

-----------------------------------------------------------------------------
\* Steps: a call, its argument, what it must return and how its callback acts.
Call(do, arg, want) == [do |-> do, arg |-> arg, want |-> want, cb |-> Silent]
HeardBy(step, cb) == [step EXCEPT !.cb = cb]

Opens(mode, lib) == <<Call("new", [mode |-> mode, lib |-> lib], "OK")>>
Passes(fields) == [i \in 1..Len(fields) |-> Call("header", fields[i], "OK")]
Refused(field) == <<Call("header", field, "SYNTAX")>>
EndsHeader(st) == <<Call("eoh", 0, st)>>
Bodies(n) == [i \in 1..n |-> Call("body", 0, "OK")]
Ends(st) == <<Call("eom", 0, st)>>
Error(i, e) == <<Call("error", i, e)>>
Errors(list) == [i \in 1..Len(list) |-> Call("error", i, list[i])]
Signatures(n) == <<Call("nsigs", 0, n)>>

\* HEADER02 to HEADER09 of t-testdata.h; verifying tests pass HEADER01 first.
From == Field("From")
Other(n) == [i \in 1..n |-> Field("Other")]
Mail == Other(3) \o <<From>> \o Other(4)
Trace == Other(1)

\* A good signature of these tests, made over 15 pieces of body.
SigOver(n) == [Sig("test") EXCEPT !.over = n]
Sig2 == SigOver(15)
Limited == [Sig2 EXCEPT !.l = 15]
Flawed(check) == [Sig2 EXCEPT !.flaws = {check}]
DkimSignature(s) == [Field("DKIM-Signature") EXCEPT !.sig = s]
Malformed == DkimSignature([Sig2 EXCEPT !.set = "bad"])

\* The plan most signing and most verifying tests share.
SigningWith(lib, fields, n) ==
    Opens("sign", lib) \o Passes(fields) \o EndsHeader("OK") \o Bodies(n) \o Ends("OK")
        \o <<Call("getsighdr", 0, "OK")>>
Signing(fields, n) == SigningWith(Plain, fields, n)
VerifyingWith(lib, sigs, fields, n, st) ==
    Opens("verify", lib) \o Passes([i \in 1..Len(sigs) |-> DkimSignature(sigs[i])] \o fields)
        \o EndsHeader("OK") \o Bodies(n) \o Ends(st)
Verifying(s, n, st) == VerifyingWith(Plain, <<s>>, Trace \o Mail, n, st)

\* Skipped headers, callbacks and other settings of the library.
Skipping == [Plain EXCEPT !.skip = {"Skip"}]
WithKeys == [Plain EXCEPT !.keycb = TRUE]
Screening == [Plain EXCEPT !.prescreen = TRUE]
Finishing == [Plain EXCEPT !.final = TRUE]

\* A callback of one of the calls, signatures with one fault each and
\* signatures by various keys, and the whole message as a text.
Hears(steps, do, cb) == [i \in 1..Len(steps) |-> IF steps[i].do = do THEN HeardBy(steps[i], cb) ELSE steps[i]]
Faulty(checks) == [i \in 1..Len(checks) |-> DkimSignature(Flawed(checks[i]))]
Keyed(keys) == [i \in 1..Len(keys) |-> DkimSignature([Sig2 EXCEPT !.key = keys[i], !.good = FALSE])]
Streamed ==
    <<Line(DkimSignature(Sig2))>> \o [i \in 1..9 |-> Line((Trace \o Mail)[i])] \o <<Blank>> \o [i \in 1..15 |-> Piece]

-----------------------------------------------------------------------------
\* Signing, for each pair of canonicalizations and each hash.
\* rsa-sha1
T00 == Signing(Mail, 15)
T01 == Signing(Mail, 15)
T02 == Signing(Mail, 15)
T03 == Signing(Mail, 15)
\* rsa-sha1 with a body length tag
T08 == Signing(Mail, 15)
T09 == Signing(Mail, 15)
T10 == Signing(Mail, 15)
T11 == Signing(Mail, 15)
\* rsa-sha256
T16 == Signing(Mail, 15)
T17 == Signing(Mail, 15)
T18 == Signing(Mail, 15)
T19 == Signing(Mail, 15)
\* rsa-sha256 with a body length tag
T24 == Signing(Mail, 15)
T25 == Signing(Mail, 15)
T26 == Signing(Mail, 15)
T27 == Signing(Mail, 15)
\* multiple Received, a z= tag, skipped fields, over-signing, margins, long and odd bodies
T33 == Signing(Mail, 15)
T44 == SigningWith(Skipping, <<Field("Skip")>> \o Mail, 15)
T47 == Signing(Mail, 15)
T50 == Signing(Mail, 15)
T52 == Signing(Mail, 15)
T54 == SigningWith(Skipping, <<Field("Skip")>> \o Mail \o <<Field("Skip"), Field("Skip")>>, 15)
T55 == Signing(Mail, 2)
T57 == Signing(Mail, 2)
T65 == Signing(Mail, 15)
T71 == Signing(Mail \o Other(1), 15)
T77 == Signing(Mail, 15)
T79 == Signing(Mail, 15)
T81 == Signing(Mail, 15)
T83 == Signing(Mail, 15)
T85 == Signing(Mail, 15)
T90 == Signing(Mail, 15)
T91 == Signing(Mail, 15)
T92 == Signing(Mail, 15)
T122 == Signing(Mail, 2)
T127 == Signing(Mail, 2)

-----------------------------------------------------------------------------
\* Verifying what was signed.
\* rsa-sha1
T04 == Verifying(Sig2, 15, "OK")
T05 == Verifying(Sig2, 15, "OK")
T06 == Verifying(Sig2, 15, "OK")
T07 == Verifying(Sig2, 15, "OK")
\* a body length tag and more data behind it
T12 == Verifying(Limited, 16, "OK")
T13 == Verifying(Limited, 16, "OK")
T14 == Verifying(Limited, 16, "OK")
T15 == Verifying(Limited, 16, "OK")
\* rsa-sha256
T20 == Verifying([Sig2 EXCEPT !.hash = "sha256"], 15, "OK")
T21 == Verifying([Sig2 EXCEPT !.hash = "sha256"], 15, "OK")
T22 == Verifying([Sig2 EXCEPT !.hash = "sha256"], 15, "OK")
T23 == Verifying([Sig2 EXCEPT !.hash = "sha256"], 15, "OK")
T28 == Verifying([Limited EXCEPT !.hash = "sha256"], 16, "OK")
T29 == Verifying([Limited EXCEPT !.hash = "sha256"], 16, "OK")
T30 == Verifying([Limited EXCEPT !.hash = "sha256"], 16, "OK")
T31 == Verifying([Limited EXCEPT !.hash = "sha256"], 16, "OK")
\* fields in another order, unfolded or spaced differently
T32 == VerifyingWith(Plain, <<Sig2>>, Other(7) \o <<From>> \o Other(1), 15, "OK")
T34 == Verifying(Sig2, 15, "OK")
T37 == Verifying(Sig2, 15, "OK")
T38 == Verifying(Sig2, 15, "OK")
T39 == Verifying(Sig2, 15, "OK")
T40 == Verifying(Sig2, 15, "OK")
T43 == VerifyingWith(Plain, <<Sig2>>, Trace \o Mail \o Other(2), 15, "OK")
\* the example of RFC 4871
T51 == VerifyingWith(Plain, <<[SigOver(1) EXCEPT !.key = "brisbane", !.sub = TRUE, !.hash = "sha256"]>>,
                     Other(1) \o <<From>> \o Other(4), 1, "OK")
T53 == VerifyingWith(Plain, <<Sig2>>, Mail, 15, "OK") \o Signatures(1)
T56 == VerifyingWith(Plain, <<SigOver(2)>>, Mail, 2, "OK")
T69 == VerifyingWith([Plain EXCEPT !.delay = TRUE], <<Sig2>>, Trace \o Mail, 15, "OK")
T75 == Opens("verify", Plain) \o Passes(<<DkimSignature(Sig2)>> \o Trace \o Mail) \o EndsHeader("OK")
T78 == Verifying(Sig2, 15, "OK")
T80 == Verifying(Sig2, 15, "OK")
T93 == Verifying(Sig2, 15, "OK")
\* i= names a subdomain and the key lets it
T84 == Verifying([Sig2 EXCEPT !.key = "sendmail", !.sub = TRUE], 15, "OK")
T86 == Verifying([Sig2 EXCEPT !.key = "sendmail", !.sub = TRUE], 15, "OK")
T99 == Verifying(Sig2, 15, "OK")
\* how much body two handles still want
T100 == Opens("verify", Plain) \o Passes(<<DkimSignature(SigOver(16))>> \o Trace \o Mail) \o EndsHeader("OK")
            \o Bodies(16) \o <<Call("minbody", 0, -1)>>
    \o Opens("verify", Plain) \o Passes(<<DkimSignature(Limited)>> \o Trace \o Mail) \o EndsHeader("OK")
            \o Bodies(16) \o <<Call("minbody", 0, 0)>>
T101 == Verifying(Limited, 16, "OK") \o Error(1, "OK")
T107 == Opens("verify", Plain) \o Passes(<<DkimSignature(Sig2)>> \o Trace \o Mail) \o EndsHeader("OK")
T117 == Verifying(Sig2, 15, "OK")
T118 == Verifying(Sig2, 15, "OK")
T123 == VerifyingWith(Plain, <<SigOver(2)>>, Mail, 2, "OK")
T126 == Verifying(Sig2, 15, "OK")
\* signing, then verifying with the signature made
T72 == Signing(Mail \o Other(1), 15) \o VerifyingWith(Plain, <<Sig2>>, Mail \o Other(1), 15, "OK")
T120 == Opens("sign", Plain) \o <<Call("margin", 0, "OK")>> \o Tail(Signing(Mail, 1))
    \o Opens("verify", Plain) \o <<Call("margin", 0, "INVALID")>>
    \o Tail(VerifyingWith(Plain, <<SigOver(1)>>, Mail, 1, "OK")) \o <<Call("margin", 0, "INVALID")>>

-----------------------------------------------------------------------------
\* Callbacks, several signatures, keys from a callback.
T41 == VerifyingWith(Screening, <<Sig2>>, Trace \o Mail, 15, "OK")
T42 == VerifyingWith(WithKeys, <<Sig2>>, Trace \o Mail, 15, "OK")
\* the callback ignores the bad signature, or puts the good one first
T45 == Hears(VerifyingWith(Screening, <<[Sig2 EXCEPT !.good = FALSE], Sig2>>, Trace \o Mail, 15, "OK"),
             "eoh", [Silent EXCEPT !.ignore = {1}])
T46 == Hears(VerifyingWith(Screening, <<[Sig2 EXCEPT !.good = FALSE], Sig2>>, Trace \o Mail, 15, "OK"),
             "eoh", [Silent EXCEPT !.swap = TRUE])
T64 == VerifyingWith(Screening, <<Sig2>>, Trace \o Mail, 15, "OK")
\* the final callback finds both signatures good
T67 == Hears(VerifyingWith(Finishing, <<Sig2, [Sig2 EXCEPT !.hash = "sha256"]>>, Trace \o Mail, 15, "OK"),
             "eom", [Silent EXCEPT !.process = {1, 2}])
    \o <<Call("passing", 1, TRUE), Call("passing", 2, TRUE)>>
\* three signatures with two keys
T74 == VerifyingWith(WithKeys, <<Sig2, [Sig2 EXCEPT !.hash = "sha256"], [Sig2 EXCEPT !.key = "brisbane"]>>,
                     Trace \o Mail, 15, "OK") \o <<Call("lookups", 0, 2)>>

-----------------------------------------------------------------------------
\* The streaming interface: one text, and line by line.
T88 == Opens("verify", Plain) \o <<Call("chunk", Streamed, "OK"), Call("eom", 0, "INVALID"),
                                  Call("chunk", <<>>, "OK"), Call("eom", 0, "OK")>>
T89 == Opens("verify", Plain) \o [i \in 1..Len(Streamed) |-> Call("chunk", <<Streamed[i]>>, "OK")]
    \o <<Call("eom", 0, "INVALID"), Call("chunk", <<>>, "OK"), Call("eom", 0, "OK")>>

-----------------------------------------------------------------------------
\* Messages and signatures that fail.
T35 == Verifying([Sig2 EXCEPT !.good = FALSE], 15, "BADSIG")
T48 == Verifying([Sig2 EXCEPT !.good = FALSE], 15, "BADSIG")
T36 == Verifying([Sig2 EXCEPT !.key = "nosuchkey"], 15, "NOKEY")
T58 == Opens("verify", Plain) \o Passes(Trace \o Mail) \o EndsHeader("NOSIG")
T59 == Opens("verify", [Plain EXCEPT !.tmpfail = TRUE]) \o Passes(<<DkimSignature(Sig2)>> \o Trace \o Mail)
    \o EndsHeader("NORESOURCE")
T60 == Verifying(Flawed("INVALID_HC"), 15, "CANTVRFY")
T61 == Verifying(Flawed("INVALID_A"), 15, "CANTVRFY")
T62 == Verifying(Flawed("MISSING_BH"), 15, "CANTVRFY") \o Error(1, "MISSING_BH")
\* no From field; one without an address
T63 == Opens("verify", Plain) \o Passes(<<DkimSignature(Sig2)>> \o Other(8)) \o EndsHeader("SYNTAX")
    \o <<Call("body", 0, "INVALID"), Call("eom", 0, "INVALID")>>
T66 == Opens("verify", Plain) \o Passes(<<DkimSignature(Sig2)>> \o Other(4) \o <<[From EXCEPT !.addr = FALSE]>> \o Other(4))
    \o EndsHeader("SYNTAX") \o <<Call("body", 0, "INVALID"), Call("eom", 0, "INVALID")>>
T68 == Verifying(Sig2, 16, "BADSIG")
T70 == Verifying([Sig2 EXCEPT !.good = FALSE], 15, "BADSIG") \o Signatures(1)
T73 == Verifying([Sig2 EXCEPT !.good = FALSE], 15, "BADSIG")
T76 == Opens("verify", Plain) \o Refused(Malformed) \o Passes(Trace \o Mail) \o EndsHeader("NOSIG")
    \o Bodies(15) \o Ends("NOSIG")
T82 == Verifying([Sig2 EXCEPT !.sub = TRUE], 15, "CANTVRFY")
T87 == Verifying(Flawed("FUTURE"), 15, "CANTVRFY")
T94 == VerifyingWith(Plain, <<[Sig2 EXCEPT !.good = FALSE]>>, Trace \o Mail \o Other(1), 15, "BADSIG")
T95 == Verifying([Sig2 EXCEPT !.key = "granular"], 15, "CANTVRFY")
T96 == Verifying(Flawed("EMPTY_H"), 15, "CANTVRFY") \o Error(1, "EMPTY_H")
T97 == Verifying(Flawed("INVALID_H"), 15, "CANTVRFY") \o Error(1, "INVALID_H")
T98 == Verifying([Sig2 EXCEPT !.l = 17], 16, "CANTVRFY") \o Error(1, "TOOLARGE_L")
T102 == VerifyingWith([Plain EXCEPT !.mbs = TRUE], <<[Sig2 EXCEPT !.must = FALSE]>>, Trace \o Mail \o <<Field("Must")>>,
                      15, "CANTVRFY") \o Error(1, "MBSFAILED")
T103 == Verifying(Flawed("EXPIRED"), 15, "CANTVRFY") \o Error(1, "EXPIRED")
T104 == Verifying(Flawed("FUTURE"), 15, "CANTVRFY") \o Error(1, "FUTURE")
T108 == Verifying(Flawed("INVALID_HC"), 15, "CANTVRFY") \o Error(1, "INVALID_HC")
T109 == Verifying(Flawed("INVALID_BC"), 15, "CANTVRFY") \o Error(1, "INVALID_BC")
T110 == Verifying(Flawed("VERSION"), 15, "CANTVRFY") \o Error(1, "VERSION")
T112 == Verifying(Flawed("DOMAIN"), 15, "CANTVRFY") \o Error(1, "DOMAIN")
T105 == Opens("verify", Plain) \o Refused(Malformed)
T106 == Opens("verify", Plain) \o Refused(Malformed)
T121 == Opens("verify", Plain) \o Refused(Malformed)
\* every fault of a signature, and every fault of a key
T114 == Opens("verify", Plain)
    \o Refused(Malformed) \o Passes(Faulty(<<"INVALID_L", "INVALID_L", "INVALID_Q", "INVALID_QO">>))
    \o Refused(Malformed) \o Refused(Malformed)
    \o Passes(Faulty(<<"EMPTY_D", "EMPTY_S", "MISSING_BH", "EMPTY_BH">>))
    \o Refused(Malformed) \o Refused(Malformed) \o Passes(Faulty(<<"EMPTY_B", "CORRUPT_B", "INVALID_A">>))
    \o Refused(Malformed) \o Passes(Faulty(<<"TIMESTAMPS">>))
    \o Refused(Malformed) \o Refused(Malformed) \o Refused(Malformed)
    \o Passes(<<DkimSignature([Sig2 EXCEPT !.good = FALSE])>> \o Trace \o Mail) \o EndsHeader("OK") \o Signatures(13)
    \o Errors(<<"INVALID_L", "INVALID_L", "INVALID_Q", "INVALID_QO", "EMPTY_D", "EMPTY_S", "MISSING_BH", "EMPTY_BH",
                "EMPTY_B", "CORRUPT_B", "INVALID_A", "TIMESTAMPS", "BADSIG">>)
T115 == Opens("verify", Plain)
    \o Passes(Keyed(<<"nok", "badv", "sha256only", "badh", "badk", "nop", "emptyp", "corruptp">>) \o Trace \o Mail)
    \o EndsHeader("OK") \o Signatures(8)
    \o Errors(<<"BADSIG", "KEYVERSION", "KEYHASHMISMATCH", "KEYUNKNOWNHASH", "KEYTYPEUNKNOWN", "DNSSYNTAX",
                "KEYREVOKED", "KEYDECODE">>)
T116 == Opens("verify", Plain) \o Passes(Trace \o Mail) \o EndsHeader("NOSIG") \o Ends("NOSIG")
T119 == Opens("verify", [Plain EXCEPT !.eohcheck = TRUE])
    \o Passes(<<DkimSignature([Sig2 EXCEPT !.good = FALSE])>> \o Trace \o Mail) \o EndsHeader("CANTVRFY")
T124 == Verifying([Sig2 EXCEPT !.key = "freelotto"], 15, "NOKEY")
T125 == Opens("verify", Plain) \o Passes(Keyed(<<"emptyp">>) \o Trace \o Mail) \o EndsHeader("OK") \o Signatures(1)
    \o Error(1, "KEYREVOKED") \o Ends("REVOKED")

-----------------------------------------------------------------------------
Tests == [
    t00 |-> T00, t01 |-> T01, t02 |-> T02, t03 |-> T03, t04 |-> T04, t05 |-> T05, t06 |-> T06,
    t07 |-> T07, t08 |-> T08, t09 |-> T09, t10 |-> T10, t11 |-> T11, t12 |-> T12, t13 |-> T13,
    t14 |-> T14, t15 |-> T15, t16 |-> T16, t17 |-> T17, t18 |-> T18, t19 |-> T19, t20 |-> T20,
    t21 |-> T21, t22 |-> T22, t23 |-> T23, t24 |-> T24, t25 |-> T25, t26 |-> T26, t27 |-> T27,
    t28 |-> T28, t29 |-> T29, t30 |-> T30, t31 |-> T31, t32 |-> T32, t33 |-> T33, t34 |-> T34,
    t35 |-> T35, t36 |-> T36, t37 |-> T37, t38 |-> T38, t39 |-> T39, t40 |-> T40, t41 |-> T41,
    t42 |-> T42, t43 |-> T43, t44 |-> T44, t45 |-> T45, t46 |-> T46, t47 |-> T47, t48 |-> T48,
    t50 |-> T50, t51 |-> T51, t52 |-> T52, t53 |-> T53, t54 |-> T54, t55 |-> T55, t56 |-> T56,
    t57 |-> T57, t58 |-> T58, t59 |-> T59, t60 |-> T60, t61 |-> T61, t62 |-> T62, t63 |-> T63,
    t64 |-> T64, t65 |-> T65, t66 |-> T66, t67 |-> T67, t68 |-> T68, t69 |-> T69, t70 |-> T70,
    t71 |-> T71, t72 |-> T72, t73 |-> T73, t74 |-> T74, t75 |-> T75, t76 |-> T76, t77 |-> T77,
    t78 |-> T78, t79 |-> T79, t80 |-> T80, t81 |-> T81, t82 |-> T82, t83 |-> T83, t84 |-> T84,
    t85 |-> T85, t86 |-> T86, t87 |-> T87, t88 |-> T88, t89 |-> T89, t90 |-> T90, t91 |-> T91,
    t92 |-> T92, t93 |-> T93, t94 |-> T94, t95 |-> T95, t96 |-> T96, t97 |-> T97, t98 |-> T98,
    t99 |-> T99, t100 |-> T100, t101 |-> T101, t102 |-> T102, t103 |-> T103, t104 |-> T104, t105 |-> T105,
    t106 |-> T106, t107 |-> T107, t108 |-> T108, t109 |-> T109, t110 |-> T110, t112 |-> T112, t114 |-> T114,
    t115 |-> T115, t116 |-> T116, t117 |-> T117, t118 |-> T118, t119 |-> T119, t120 |-> T120, t121 |-> T121,
    t122 |-> T122, t123 |-> T123, t124 |-> T124, t125 |-> T125, t126 |-> T126, t127 |-> T127]

TestInit ==
    \/ Init /\ test = "none" /\ script = <<>> /\ outcome = <<"OK", "OK">>
    \/ /\ test \in DOMAIN Tests /\ script = Tests[test] /\ outcome = <<"OK", "OK">>
       /\ d = New("verify", Plain) /\ dns = KeyFile /\ ret = "none" /\ msg = <<>>
       /\ text = [lines |-> <<>>, streams |-> FALSE, body |-> 0, ok |-> FALSE, quiet |-> TRUE]

\* What a step does and returns.
Result(s) ==
    LET w == World(TRUE, TRUE)
    IN  CASE s.do = "new" -> Is(New(s.arg.mode, s.arg.lib), "OK")
          [] s.do = "header" -> Header(d, s.arg)
          [] s.do = "eoh" -> Eoh(d, s.cb, w)
          [] s.do = "body" -> Body(d)
          [] s.do = "eom" -> Eom(d, s.cb, w)
          [] s.do = "chunk" -> Chunk(d, s.arg, s.cb, w)
          [] s.do = "getsighdr" -> GetSigHdr(d)
          [] s.do = "margin" -> SetMargin(d)
          [] s.do = "minbody" -> Is(d, MinBody(d))
          [] s.do = "error" -> Is(d, d.sigs[s.arg].error)
          [] s.do = "passing" -> Is(d, Passing(d.sigs[s.arg]))
          [] s.do = "nsigs" -> Is(d, Len(d.sigs))
          [] s.do = "lookups" -> Is(d, Cardinality({i \in 1..Len(d.sigs) : d.sigs[i].b64}))

TestStep ==
    /\ script # <<>>
    /\ script' = Tail(script)
    /\ LET s == Head(script)
       IN  /\ d' = Result(s).d
           /\ outcome' = <<s.want, Result(s).ret>>
           /\ ret' = IF s.do = "eom" THEN Result(s).ret ELSE "none"
    /\ UNCHANGED <<dns, msg, text, test>>

TestNext == (test = "none" /\ Next /\ UNCHANGED testvars) \/ TestStep

TestSpec == TestInit /\ [][TestNext]_<<vars, testvars>>

\* Every test of the library passes on the model: each call of each test
\* returns the status, the error or the count that the test asserts.
ReplayAgrees == outcome[1] = outcome[2]
=============================================================================
