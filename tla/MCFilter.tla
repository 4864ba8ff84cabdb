------------------------------ MODULE MCFilter ------------------------------
(* Mail and configurations for TLC: k1 is a key of the author's domain, k2 *)
(* one of a third party, k3 a revoked key of the author's domain.          *)
EXTENDS Filter

Lib == [skip |-> {"Received"}, delay |-> FALSE, eohcheck |-> FALSE, prescreen |-> FALSE, final |-> FALSE,
        keycb |-> FALSE, mbs |-> FALSE, tmpfail |-> FALSE]
Default ==
    [lib |-> Lib, mode |-> {"sign", "verify"}, dontsignto |-> {}, maxhdrsz |-> 0, security |-> "tempfail",
     badsig |-> "accept", nosig |-> "accept", dnserr |-> "tempfail", nokey |-> "accept", internal |-> "tempfail",
     senderhdrs |-> <<"From">>, reqhdrs |-> FALSE, alwaysaddar |-> FALSE, milterv2 |-> FALSE, dolog |-> TRUE,
     trusted |-> {}, sigmin |-> 0, sigmintype |-> "bytes", localadsp |-> "none", adspnxdomain |-> FALSE,
     adspdiscard |-> FALSE, quarantine |-> FALSE, addxhdr |-> FALSE, remsigs |-> FALSE,
     remarall |-> FALSE, remar |-> {}]

Adsp == [Default EXCEPT !.adspdiscard = TRUE, !.adspnxdomain = TRUE]
Severe == [Adsp EXCEPT !.badsig = "reject", !.nosig = "reject", !.nokey = "tempfail", !.quarantine = TRUE,
                        !.remarall = TRUE]
Screened == [Adsp EXCEPT !.lib.prescreen = TRUE, !.sigmin = 60, !.sigmintype = "percent"]
Local == [Adsp EXCEPT !.localadsp = "DISCARDABLE", !.dontsignto = {"r2"}, !.remsigs = TRUE, !.addxhdr = TRUE,
                      !.sigmin = 2, !.senderhdrs = <<"Sender", "From">>, !.remar = {"other"}]
Wary == [Default EXCEPT !.reqhdrs = TRUE, !.maxhdrsz = 4, !.sigmin = 1, !.sigmintype = "maxadd",
                         !.remarall = TRUE, !.remar = {"ours", "other"}]
Failing == [Default EXCEPT !.lib.tmpfail = TRUE, !.mode = {"verify"}]
MCConfigs ==
    {[c EXCEPT !.dolog = log, !.lib.delay = delay, !.alwaysaddar = always, !.milterv2 = skip] :
        c \in {Severe, Screened, Local, Wary, Failing}, log, delay, always, skip \in BOOLEAN}

Published(rec) == [st |-> "OK", rec |-> rec]
MCKeys == [k1 |-> Published(Tags), k2 |-> Published(Tags), k3 |-> Published([Tags EXCEPT !.p = "empty"]),
           none |-> [st |-> "NOKEY", rec |-> NoTags]]
MCPractices == [st : {"OK"}, pcode : {"UNKNOWN", "DISCARDABLE"}, pres : {"AUTHOR"}]
                   \cup {[st |-> "OK", pcode |-> "NONE", pres |-> "NXDOMAIN"],
                         [st |-> "OK", pcode |-> "ALL", pres |-> "AUTHOR"],
                         [st |-> "CANTVRFY", pcode |-> "NONE", pres |-> "NONE"]}

S(s) == [Field("DKIM-Signature") EXCEPT !.sig = s]
From == Field("From")
Date == Field("Date")
Author == S([Sig("k1") EXCEPT !.over = 2])
Limited == S([Sig("k1") EXCEPT !.l = 1])
Forged == S([Sig("k1") EXCEPT !.good = FALSE])
Third == S([Sig("k2") EXCEPT !.over = 2])
Mail(fields, body) == [own |-> FALSE, local |-> FALSE, keyed |-> TRUE, rcpts |-> {"r1"}, fields |-> fields, body |-> body]

Incoming ==
    {Mail(<<From, Date>> \o t, 2) :
        t \in {<<>>, <<Author>>, <<Third>>, <<Third, Author>>, <<Forged, Third>>, <<Limited>>, <<Limited, Third>>,
               <<S(Sig("k3")), Third>>, <<S(Sig("k3"))>>, <<S(Sig("none"))>>,
               <<S([Sig("k1") EXCEPT !.flaws = {"EXPIRED"}]), Author>>, <<S([Sig("k1") EXCEPT !.set = "bad"]), Author>>,
               <<Field("AR-spf"), Field("AR-garbled"), Field("AR-ours")>>,
               <<Field("AR-other"), Author, Field("AR-ours")>>}}
    \cup {Mail(<<Date, Author>>, 2), Mail(<<From, From, Author>>, 2), Mail(<<[From EXCEPT !.addr = FALSE], Author>>, 1),
          Mail(<<From, Date, S([Sig("k1") EXCEPT !.over = 0])>>, 0),
          [Mail(<<From, Date, Author>>, 2) EXCEPT !.own = TRUE]}
Outgoing ==
    {[Mail(<<Field("Received"), From, Date, Third, S(Sig("k3"))>>, 2) EXCEPT !.own = TRUE, !.local = TRUE,
                                                                             !.rcpts = {"r1", "r2"}],
     [Mail(<<From, Date>>, 1) EXCEPT !.own = TRUE, !.local = TRUE],
     [Mail(<<Field("Sender"), From, Date, Field("AR-ours")>>, 1) EXCEPT !.own = TRUE, !.local = TRUE],
     [Mail(<<From>>, 0) EXCEPT !.own = TRUE, !.local = TRUE, !.keyed = FALSE]}
MCMails == Incoming \cup Outgoing

\* For AuthorCounts: two good signatures, a third party's first.
TwoSigned == {Mail(<<From, Date, Third, Author>>, 2)}
AdspOnly == {Adsp}

\* For DnsErrorHandled and ContextThere: an unsigned message, a filter that does not log.
Unsigned == {Mail(<<From, Date>>, 1)}
Unlogged == {[Adsp EXCEPT !.dolog = FALSE]}
KeepsRecipients == {[Default EXCEPT !.dontsignto = {"r2"}]}
=============================================================================
