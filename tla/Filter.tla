------------------------------- MODULE Filter -------------------------------
(***************************************************************************)
(* The callbacks of the mail filter (mlfi_envfrom() ... mlfi_close()) on   *)
(* one connection over which the MTA passes message after message, on top  *)
(* of the calls of libopendkim in DkimLib.                                 *)
(*                                                                         *)
(* A callback is an operator from the message context to [c |-> context,   *)
(* ret |-> SMFIS code].  "ABORT" stands for a failed assertion, which ends *)
(* the process.  Features under _FFR_ and USE_UNBOUND are left out.        *)
(***************************************************************************)
EXTENDS DkimLib

CONSTANTS
    Configs,     \* configurations
    Mails,       \* what senders send
    Keys,        \* what a lookup of each key name gets
    AuthorKeys,  \* keys of the author's domain
    TestKeys,    \* keys with t=y
    Practices    \* what a lookup of the author domain's signing practices gets

\* Fields are such as the MTA passes on, key records such as dkim_get_key() tells
\* apart; On-Security takes one of the values of dkimf_values[], LocalADSP one of
\* dkimf_policy[], Minimum is not negative and has one of three units; dkim_policy()
\* knows four practices.
ASSUME FilterAssumption ==
    /\ Mails # {}
    /\ \A m \in Mails :
          /\ m.fields \in Seq(Range(m.fields)) /\ m.body \in Nat
          /\ \A h \in Range(m.fields) : IsField(h, DOMAIN Keys) /\ h.name # "empty"
    /\ \A k \in DOMAIN Keys : Keys[k].st = "OK" => IsRecord(Keys[k].rec)
    /\ \A c \in Configs :
          /\ c.security \in {"accept", "discard", "reject", "tempfail"}
          /\ c.sigmin \in Nat /\ c.sigmintype \in {"bytes", "maxadd", "percent"}
          /\ c.localadsp \in {"none", "UNKNOWN", "ALL", "DISCARDABLE"}
          /\ c.remarall \in BOOLEAN /\ c.remar \subseteq {"ours", "other"}
    /\ \A p \in Practices :
          DOMAIN p = {"st", "pcode", "pres"} /\ p.pcode \in {"NONE", "UNKNOWN", "ALL", "DISCARDABLE"}

VARIABLES
    conf,   \* the configuration the connection uses
    dfc,    \* the context of the current message
    mta,    \* the MTA: where in the transaction it is, the message, how much of it was passed,
            \* the recipients accepted and whether the filter asked for no more body
    out     \* what became of the message: the final code and what the filter added and removed

vars == <<conf, dfc, mta, out>>

\* dkimf_initcontext().
NewContext ==
    [live |-> TRUE, hdrs |-> <<>>, rcpts |-> {}, signing |-> FALSE, addheader |-> FALSE, headeronly |-> FALSE,
     status |-> "UNKNOWN", susp |-> FALSE, policy |-> FALSE, handle |-> FALSE, dkim |-> New("verify", conf.lib)]

\* dkimf_cleanup().
NoContext == [NewContext EXCEPT !.live = FALSE]

Says(c, code) == [c |-> c, ret |-> code]
Asserted(c, r) == IF c.live THEN r ELSE Says(c, "ABORT")

\* dkimf_libstatus(): statuses it does not know let the message go on.
LibStatus(st) ==
    CASE st \in {"INTERNAL", "NORESOURCE"} -> conf.internal
      [] st \in {"BADSIG", "CANTVRFY", "SYNTAX"} -> conf.badsig
      [] st = "NOSIG" -> conf.nosig
      [] st = "KEYFAIL" -> conf.dnserr
      [] st = "NOKEY" -> conf.nokey
      [] OTHER -> "continue"

\* dkimf_findheader().
Named(c, name) == SelectSeq(c.hdrs, LAMBDA h : h.name = name)
FindHeader(c, name) == IF Named(c, name) = <<>> THEN NoHeader ELSE Head(Named(c, name))

-----------------------------------------------------------------------------
\* Mutant: a message begins in the context of the one before.
EnvFromReuses(fails) == IF dfc.live THEN Says(dfc, "continue") ELSE Says(NewContext, "continue")

\* mlfi_envfrom(): whatever is left of the message before is thrown away.
EnvFrom(fails) == IF fails THEN Says(NoContext, "tempfail") ELSE Says(NewContext, "continue")

\* mlfi_envrcpt(): recipients are kept for DontSignMailTo only.
EnvRcpt(c, r, fails) ==
    Asserted(c, IF conf.dontsignto = {} THEN Says(c, "continue")
                ELSE IF fails THEN Says(NoContext, "tempfail")
                ELSE Says([c EXCEPT !.rcpts = @ \cup {r}], "continue"))

\* mlfi_header(); fields are of size 1.
HeaderCallback(c, h, fails) ==
    Asserted(c, IF conf.maxhdrsz > 0 /\ Len(c.hdrs) + 1 > conf.maxhdrsz THEN Says(c, conf.security)
                ELSE IF fails THEN Says(NoContext, "tempfail")
                ELSE Says([c EXCEPT !.hdrs = Append(@, h)], "continue"))

-----------------------------------------------------------------------------
\* mlfi_eoh(): the field that names the sender.
Sender(c) ==
    LET known == SelectSeq(conf.senderhdrs, LAMBDA n : Named(c, n) # <<>>)
    IN  IF known = <<>> THEN FindHeader(c, "From") ELSE FindHeader(c, Head(known))

BadFormat(c) ==
    Says([c EXCEPT !.addheader = TRUE, !.headeronly = TRUE, !.status = "BADFORMAT"], "continue")

\* Counts that RFC 2822 requires.
Compliant(c) ==
    /\ Len(Named(c, "From")) = 1 /\ Len(Named(c, "Date")) = 1
    /\ \A n \in {"Reply-To", "To", "Cc", "Bcc", "Message-Id", "In-Reply-To", "References", "Subject"} :
           Len(Named(c, n)) <= 1

\* Mutant: third parties are never screened.
PrescreenNone(e) == Silent

\* dkimf_prescreen(): signatures of neither the author nor a trusted domain are ignored.
Prescreen(e) ==
    [Silent EXCEPT !.ignore = {i \in 1..Len(Setup(e)) : Setup(e)[i].spec.key \notin AuthorKeys \cup conf.trusted}]

\* The fields are passed to the handle, all of them; the last error counts.
RunHeaders(c) ==
    LET step(acc, n) ==
            LET r == Header(acc.d, c.hdrs[n])
            IN  [d |-> r.d, ret |-> IF r.ret = "OK" THEN acc.ret ELSE LibStatus(r.ret)]
        run == Repeat(step, [d |-> c.dkim, ret |-> "continue"], Len(c.hdrs))
    IN  Says([c EXCEPT !.dkim = run.d], run.ret)

\* The end of the headers is told to the handle; what it returns decides the status.
EohStatus(c, st) ==
    CASE st = "ABORT" -> Says(c, "ABORT")
      [] st = "OK" -> Says(c, "continue")
      [] st = "NOSIG" ->
           Says([c EXCEPT !.status = "NOSIGNATURE", !.addheader = conf.alwaysaddar \/ @,
                          !.headeronly = conf.alwaysaddar \/ @], "continue")
      [] st \in {"REVOKED", "BADSIG", "NOKEY"} ->
           Says([c EXCEPT !.status = IF st = "BADSIG" THEN "BAD" ELSE st,
                          !.addheader = TRUE, !.headeronly = TRUE], "continue")
      [] OTHER -> Says(c, LibStatus(st))
EohTold(c, r) == EohStatus([c EXCEPT !.dkim = r.d], r.ret)
EohHandle(c, w) == EohTold(c, Eoh(c.dkim, IF conf.lib.prescreen THEN Prescreen(c.dkim) ELSE Silent, w))

\* m says what the code finds out of the sender's domain, the client and the
\* keys.  A handle that cannot be made is asked for its error message if
\* the filter logs: an assertion.
EohCallback(c, m, fails, w) ==
    LET s == Sender(c)
        signing == m.own /\ m.local
        b == [c EXCEPT !.signing = signing, !.addheader = signing \/ @]
        h == [b EXCEPT !.handle = TRUE, !.dkim = New(IF signing THEN "sign" ELSE "verify", conf.lib)]
        run == RunHeaders(h)
    IN  Asserted(c,
        IF s = NoHeader \/ ~s.addr THEN BadFormat(c)
        ELSE IF fails = "regexec" THEN Says(NoContext, "tempfail")
        ELSE IF (IF signing THEN "sign" ELSE "verify") \notin conf.mode THEN Says(b, "accept")
        ELSE IF signing /\ ~m.keyed THEN Says(b, "tempfail")
        ELSE IF signing /\ b.rcpts # {} /\ fails = "pattern" THEN Says(b, "tempfail")
        ELSE IF signing /\ b.rcpts \cap conf.dontsignto # {} THEN Says(b, "accept")
        ELSE IF fails = "handle" THEN Says(b, IF conf.dolog THEN "ABORT" ELSE LibStatus("NORESOURCE"))
        ELSE IF conf.reqhdrs /\ ~Compliant(h) THEN BadFormat(h)
        ELSE IF run.ret # "continue" THEN run
        ELSE EohHandle(run.c, w))

\* mlfi_body() on a piece that is not empty.
BodyCallback(c) ==
    LET r == Body(c.dkim)
        b == [c EXCEPT !.dkim = r.d]
    IN  Asserted(c, CASE c.headeronly -> Says(c, "continue")
                      [] ~c.headeronly /\ r.ret = "ABORT" -> Says(b, "ABORT")
                      [] ~c.headeronly /\ r.ret = "OK" ->
                           Says(b, IF conf.milterv2 /\ MinBody(r.d) = 0 THEN "skip" ELSE "continue")
                      [] OTHER -> Says(b, LibStatus(r.ret)))

-----------------------------------------------------------------------------
(* mlfi_eom(), part by part.                                               *)

\* Authentication-Results fields, told apart by what ares_parse() makes of
\* them: whether it can parse them, the host that speaks and the methods whose
\* results it tells.
AuthResNames == {"AR-ours", "AR-spf", "AR-other", "AR-garbled"}
AresParse(h) ==
    [st |-> IF h.name = "AR-garbled" THEN "failed" ELSE "ok",
     host |-> IF h.name = "AR-other" THEN "other" ELSE "ours",
     methods |-> IF h.name = "AR-spf" THEN {"spf"} ELSE {"dkim"}]

\* RemoveARAll and RemoveARFrom; without the latter this host's name is looked for.
MethodMatch(ares) == conf.remarall \/ "dkim" \in ares.methods
HostMatch(ares) == ares.host \in (IF conf.remar = {} THEN {"ours"} ELSE conf.remar)

\* Mutant: a field that cannot be parsed is not counted.
AresStepSkipping(acc, h) ==
    LET ares == AresParse(h)
        at == acc.at + 1
    IN  IF h.name \notin AuthResNames \/ ares.st = "failed" THEN acc
        ELSE [at |-> at, gone |-> IF MethodMatch(ares) /\ HostMatch(ares) THEN acc.gone \cup {at} ELSE acc.gone]

\* One turn of the loop over the fields: at counts the Authentication-Results
\* fields, gone has the numbers of those the MTA was asked to remove.
AresStep(acc, h) ==
    LET ares == AresParse(h)
        at == acc.at + 1
    IN  CASE h.name \notin AuthResNames -> acc
          [] h.name \in AuthResNames /\ ares.st = "failed" -> [acc EXCEPT !.at = at]
          [] OTHER -> [at |-> at, gone |-> IF MethodMatch(ares) /\ HostMatch(ares) THEN acc.gone \cup {at} ELSE acc.gone]

\* Authentication-Results fields are removed from what was verified.
RemoveAuthRes(c) ==
    LET step(acc, n) == AresStep(acc, c.hdrs[n])
    IN  IF c.signing THEN {} ELSE Repeat(step, [at |-> 0, gone |-> {}], Len(c.hdrs)).gone

\* What dkim_eom() said decides the status; "end" says that the callback ends with it.
EomStatus(c, st) ==
    LET told(status) == Says([c EXCEPT !.addheader = TRUE, !.status = status], "continue")
    IN  CASE st = "OK" ->
               IF c.signing \/ Named(c, "DKIM-Signature") = <<>> THEN Says(c, "continue") ELSE told("GOOD")
          [] st = "CANTVRFY" -> told("VERIFYERR")
          [] st = "BADSIG" -> told("BAD")
          [] st = "NOKEY" -> told("NOKEY")
          [] st = "NOSIG" -> IF conf.alwaysaddar THEN told("NOSIGNATURE") ELSE Says(c, "continue")
          [] st = "ABORT" -> Says(c, "ABORT")
          [] OTHER -> Says(c, IF LibStatus(st) = "continue" THEN "end" ELSE LibStatus(st))
EomTold(c, r) == EomStatus([c EXCEPT !.dkim = r.d], r.ret)
EomHandle(c, w) == IF c.headeronly \/ ~c.handle THEN Says(c, "continue") ELSE EomTold(c, Eom(c.dkim, Silent, w))

\* The key of the signature that decided is being tested (t=y).
TestKey(c) ==
    /\ c.dkim.signature # 0 /\ c.dkim.mode = "verify" /\ c.status # "VERIFYERR"
    /\ LET g == c.dkim.sigs[c.dkim.signature] IN g.key # "none" /\ g.spec.key \in TestKeys

\* Minimum: what was signed of the body that was passed.
Partial(c) ==
    LET signed == Wrote(c.dkim, c.dkim.sigs[c.dkim.signature])
        all == c.dkim.fed
    IN  CASE conf.sigmin = 0 -> FALSE
          [] conf.sigmin > 0 /\ conf.sigmintype = "percent" -> (100 * signed) \div all < conf.sigmin
          [] conf.sigmin > 0 /\ conf.sigmintype = "maxadd" -> signed + conf.sigmin < all
          [] OTHER -> signed < (IF conf.sigmin < all THEN conf.sigmin ELSE all)

\* A percentage of an empty body is a division by zero.
DividesByZero(c) == conf.sigmin > 0 /\ conf.sigmintype = "percent" /\ c.dkim.fed = 0

Measured(c) == IF c.status = "GOOD" /\ Partial(c) THEN [c EXCEPT !.status = "PARTIAL"] ELSE c

\* Mutant: any good signature will do.
AuthorSigAny(c) ==
    /\ c.dkim.state >= EOH2
    /\ \E i \in 1..Len(c.dkim.sigs) : LET g == c.dkim.sigs[i] IN g.error \in {"UNKNOWN", "OK"} /\ Passing(g)

\* dkimf_authorsigok().
AuthorSigOk(c) ==
    /\ c.dkim.state >= EOH2
    /\ \E i \in 1..Len(c.dkim.sigs) :
           LET g == c.dkim.sigs[i] IN g.error \in {"UNKNOWN", "OK"} /\ g.spec.key \in AuthorKeys /\ Passing(g)

\* The author domain's signing practices: from LocalADSP (dkimf_local_adsp())
\* or from dkim_policy(), which fails if the handle never saw a sender.
Practice(c, found) ==
    IF conf.localadsp # "none" THEN [st |-> "OK", pcode |-> conf.localadsp, pres |-> "AUTHOR"]
    ELSE IF ~c.dkim.domain THEN [st |-> "SYNTAX", pcode |-> "NONE", pres |-> "NONE"]
    ELSE IF found.st # "OK" THEN [found EXCEPT !.pcode = "NONE", !.pres = "NONE"] ELSE found

\* Messages whose status is known are judged by them.
Judge(c, p) ==
    LET known == [c EXCEPT !.policy = TRUE]
        blamed == p.pcode \in {"ALL", "DISCARDABLE"} /\ p.pres = "AUTHOR" /\ ~AuthorSigOk(c)
        b == IF blamed THEN [known EXCEPT !.susp = TRUE, !.addheader = TRUE] ELSE known
    IN  IF ~c.handle \/ c.signing \/ c.status = "UNKNOWN" THEN Says(c, "continue")
        ELSE IF conf.localadsp # "none" /\ ~c.dkim.domain THEN Says(c, "ABORT")
        ELSE IF p.st # "OK" THEN IF conf.dolog THEN Says(NoContext, conf.dnserr) ELSE Says(c, "continue")
        ELSE IF p.pres = "NXDOMAIN" /\ conf.adspnxdomain THEN Says(NoContext, "reject")
        ELSE IF b.susp /\ conf.adspdiscard /\ p.pcode = "DISCARDABLE" THEN Says(NoContext, "reject")
        ELSE Says(b, "continue")

\* The results told in an Authentication-Results field.
DkimResult(c) ==
    CASE c.status = "GOOD" -> "pass"
      [] c.status = "NOSIGNATURE" -> "none"
      [] c.status \in {"BAD", "REVOKED"} -> IF TestKey(c) THEN "neutral" ELSE "fail"
      [] c.status \in {"PARTIAL", "VERIFYERR", "BADFORMAT"} -> "permerror"
      [] OTHER -> "neutral"
AdspResult(c, p) ==
    IF c.status = "BADFORMAT" THEN "untold"
    ELSE IF ~c.policy THEN "temperror"
    ELSE IF p.pres = "NXDOMAIN" THEN "nxdomain"
    ELSE CASE p.pcode = "NONE" -> "none"
           [] p.pcode = "UNKNOWN" -> IF AuthorSigOk(c) THEN "signed" ELSE "unknown"
           [] p.pcode = "ALL" -> IF AuthorSigOk(c) THEN "pass" ELSE "fail"
           [] p.pcode = "DISCARDABLE" -> IF AuthorSigOk(c) THEN "pass" ELSE "discard"

Reports(c) == c.addheader /\ c.status # "UNKNOWN"
Hushed(c) ==
    IF Reports(c) /\ c.status = "NOSIGNATURE" /\ ~c.susp /\ ~conf.alwaysaddar THEN [c EXCEPT !.addheader = FALSE] ELSE c
Quarantined(c) ==
    /\ conf.quarantine /\ Reports(c)
    /\ c.status \in {"BAD", "REVOKED", "PARTIAL", "VERIFYERR"} \/ (c.status = "NOSIGNATURE" /\ Hushed(c).addheader)

\* The stored status is translated into the final code; st is what the last
\* library call returned.
Translate(c, st) ==
    CASE c.status = "BAD" -> IF TestKey(c) THEN "accept" ELSE LibStatus("BADSIG")
      [] c.status = "NOKEY" -> LibStatus("NOKEY")
      [] c.status = "REVOKED" -> "tempfail"
      [] c.status = "NOSIGNATURE" -> IF c.addheader THEN "accept" ELSE LibStatus("NOSIG")
      [] c.status \in {"VERIFYERR", "PARTIAL"} -> IF st = "OK" THEN "accept" ELSE LibStatus(st)
      [] OTHER -> "accept"

\* RemoveOldSignatures: when signing, the MTA is asked for each old signature in
\* turn to remove the DKIM-Signature field with number 0.
RemoveSigs(c) == IF conf.remsigs /\ c.signing THEN [i \in 1..Len(Named(c, "DKIM-Signature")) |-> 0] ELSE <<>>

NotAsked == [st |-> "none", pcode |-> "NONE", pres |-> "NONE"]
Nothing == [dkim |-> "untold", adsp |-> "untold", signed |-> 0, gone |-> {}, unsigned |-> <<>>, quarantined |-> FALSE,
            result |-> "none", found |-> NotAsked, changes |-> TRUE]

\* How the callback ends: the context, the code and what was done to the message.
Ends(r, what) == [c |-> r.c, ret |-> IF r.ret = "end" THEN "continue" ELSE r.ret, did |-> what]

\* The last part: j is the message judged by the practices p, did what was
\* done to it so far.  changes: the MTA lets the filter add and remove
\* fields.  That it does not is only logged, except for the X- field.
EomReport(j, p, did, changes) ==
    LET h == Hushed(j.c)
        told == IF changes /\ Reports(j.c) /\ h.addheader
                THEN [did EXCEPT !.dkim = IF h.handle THEN DkimResult(h) ELSE @, !.adsp = AdspResult(h, p)]
                ELSE did
    IN  IF j.ret # "continue" THEN Ends(j, did)
        ELSE IF conf.addxhdr /\ ~changes THEN Ends(Says(NoContext, "tempfail"), did)
        ELSE Ends(Says(h, Translate(h, p.st)), [told EXCEPT !.quarantined = Quarantined(j.c)])

\* The part in the middle: e is the message after dkim_eom().
EomJudged(e, found, did, changes) ==
    LET sign == e.c.signing /\ ~e.c.headeronly /\ e.c.handle
        p == Practice(e.c, found)
    IN  IF e.ret # "continue" THEN Ends(e, did)
        ELSE IF sign /\ GetSigHdr(e.c.dkim).ret # "OK" THEN Ends(Says(e.c, "tempfail"), did)
        ELSE IF e.c.status = "GOOD" /\ DividesByZero(e.c) THEN Ends(Says(e.c, "ABORT"), did)
        ELSE EomReport(Judge(Measured(e.c), p), p, [did EXCEPT !.signed = IF sign /\ changes THEN 1 ELSE 0], changes)

\* The whole callback.
EomCallback(c, w, found, changes, fails) ==
    LET did == IF changes THEN [Nothing EXCEPT !.gone = RemoveAuthRes(c), !.unsigned = RemoveSigs(c)] ELSE Nothing
    IN  IF ~c.live THEN Ends(Says(c, "ABORT"), Nothing)
        ELSE IF fails /\ ~c.signing THEN Ends(Says(c, "tempfail"), Nothing)
        ELSE EomJudged(EomHandle(c, w), found, did, changes)

-----------------------------------------------------------------------------
(* The MTA (external): it passes a message piece by piece and obeys the    *)
(* filter's codes.  A refused recipient does not end the transaction.      *)

Idle == [at |-> "idle", mail |-> CHOOSE m \in Mails : TRUE, n |-> 0, body |-> 0, to |-> {}]
Up == [ans |-> Keys, luck |-> TRUE]
Down == [ans |-> [k \in DOMAIN Keys |-> [st |-> "KEYFAIL", rec |-> NoTags]], luck |-> FALSE]

Init ==
    /\ conf \in Configs
    /\ dfc = NoContext
    /\ mta = Idle /\ out = Nothing

\* What a code means to the MTA that would otherwise go on to next.
Obey(r, next) ==
    /\ dfc' = r.c /\ UNCHANGED conf
    /\ mta' = IF r.ret \in {"continue", "skip"} THEN next ELSE [next EXCEPT !.at = "done"]
    /\ out' = IF r.ret \in {"continue", "skip"} THEN out ELSE [out EXCEPT !.result = r.ret]

Alive == out.result # "ABORT"

MailFrom(m, fails) ==
    /\ Alive /\ mta.at \in {"idle", "done"}
    /\ dfc' = EnvFrom(fails).c /\ UNCHANGED conf
    /\ mta' = IF fails THEN Idle ELSE [Idle EXCEPT !.at = "rcpt", !.mail = m]
    /\ out' = Nothing

RcptTo(r, fails) ==
    /\ Alive /\ mta.at = "rcpt" /\ r \in mta.mail.rcpts \ mta.to
    /\ LET x == EnvRcpt(dfc, r, fails)
       IN  IF x.ret = "tempfail" THEN dfc' = x.c /\ UNCHANGED <<conf, mta, out>>
           ELSE Obey(x, [mta EXCEPT !.to = @ \cup {r}])

PassHeader(fails) ==
    /\ Alive /\ mta.at \in {"rcpt", "header"} /\ mta.to # {} /\ mta.n < Len(mta.mail.fields)
    /\ Obey(HeaderCallback(dfc, mta.mail.fields[mta.n + 1], fails), [mta EXCEPT !.at = "header", !.n = @ + 1])

EndHeaders(fails, w) ==
    /\ Alive /\ mta.at \in {"rcpt", "header"} /\ mta.to # {} /\ mta.n = Len(mta.mail.fields)
    /\ Obey(EohCallback(dfc, mta.mail, fails, w), [mta EXCEPT !.at = "body"])

PassBody ==
    /\ Alive /\ mta.at = "body" /\ mta.body < mta.mail.body
    /\ LET r == BodyCallback(dfc)
       IN  Obey(r, [mta EXCEPT !.body = @ + 1, !.at = IF r.ret = "skip" THEN "skip" ELSE @])

EndMessage(w, found, changes, fails) ==
    /\ Alive /\ (mta.at = "skip" \/ (mta.at = "body" /\ mta.body = mta.mail.body))
    /\ LET r == EomCallback(dfc, w, found, changes, fails)
       IN  /\ dfc' = r.c /\ UNCHANGED conf
           /\ mta' = [mta EXCEPT !.at = "done"]
           /\ out' = [r.did EXCEPT !.result = r.ret, !.found = found, !.changes = changes]

\* mlfi_abort(), and mlfi_close() with a new connection after it.
AbortMessage ==
    /\ Alive /\ mta.at # "idle"
    /\ dfc' = NoContext /\ mta' = Idle /\ out' = Nothing /\ UNCHANGED conf

Next ==
    \/ \E m \in Mails, fails \in BOOLEAN : MailFrom(m, fails)
    \/ \E r \in mta.mail.rcpts, fails \in BOOLEAN : RcptTo(r, fails)
    \/ \E fails \in BOOLEAN : PassHeader(fails)
    \/ \E fails \in {"nothing", "regexec", "pattern", "handle"}, w \in {Up, Down} : EndHeaders(fails, w)
    \/ PassBody
    \/ \E w \in {Up, Down}, found \in Practices, changes, fails \in BOOLEAN : EndMessage(w, found, changes, fails)
    \/ AbortMessage

Spec == Init /\ [][Next]_vars

-----------------------------------------------------------------------------
Delivered == out.result \in {"accept", "continue"}
Ended == out.found # NotAsked
Mine == mta.mail.own /\ mta.mail.local

\* The message as a verifier should see it; a signature without l= may be
\* held to the limit of another one (DkimLib, Setup).
Message == [New("verify", conf.lib) EXCEPT !.fed = mta.mail.body, !.hdrs = mta.mail.fields]
Signatures == {f.sig : f \in {h \in Range(mta.mail.fields) : h.name = "DKIM-Signature"}}
Readings(s) == IF s.l # -1 THEN {s} ELSE {[s EXCEPT !.l = t.l] : t \in Signatures}
GoodOnes == {s \in UNION {Readings(t) : t \in Signatures} : s.set = "ok" /\ Genuine(Message, s, Keys[s.key])}
GoodAuthors == {s \in GoodOnes : s.key \in AuthorKeys}

\* Whether the signature covers as much of the body passed as Minimum asks for.
Enough(s) ==
    LET covered == IF s.l = -1 THEN mta.body ELSE s.l
    IN  \/ conf.sigmin = 0
        \/ conf.sigmintype = "percent" /\ 100 * covered >= conf.sigmin * mta.body
        \/ conf.sigmintype = "maxadd" /\ covered + conf.sigmin >= mta.body
        \/ conf.sigmintype = "bytes" /\ (covered >= conf.sigmin \/ covered = mta.body)

\* dkim=pass is only ever told of a message with a good signature, of the
\* author or a trusted domain where third parties are screened, that covers
\* as much of the body as Minimum asks for; dkim-adsp=pass only if the
\* author's own signature is good.
PassSound ==
    /\ out.dkim = "pass" =>
          \E s \in GoodOnes : Enough(s) /\ (conf.lib.prescreen => s.key \in AuthorKeys \cup conf.trusted)
    /\ out.adsp = "pass" => GoodAuthors # {}

\* The domain's practices say that unsigned mail is to be discarded.
Discardable ==
    \/ conf.localadsp = "DISCARDABLE"
    \/ conf.localadsp = "none" /\ out.found = [st |-> "OK", pcode |-> "DISCARDABLE", pres |-> "AUTHOR"]

\* Messages that get no handle, or none that reads them: no usable sender, or
\* not compliant.
Malformed ==
    \/ LET s == Sender([hdrs |-> mta.mail.fields]) IN ~s.addr
    \/ conf.reqhdrs /\ ~Compliant([hdrs |-> mta.mail.fields])

\* Messages whose practices the filter never comes to look at: malformed, or an
\* error that dkim_eom() tells of a revoked key.
Unjudged == Malformed \/ \E s \in Signatures : Keys[s.key].rec.p = "empty"

\* A message that came to its end is not delivered if the author's domain
\* asks for what it did not sign to be discarded, the filter honours that
\* (ADSPDiscard) and no signature of the author's domain is good.
DiscardHonoured ==
    Delivered /\ Ended /\ ~Mine /\ conf.adspdiscard /\ Discardable => GoodAuthors # {} \/ Unjudged

\* A message of a signing domain from an internal host leaves with one
\* signature, over its own fields but those to be skipped and over its whole
\* body, whatever became of the messages before it on the connection; and no
\* other message is signed.  The exceptions are malformed messages, recipients
\* of DontSignMailTo and an MTA that takes no changes.
OutgoingSigned ==
    /\ Delivered /\ Mine /\ "sign" \in conf.mode =>
          \/ /\ out.signed = 1
             /\ dfc.dkim.hdrs = SelectSeq(mta.mail.fields, LAMBDA h : h.name \notin conf.lib.skip)
             /\ dfc.dkim.fed = mta.mail.body
          \/ Malformed \/ mta.to \cap conf.dontsignto # {} \/ ~out.changes
    /\ out.signed = 1 => Mine

\* what RemoveARAll and RemoveARFrom ask of one field of a message, the number it
\* has among those of its name, and the fields that a set of such numbers is
IsAuthRes(h) == h.name \in AuthResNames
Claims(h) == LET ares == AresParse(h) IN ares.st = "ok" /\ MethodMatch(ares) /\ HostMatch(ares)
Number(fields, i) == Cardinality({j \in 1..i : IsAuthRes(fields[j])})
Removed(fields, numbers) == {i \in 1..Len(fields) : IsAuthRes(fields[i]) /\ Number(fields, i) \in numbers}

\* A message that was verified is delivered without the Authentication-Results
\* fields that RemoveARAll and RemoveARFrom name, and with all others: the MTA is
\* told the number of each among the fields of that name, those that nobody can
\* parse counted.
ClaimsRemoved ==
    Delivered /\ Ended /\ out.changes /\ ~Mine =>
        \A i \in 1..Len(mta.mail.fields) :
            i \in Removed(mta.mail.fields, out.gone) <=> IsAuthRes(mta.mail.fields[i]) /\ Claims(mta.mail.fields[i])

\* opendkim.conf.5:498: On-DNSError says what becomes of a message when a
\* transient DNS error is met, here in asking for the author domain's practices
\* of a message whose status is known.
DnsErrorHandled ==
    Delivered /\ Ended /\ ~Mine /\ conf.localadsp = "none" /\ out.found.st # "OK" =>
        conf.dnserr = "accept" \/ Unjudged \/ dfc.status = "UNKNOWN"

\* What the callbacks of a transaction assert: they have a context.
ContextThere == mta.at \in {"rcpt", "header", "body", "skip"} => dfc.live

\* Only messages without a valid author signature are refused for the
\* practices of the author's domain ("there was no valid author signature",
\* mlfi_eom()).
AuthorCounts ==
    out.result = "reject" /\ Ended /\ conf.adspdiscard /\ Discardable => GoodAuthors = {}
=============================================================================
