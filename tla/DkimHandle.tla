----------------------------- MODULE DkimHandle -----------------------------
(***************************************************************************)
(* One message handle of libopendkim in the hands of an application that   *)
(* makes any call at any time (the calls are the operators of DkimLib),    *)
(* with its callbacks and the key lookups deciding as they like.           *)
(***************************************************************************)
EXTENDS DkimLib

CONSTANTS
    KeyNames,    \* pairs of selector and domain
    Setups,      \* mode, library settings, published keys and message to start with
    Ignorable,   \* positions of signatures that callbacks may ignore or process
    MaxBody,     \* bound on the body's pieces
    MaxHeaders   \* bound on the fields stored when a text is passed again and again

\* What a message, and the records published for its keys, consist of.
ASSUME HandleAssumption ==
    \A s \in Setups :
        /\ DOMAIN s.dns = KeyNames
        /\ \A k \in KeyNames : s.dns[k].st = "OK" => IsRecord(s.dns[k].rec)
        /\ s.msg \in Seq(Range(s.msg)) /\ \A n \in 1..Len(s.msg) : IsField(s.msg[n], KeyNames)

VARIABLES
    d,       \* the handle
    dns,     \* the keys published: what a lookup of each key name gets
    ret,     \* the status the last call returned, if it was dkim_eom(); "ABORT" if the process ended
    msg,     \* the header fields still to be passed
    text     \* the interface the client uses and the pieces of body it streamed; (ghost) the lines
             \* streamed, whether no call failed or was out of the ordinary, and whether all lookups
             \* were answered and all callbacks let the call go on

vars == <<d, dns, ret, msg, text>>

-----------------------------------------------------------------------------
\* The application: any call at any time, callbacks that answer and ignore as
\* they please, lookups that fail for the length of one call.

Answers ==
    {[Silent EXCEPT !.st = st, !.ignore = set] : st \in {"CONTINUE", "TRYAGAIN"}, set \in {{}, Ignorable}}
        \cup {[Silent EXCEPT !.process = Ignorable], [Silent EXCEPT !.swap = TRUE]}
Callbacks == IF d.lib.prescreen \/ d.lib.final THEN Answers ELSE {Silent}
Down == [k \in KeyNames |-> [st |-> IF d.lib.keycb THEN "CBTRYAGAIN" ELSE "KEYFAIL", rec |-> NoTags]]
World(up, luck) == [ans |-> IF up THEN dns ELSE Down, luck |-> luck]
Worlds == {[up |-> TRUE, luck |-> TRUE], [up |-> TRUE, luck |-> FALSE], [up |-> FALSE, luck |-> TRUE]}

Line(h) == [t |-> "line", h |-> h]
Blank == [t |-> "blank", h |-> NoHeader]
Piece == [t |-> "body", h |-> [NoHeader EXCEPT !.name = "Other"]]

Init ==
    /\ \E s \in Setups : d = New(s.mode, s.lib) /\ dns = s.dns /\ msg = s.msg
    /\ ret = "none"
    /\ text \in [lines : {<<>>}, streams : BOOLEAN, body : {0}, ok : {TRUE}, quiet : {TRUE}]

\* One call: r is what it does, cb and up say how its callback and its lookups went.
Does(name, r, cb, up) ==
    /\ ret # "ABORT"
    /\ d' = r.d /\ ret' = IF name = "eom" \/ r.ret = "ABORT" THEN r.ret ELSE "none"
    /\ text' = [text EXCEPT !.quiet = @ /\ up /\ cb.st = "CONTINUE", !.ok = @ /\ name # "sig_process" /\ cb = Silent]
    /\ UNCHANGED dns

CallHeader ==
    /\ ~text.streams /\ msg # <<>> /\ msg' = Tail(msg)
    /\ Does("header", Header(d, Head(msg)), Silent, TRUE)
CallEoh(cb, w) ==
    /\ ~text.streams /\ UNCHANGED msg
    /\ Does("eoh", Eoh(d, cb, World(w.up, w.luck)), cb, w.up)
CallBody == ~text.streams /\ d.fed < MaxBody /\ Does("body", Body(d), Silent, TRUE) /\ UNCHANGED msg
CallEom(cb, w) == Does("eom", Eom(d, cb, World(w.up, w.luck)), cb, w.up) /\ UNCHANGED msg
CallSigProcess(i, w) ==
    /\ i <= Len(d.sigs) /\ d.state >= EOH2 /\ UNCHANGED msg
    /\ Does("sig_process", SigProcess(d, i, World(w.up, w.luck)), Silent, w.up)
CallGetSigHdr == Does("getsighdr", GetSigHdr(d), Silent, TRUE) /\ UNCHANGED msg

\* The next text of a streaming client: a field, the blank line and a piece
\* of body, then pieces; at any time the end.
Texts ==
    {<<>>} \cup IF text.body > 0 THEN {<<Piece>>}
               ELSE {<<Blank, Piece>>} \cup (IF msg # <<>> THEN {<<Line(Head(msg))>>} ELSE {})
CallChunk(toks, cb, w) ==
    LET r == Chunk(d, toks, cb, World(w.up, w.luck))
    IN  /\ text.streams /\ ret # "ABORT" /\ (toks # <<>> => text.body < MaxBody) /\ Len(d.hdrs) < MaxHeaders
        /\ d' = r.d /\ ret' = IF r.ret = "ABORT" THEN r.ret ELSE "none"
        /\ text' = [text EXCEPT !.lines = IF text.ok THEN @ \o toks ELSE <<>>,
                                !.body = IF Piece \in Range(toks) THEN @ + 1 ELSE @,
                                !.ok = @ /\ r.ret = "OK" /\ cb = Silent, !.quiet = @ /\ w.up /\ cb.st = "CONTINUE"]
        /\ msg' = IF toks # <<>> /\ toks[1].t = "line" THEN Tail(msg) ELSE msg
        /\ UNCHANGED dns

Next ==
    \/ CallHeader \/ CallBody \/ CallGetSigHdr
    \/ \E cb \in Callbacks, w \in Worlds : CallEoh(cb, w) \/ CallEom(cb, w)
    \/ \E i \in 1..Len(d.sigs), w \in Worlds : CallSigProcess(i, w)
    \/ \E toks \in Texts, cb \in Callbacks, w \in Worlds : CallChunk(toks, cb, w)

Spec == Init /\ [][Next]_vars

-----------------------------------------------------------------------------
Good(s) == Genuine(d, s, dns[s.key])

\* Its limit came from another signature's l= (Setup).
LengthLeaked(g) == g.len # g.spec.l

\* dkim_eom() says that the message verified only if the signature it names
\* is not one the application asked to ignore and is good: parsed, made by a
\* usable published key over these headers, with a body hash that matches and
\* every other condition met, whatever was called before.  (The exception is
\* a signature without l= behind one with l=, whose limit it is held to.)
VerdictSound ==
    ret = "OK" /\ d.mode = "verify" =>
        LET g == d.sigs[d.signature] IN ~g.ignore /\ (Good(g.spec) \/ LengthLeaked(g))

\* RFC 4871, 3.5: without l= a signature is over the entire body.  dkim_eom()
\* says OK only of a signature that is good over what its own l= tells.
OwnLength ==
    ret = "OK" /\ d.mode = "verify" => Good(d.sigs[d.signature].spec)

\* A good signature that nobody ignores decides the message, whatever stands
\* beside it and in whatever order it was processed: dkim_eom() that gets to
\* its decision answers OK.  The exceptions are the length limit, a key
\* lookup that failed, key data copied from a copy (dkim_get_key()), and a
\* passing signature with an error found late, which dkim_eom() prefers.
GoodWins ==
    (ret \notin {"none", "INVALID", "ABORT"} /\ d.mode = "verify" /\ d.state = EOM2 /\ d.hdrsrun /\ text.quiet) =>
        \A i \in 1..Len(d.sigs) :
            LET g == d.sigs[i] IN
            Good(g.spec) /\ ~g.ignore /\ ~LengthLeaked(g) /\ g.key # "garbage" =>
                ret = "OK" \/ (Passing(d.sigs[d.signature]) /\ d.sigs[d.signature].error \in {"SUBDOMAIN", "MBSFAILED"})

\* A message streamed through dkim_chunk() without an error gets the verdict
\* it gets when its fields and its body are passed one by one.  (The field
\* that ends a message without a blank line is passed with its CRLF.)
ByParts(lines) ==
    LET w == World(TRUE, TRUE)
        step(e, n) == CASE lines[n].t = "line" -> Header(e, lines[n].h).d
                        [] lines[n].t = "blank" -> Eoh(e, Silent, w).d
                        [] lines[n].t = "body" -> Body(e).d
        all == Repeat(step, New(d.mode, d.lib), Len(lines))
    IN  Eom(IF all.state < EOH1 THEN Eoh(all, Silent, w).d ELSE all, Silent, w).ret

StreamingAgrees ==
    (ret \notin {"none", "INVALID", "ABORT"} /\ d.chunk = "DONE" /\ text.ok /\ text.quiet /\ ~d.tail) =>
        ret \in {ByParts(text.lines), "NORESOURCE"}
=============================================================================
