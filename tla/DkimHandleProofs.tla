-------------------------- MODULE DkimHandleProofs --------------------------
(***************************************************************************)
(* Proofs about DkimHandle: whatever the application calls, in whatever    *)
(* order, a verdict of dkim_eom() is sound, and a good signature decides.  *)
(* For all messages, key records, settings and bounds.  The lemmas about   *)
(* the calls themselves are in DkimLibProofs; here they are put together   *)
(* to an inductive invariant of the application's steps.                   *)
(***************************************************************************)
EXTENDS DkimHandle, DkimLibProofs

\* The header fields still to be passed, and the world outside.
FieldsOK == IsSeq(msg) /\ \A n \in 1..Len(msg) : IsField(msg[n], KeyNames)
WorldOK == DOMAIN dns = KeyNames /\ Records(dns)
TextOK == DOMAIN text = {"lines", "streams", "body", "ok", "quiet"} /\ text.quiet \in BOOLEAN

\* What the last dkim_eom() said.
VerdictOK == ret = "OK" /\ d.mode = "verify" => GoodVerdict(d, dns)
DecisionOK ==
    (ret \notin {"none", "INVALID", "ABORT"} /\ d.mode = "verify" /\ d.state = EOM2 /\ d.hdrsrun /\ text.quiet) =>
        Decisive(d, ret, dns)

IInv ==
    /\ FieldsOK /\ WorldOK /\ TextOK
    /\ ret # "ABORT" => HandleOK(d, dns, text.quiet)
    /\ VerdictOK /\ DecisionOK

-----------------------------------------------------------------------------
\* The invariant is no stronger when a lookup failed.
LEMMA LessQuiet ==
    ASSUME NEW e, NEW ans, NEW q, NEW p, HandleOK(e, ans, q), p => q
    PROVE  HandleOK(e, ans, p)
<1>1. DOMAIN e = HandleFields /\ IsField(e.line, DOMAIN ans) /\ e.state \in Nat BY HandleFacts DEF HandleOK
<1>2. (e.chunk = "HEADER" /\ e.state >= EOH2) \/ AllMade(e) BY DEF HandleOK
<1>3. (e.hdrsrun => e.state >= EOH2) /\ (e.bodydone => e.state >= EOM1) BY DEF HandleOK
<1>4. e.chunk \in {"INIT", "HEADER", "BODY", "DONE"} BY DEF HandleOK
<1>. QED BY <1>1, <1>2, <1>3, <1>4, HandleLater

LEMMA WorldsUp ==
    ASSUME NEW v \in Worlds
    PROVE  v.up \in BOOLEAN
<1>1. CASE v = [up |-> TRUE, luck |-> TRUE] BY <1>1
<1>2. CASE v = [up |-> TRUE, luck |-> FALSE] BY <1>2
<1>3. CASE v = [up |-> FALSE, luck |-> TRUE] BY <1>3
<1>. QED BY <1>1, <1>2, <1>3 DEF Worlds

\* Lookups get what is published, or nothing.
LEMMA WorldHonest ==
    ASSUME WorldOK, NEW up \in BOOLEAN, NEW luck, NEW q \in BOOLEAN, NEW w, w = World(up, luck)
    PROVE  Honest(w, dns, q /\ up)
<1>1. w.ans = IF up THEN dns ELSE Down BY DEF World
<1>2. \A k \in KeyNames : Down[k].st # "OK" BY DEF Down
<1>. QED BY <1>1, <1>2 DEF Honest, WorldOK

\* The start.
LEMMA InitOK == Init => IInv
<1>. SUFFICES ASSUME Init PROVE IInv OBVIOUS
<1>1. PICK s \in Setups : d = New(s.mode, s.lib) /\ dns = s.dns /\ msg = s.msg BY DEF Init
<1>2. FieldsOK /\ WorldOK BY <1>1, HandleAssumption DEF FieldsOK, WorldOK, IsSeq, Records
<1>3. TextOK /\ text.quiet = TRUE BY DEF Init, TextOK
<1>4. HandleOK(d, dns, TRUE) BY <1>1, NewFacts
<1>. QED BY <1>2, <1>3, <1>4 DEF Init, IInv, VerdictOK, DecisionOK

-----------------------------------------------------------------------------
(* The calls.                                                              *)

\* A call that is not dkim_eom() leaves a handle in order.
LEMMA CallOK ==
    ASSUME IInv, ret # "ABORT", NEW name, name # "eom", NEW r, NEW cb, NEW up \in BOOLEAN,
           Does(name, r, cb, up), FieldsOK',
           NEW q, text.quiet /\ up => q, r.ret # "ABORT" => HandleOK(r.d, dns, q)
    PROVE  IInv'
<1>1. /\ d' = r.d /\ dns' = dns /\ ret' \in {"none", "ABORT"} /\ (ret' = "ABORT" <=> r.ret = "ABORT")
  BY DEF Does
<1>2. TextOK' /\ (text'.quiet => q) BY DEF IInv, TextOK, Does
<1>3. ret' # "ABORT" => HandleOK(d, dns, text.quiet)' BY <1>1, <1>2, LessQuiet
<1>4. WorldOK' BY <1>1 DEF IInv, WorldOK
<1>. QED BY <1>1, <1>2, <1>3, <1>4 DEF IInv, VerdictOK, DecisionOK

LEMMA CallHeaderOK == IInv /\ CallHeader => IInv'
<1>. SUFFICES ASSUME IInv, CallHeader PROVE IInv' OBVIOUS
<1>1. PICK r : r = Header(d, Head(msg)) OBVIOUS
<1>2. ret # "ABORT" /\ Does("header", r, Silent, TRUE) /\ msg # <<>> /\ msg' = Tail(msg)
  BY <1>1 DEF CallHeader, Does
<1>3. PICK S : msg \in Seq(S) BY DEF IInv, FieldsOK, IsSeq
<1>4. Len(msg) >= 1 /\ Head(msg) = msg[1] /\ Len(Tail(msg)) = Len(msg) - 1 /\ Tail(msg) \in Seq(S)
      /\ \A n \in 1..Len(Tail(msg)) : Tail(msg)[n] = msg[n + 1]
  BY <1>2, <1>3
<1>5. FieldsOK' BY <1>2, <1>4 DEF IInv, FieldsOK, IsSeq
<1>6. IsField(Head(msg), DOMAIN dns) BY <1>4 DEF IInv, FieldsOK, WorldOK
<1>7. HandleOK(d, dns, text.quiet) BY <1>2 DEF IInv
<1>8. r.ret # "ABORT" => HandleOK(r.d, dns, text.quiet) BY <1>1, <1>6, <1>7, HeaderFacts
<1>. QED BY <1>2, <1>5, <1>8, CallOK

LEMMA CallBodyOK == IInv /\ CallBody => IInv'
<1>. SUFFICES ASSUME IInv, CallBody PROVE IInv' OBVIOUS
<1>1. PICK r : r = Body(d) OBVIOUS
<1>2. ret # "ABORT" /\ Does("body", r, Silent, TRUE) /\ msg' = msg BY <1>1 DEF CallBody, Does
<1>3. HandleOK(d, dns, text.quiet) BY <1>2 DEF IInv
<1>4. r.ret # "ABORT" => HandleOK(r.d, dns, text.quiet) BY <1>1, <1>3, BodyFacts
<1>5. FieldsOK' BY <1>2 DEF IInv, FieldsOK
<1>. QED BY <1>2, <1>4, <1>5, CallOK

LEMMA CallGetSigHdrOK == IInv /\ CallGetSigHdr => IInv'
<1>. SUFFICES ASSUME IInv, CallGetSigHdr PROVE IInv' OBVIOUS
<1>1. PICK r : r = GetSigHdr(d) OBVIOUS
<1>2. ret # "ABORT" /\ Does("getsighdr", r, Silent, TRUE) /\ msg' = msg BY <1>1 DEF CallGetSigHdr, Does
<1>3. r.ret # "ABORT" => r.d = d BY <1>1 DEF GetSigHdr, Is, Abort
<1>4. HandleOK(d, dns, text.quiet) BY <1>2 DEF IInv
<1>5. r.ret # "ABORT" => HandleOK(r.d, dns, text.quiet) BY <1>3, <1>4
<1>6. FieldsOK' BY <1>2 DEF IInv, FieldsOK
<1>. QED BY <1>2, <1>5, <1>6, CallOK

\* What a call may rely on: the handle, if nothing more is asked of a failed
\* lookup, the published records, and the lookups made during the call.
LEMMA CallBegins ==
    ASSUME IInv, ret # "ABORT", NEW up \in BOOLEAN, NEW luck, NEW w, w = World(up, luck),
           NEW q, q = (text.quiet /\ up)
    PROVE  q \in BOOLEAN /\ HandleOK(d, dns, q) /\ Records(dns) /\ Honest(w, dns, q)
<1>1. text.quiet \in BOOLEAN /\ HandleOK(d, dns, text.quiet) /\ WorldOK BY DEF IInv, TextOK
<1>2. Honest(w, dns, q) BY <1>1, WorldHonest
<1>3. HandleOK(d, dns, q) BY <1>1, LessQuiet
<1>4. q \in BOOLEAN BY <1>1
<1>. QED BY <1>1, <1>2, <1>3, <1>4 DEF WorldOK

LEMMA CallEohOK ==
    ASSUME IInv, NEW cb, NEW v \in Worlds, CallEoh(cb, v)
    PROVE  IInv'
<1>1. PICK w : w = World(v.up, v.luck) OBVIOUS
<1>2. PICK r : r = Eoh(d, cb, w) OBVIOUS
<1>3. ret # "ABORT" /\ Does("eoh", r, cb, v.up) /\ msg' = msg BY <1>1, <1>2 DEF CallEoh, Does
<1>4. v.up \in BOOLEAN BY WorldsUp
<1>5. PICK q : q = (text.quiet /\ v.up) OBVIOUS
<1>6. q \in BOOLEAN /\ HandleOK(d, dns, q) /\ Records(dns) /\ Honest(w, dns, q)
  BY <1>1, <1>3, <1>4, <1>5, CallBegins
<1>7. r.ret # "ABORT" => HandleOK(r.d, dns, q) BY <1>2, <1>6, EohFacts
<1>8. FieldsOK' BY <1>3 DEF IInv, FieldsOK
<1>. QED BY <1>3, <1>4, <1>5, <1>7, <1>8, CallOK

LEMMA CallSigProcessOK ==
    ASSUME IInv, NEW i \in 1..Len(d.sigs), NEW v \in Worlds, CallSigProcess(i, v)
    PROVE  IInv'
<1>1. PICK w : w = World(v.up, v.luck) OBVIOUS
<1>2. PICK r : r = SigProcess(d, i, w) OBVIOUS
<1>3. ret # "ABORT" /\ Does("sig_process", r, Silent, v.up) /\ msg' = msg
  BY <1>1, <1>2 DEF CallSigProcess, Does
<1>4. v.up \in BOOLEAN BY WorldsUp
<1>5. PICK q : q = (text.quiet /\ v.up) OBVIOUS
<1>6. q \in BOOLEAN /\ HandleOK(d, dns, q) /\ Records(dns) /\ Honest(w, dns, q)
  BY <1>1, <1>3, <1>4, <1>5, CallBegins
<1>7. ListOK(d) /\ SigsOK(d, dns, q) BY <1>6, HandleFacts
<1>8. Alike(d, d, dns, q) BY <1>7, AlikeSelf
<1>9. Alike(r.d, d, dns, q) BY <1>2, <1>6, <1>8, AlikeStep
<1>10. SigsOK(r.d, dns, q) /\ SameHandle(r.d, d) /\ Len(r.d.sigs) = Len(d.sigs) BY <1>9, AlikeOK
<1>11. IsSeq(r.d.sigs) /\ (AllMade(d) => AllMade(r.d)) BY <1>9 DEF Alike
<1>12. HandleOK(r.d, dns, q) BY <1>6, <1>10, <1>11, HandleSigs
<1>13. FieldsOK' BY <1>3 DEF IInv, FieldsOK
<1>. QED BY <1>3, <1>4, <1>5, <1>12, <1>13, CallOK

\* dkim_eom(): its verdict, too.
LEMMA CallEomOK ==
    ASSUME IInv, NEW cb, NEW v \in Worlds, CallEom(cb, v)
    PROVE  IInv'
<1>1. PICK w : w = World(v.up, v.luck) OBVIOUS
<1>2. PICK r : r = Eom(d, cb, w) OBVIOUS
<1>3. ret # "ABORT" /\ Does("eom", r, cb, v.up) /\ msg' = msg BY <1>1, <1>2 DEF CallEom, Does
<1>4. v.up \in BOOLEAN BY WorldsUp
<1>5. PICK q : q = (text.quiet /\ v.up) OBVIOUS
<1>6. q \in BOOLEAN /\ HandleOK(d, dns, q) /\ Records(dns) /\ Honest(w, dns, q)
  BY <1>1, <1>3, <1>4, <1>5, CallBegins
<1>7. r.ret # "ABORT" =>
        /\ HandleOK(r.d, dns, q) /\ r.d.mode = d.mode
        /\ d.mode = "verify" /\ r.ret = "OK" => GoodVerdict(r.d, dns)
        /\ d.mode = "verify" /\ q /\ r.ret # "INVALID" /\ r.d.state = EOM2 /\ r.d.hdrsrun =>
             Decisive(r.d, r.ret, dns)
  BY <1>2, <1>6, EomFacts
<1>8. d' = r.d /\ dns' = dns /\ ret' = r.ret BY <1>3 DEF Does
<1>9. TextOK' /\ (text'.quiet => q) BY <1>3, <1>5 DEF IInv, TextOK, Does
<1>10. FieldsOK' /\ WorldOK' BY <1>3, <1>8 DEF IInv, FieldsOK, WorldOK
<1>11. ret' # "ABORT" => HandleOK(d, dns, text.quiet)' BY <1>7, <1>8, <1>9, LessQuiet
<1>12. VerdictOK' BY <1>7, <1>8 DEF VerdictOK
<1>13. DecisionOK' BY <1>7, <1>8, <1>9 DEF DecisionOK
<1>. QED BY <1>9, <1>10, <1>11, <1>12, <1>13 DEF IInv

\* dkim_chunk(), given what Texts offers.
LEMMA CallChunkOK ==
    ASSUME IInv, NEW toks \in Texts, NEW cb, NEW v \in Worlds, CallChunk(toks, cb, v)
    PROVE  IInv'
<1>1. PICK w : w = World(v.up, v.luck) OBVIOUS
<1>2. PICK r : r = Chunk(d, toks, cb, w) OBVIOUS
<1>3. /\ ret # "ABORT" /\ d' = r.d /\ dns' = dns /\ ret' \in {"none", "ABORT"}
      /\ ret' = "ABORT" <=> r.ret = "ABORT"
  BY <1>1, <1>2 DEF CallChunk
<1>4. v.up \in BOOLEAN BY WorldsUp
<1>5. PICK q : q = (text.quiet /\ v.up) OBVIOUS
<1>6. q \in BOOLEAN /\ HandleOK(d, dns, q) /\ Records(dns) /\ Honest(w, dns, q)
  BY <1>1, <1>3, <1>4, <1>5, CallBegins
<1>7. TextOK' /\ (text'.quiet => q) BY <1>5 DEF IInv, TextOK, CallChunk
<1>8. PICK S : msg \in Seq(S) BY DEF IInv, FieldsOK, IsSeq
<1>9. /\ IsField(NoHeader, DOMAIN dns) /\ IsField([NoHeader EXCEPT !.name = "Other"], DOMAIN dns)
  <2>1. PICK name : name = "Other" OBVIOUS
  <2>2. name # "DKIM-Signature" BY <2>1
  <2>3. IsField([NoHeader EXCEPT !.name = name], DOMAIN dns) BY <2>2, NoHeaderField
  <2>. QED BY <2>1, <2>3, NoHeaderIsField
<1>10. msg # <<>> => IsField(Head(msg), DOMAIN dns) /\ Head(msg) = msg[1] /\ Len(msg) >= 1
  BY <1>8 DEF IInv, FieldsOK, WorldOK
<1>11. \/ toks = <<>> \/ toks = <<Piece>> \/ toks = <<Blank, Piece>>
       \/ msg # <<>> /\ toks = <<Line(Head(msg))>>
  BY DEF Texts
<1>12. IsSeq(toks) /\ \A n \in 1..Len(toks) : IsField(toks[n].h, DOMAIN dns)
  <2>1. Blank.h = NoHeader /\ Piece.h = [NoHeader EXCEPT !.name = "Other"] /\ Line(Head(msg)).h = Head(msg)
    BY DEF Blank, Piece, Line
  <2>2. PICK x : x = Line(Head(msg)) OBVIOUS
  <2>3. CASE toks = <<>>
    <3>1. toks \in Seq({}) /\ Len(toks) = 0 BY <2>3
    <3>. QED BY <3>1 DEF IsSeq
  <2>4. CASE toks = <<Piece>>
    <3>1. toks \in Seq({Piece}) /\ Len(toks) = 1 /\ toks[1] = Piece BY <2>4
    <3>. QED BY <1>9, <2>1, <3>1 DEF IsSeq
  <2>5. CASE toks = <<Blank, Piece>>
    <3>1. toks \in Seq({Blank, Piece}) /\ Len(toks) = 2 /\ toks[1] = Blank /\ toks[2] = Piece BY <2>5
    <3>. QED BY <1>9, <2>1, <3>1 DEF IsSeq
  <2>6. CASE msg # <<>> /\ toks = <<Line(Head(msg))>>
    <3>1. toks \in Seq({x}) /\ Len(toks) = 1 /\ toks[1] = x BY <2>2, <2>6
    <3>2. IsField(x.h, DOMAIN dns) BY <1>10, <2>1, <2>2, <2>6
    <3>. QED BY <3>1, <3>2 DEF IsSeq
  <2>. QED BY <1>11, <2>3, <2>4, <2>5, <2>6
<1>13. r.ret # "ABORT" => HandleOK(r.d, dns, q) BY <1>2, <1>6, <1>12, ChunkFacts
<1>14. ret' # "ABORT" => HandleOK(d, dns, text.quiet)' BY <1>3, <1>7, <1>13, LessQuiet
<1>15. FieldsOK'
  <2>1. msg' = msg \/ (msg # <<>> /\ msg' = Tail(msg))
    <3>1. msg' = IF toks # <<>> /\ toks[1].t = "line" THEN Tail(msg) ELSE msg BY DEF CallChunk
    <3>2. Piece.t # "line" /\ Blank.t # "line" BY DEF Blank, Piece
    <3>. QED BY <1>11, <3>1, <3>2
  <2>2. CASE msg' = msg BY <2>2 DEF IInv, FieldsOK
  <2>3. CASE msg # <<>> /\ msg' = Tail(msg)
    <3>1. Tail(msg) \in Seq(S) /\ Len(Tail(msg)) = Len(msg) - 1
          /\ \A n \in 1..Len(Tail(msg)) : Tail(msg)[n] = msg[n + 1]
      BY <1>8, <2>3
    <3>. QED BY <2>3, <3>1 DEF IInv, FieldsOK, IsSeq
  <2>. QED BY <2>1, <2>2, <2>3
<1>16. WorldOK' BY <1>3 DEF IInv, WorldOK
<1>. QED BY <1>3, <1>7, <1>14, <1>15, <1>16 DEF IInv, VerdictOK, DecisionOK

-----------------------------------------------------------------------------
\* Every step of the application keeps the invariant.
LEMMA StepOK == IInv /\ [Next]_vars => IInv'
<1>. SUFFICES ASSUME IInv, [Next]_vars PROVE IInv' OBVIOUS
<1>1. CASE CallHeader BY <1>1, CallHeaderOK
<1>2. CASE CallBody BY <1>2, CallBodyOK
<1>3. CASE CallGetSigHdr BY <1>3, CallGetSigHdrOK
<1>4. ASSUME NEW cb \in Callbacks, NEW w \in Worlds, CallEoh(cb, w) PROVE IInv' BY <1>4, CallEohOK
<1>5. ASSUME NEW cb \in Callbacks, NEW w \in Worlds, CallEom(cb, w) PROVE IInv' BY <1>5, CallEomOK
<1>6. ASSUME NEW i \in 1..Len(d.sigs), NEW w \in Worlds, CallSigProcess(i, w) PROVE IInv'
  BY <1>6, CallSigProcessOK
<1>7. ASSUME NEW toks \in Texts, NEW cb \in Callbacks, NEW w \in Worlds, CallChunk(toks, cb, w) PROVE IInv'
  BY <1>7, CallChunkOK
<1>8. CASE UNCHANGED vars
  BY <1>8 DEF vars, IInv, FieldsOK, WorldOK, TextOK, VerdictOK, DecisionOK
<1>. QED BY <1>1, <1>2, <1>3, <1>4, <1>5, <1>6, <1>7, <1>8 DEF Next

\* The invariant holds of every handle at all times.
THEOREM Inductive == Spec => []IInv
<1>. QED BY InitOK, StepOK, PTL DEF Spec

\* dkim_eom() answers OK only when the signature it names was not to be
\* ignored and is good, whatever was called before: in every state of every
\* application's run.
THEOREM VerdictIsSound == Spec => []VerdictSound
<1>1. IInv => VerdictSound
  <2>. SUFFICES ASSUME IInv, ret = "OK", d.mode = "verify"
                PROVE  LET g == d.sigs[d.signature] IN ~g.ignore /\ (Good(g.spec) \/ LengthLeaked(g))
    BY DEF VerdictSound
  <2>1. PICK g : g = d.sigs[d.signature] OBVIOUS
  <2>2. ~g.ignore /\ Sound(d, g, dns[g.spec.key]) BY <2>1 DEF IInv, VerdictOK, GoodVerdict
  <2>3. g.len = g.spec.l => Genuine(d, g.spec, dns[g.spec.key]) BY <2>2, SoundIsGenuine
  <2>. QED BY <2>1, <2>2, <2>3 DEF Good, LengthLeaked
<1>. QED BY <1>1, Inductive, PTL

\* A good signature that nobody ignores decides what dkim_eom() answers,
\* whatever stands beside it and in whatever order they were processed.
THEOREM GoodDecides == Spec => []GoodWins
<1>1. IInv => GoodWins
  <2>. SUFFICES ASSUME IInv, ret \notin {"none", "INVALID", "ABORT"}, d.mode = "verify", d.state = EOM2,
                       d.hdrsrun, text.quiet, NEW i \in 1..Len(d.sigs), NEW g, g = d.sigs[i],
                       Good(g.spec), ~g.ignore, ~LengthLeaked(g), g.key # "garbage"
                PROVE  ret = "OK" \/ Excused(d)
    BY DEF GoodWins, Excused
  <2>1. Decisive(d, ret, dns) BY DEF IInv, DecisionOK
  <2>2. Sound(d, g, dns[g.spec.key]) BY SoundIsGenuine DEF Good, LengthLeaked
  <2>. QED BY <2>1, <2>2 DEF Decisive
<1>. QED BY <1>1, Inductive, PTL
=============================================================================
