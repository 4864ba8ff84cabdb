-------------------------- MODULE DkimLookupProofs --------------------------
(***************************************************************************)
(* Proofs about the lookups of DkimLookup for every number of handles,     *)
(* names, texts and times to live, every fault and every change the owners *)
(* make.                                                                   *)
(***************************************************************************)
EXTENDS DkimLookup, TLAPS

Statuses == {"none", "OK", "INTERNAL", "KEYFAIL", "NOKEY", "SYNTAX",
             "MULTIDNSREPLY", "CANTVRFY", "CBREJECT", "CBTRYAGAIN", "CBERROR",
             "CBINVALID"}

Entries == [when : Nat, ttl : Nat, data : Data \cup {"nothing"}, lag : Nat]

Lookups ==
    [pc : {"idle", "get", "judge", "ask", "wait", "put", "other", "done"},
     op : {"key", "ex", "pol"}, name : Names, src : Sources \cup {"dns"},
     keep : BOOLEAN, asked : Names, ps : Nat, tq : Nat, ent : Entries,
     st : Statuses, val : Data \cup {"nothing"}, qst : RCodes,
     pol : Data \cup {"NONE"}, pres : {"none", "AUTHOR", "NXDOMAIN"},
     hit : BOOLEAN, guess : BOOLEAN, lag : Nat, checks : Nat]

TypeOK ==
    /\ now \in Nat /\ zone \in [Names -> Contents]
    /\ last \in [Names -> [Contents -> Int]]
    /\ cache \in [Names -> Entries]
    /\ h \in [Handles -> Lookups]
    /\ DOMAIN out = Handles

\* What is published was published now, and nothing was later.
ZoneOK ==
    \A n \in Names :
        /\ last[n][zone[n]] = now
        /\ \A c \in Contents : last[n][c] <= now

\* The name at the end of the CNAMEs.
Label(n) == IF n \in KeyNames THEN AliasOf[n] ELSE n

\* An entry holds a text that was published, at a name without a CNAME, when the
\* reply came in.
EntryOK(n, e) ==
    e # NoEntry =>
        /\ e.data \in Data /\ e.ttl = Ttl[e.data]
        /\ e.when <= now /\ e.lag <= e.when
        /\ Label(n) = n /\ last[n][e.data] >= e.when - e.lag

\* A reply tells what was published when it came in, which is after its lookup
\* began.
ReplyOK(r, a) ==
    /\ a.is \in Contents \cup NotAnAnswer \cup {"pending"}
    /\ a # Pending => a.is # "pending"
    /\ a.is \in Contents =>
        /\ a.label = Label(r.name)
        /\ a.seen \in Nat /\ a.seen <= now
        /\ last[a.label][a.is] >= a.seen
        /\ last[a.label][a.is] >= r.tq

RepliesOK(r, o) ==
    r.pc = "wait" =>
        /\ DOMAIN o = IF r.op = "ex" THEN ExTypes ELSE {"TXT"}
        /\ \A ty \in DOMAIN o : ReplyOK(r, o[ty])

\* Where a lookup is, and what it was begun for.
PlaceOK(r) ==
    /\ r.pc \in {"get", "judge", "ask", "wait", "put"} => r.src = "dns"
    /\ r.pc = "other" => r.src # "dns"
    /\ r.tq <= now
    /\ EntryOK(r.name, r.ent)
    /\ r.op = "key" =>
        /\ r.src # "callback"
        /\ r.pc \notin {"idle", "put", "done"} => r.name = r.asked
        /\ r.pc # "idle" => r.asked \in KeyNames
        /\ r.st # "CBTRYAGAIN"
    /\ r.op = "ex" => r.name = Domain /\ r.pc # "put"
    /\ r.op = "pol" => r.name = PolicyName
    /\ r.pc = "put" =>
        /\ r.op = "key" => r.name = AliasOf[r.asked]
        /\ r.val \in Data /\ last[r.name][r.val] >= r.tq

Fresh(r) ==
    r.pc = "done" /\ r.op = "key" /\ r.st = "OK" =>
        /\ r.val \in Data
        /\ last[Target(r)][r.val] >= 0
        /\ r.tq <= last[Target(r)][r.val] + Ttl[r.val] + r.lag

Done(r) == r.pc = "done" /\ r.st = "OK"

\* The parts of the result are filled in where the lookup ends.
ResultOK(r) ==
    /\ r.pc # "done" => r.pres = "none"
    /\ ~Done(r) => r.pol = "NONE"
    /\ r.checks <= 1 /\ (r.op = "ex" /\ ~Done(r) => r.checks = 0)
    /\ ~r.hit => Honoured(r)
    /\ Concluded(r) /\ r.pres = "NXDOMAIN" /\ r.src # "file" /\ ~r.guess
       => last[Domain]["nx"] >= r.tq

LookupOK(r) == PlaceOK(r) /\ Fresh(r) /\ ResultOK(r)

IInv ==
    /\ TypeOK /\ ZoneOK
    /\ \A n \in Names : EntryOK(n, cache[n])
    /\ \A x \in Handles : LookupOK(h[x]) /\ RepliesOK(h[x], out[x])

-----------------------------------------------------------------------------
(* What a lookup becomes.                                                  *)

\* No entry is an entry, and claims nothing.
LEMMA NoEntryType == NoEntry \in Entries /\ \A n : EntryOK(n, NoEntry)
BY DEF NoEntry, Entries, EntryOK

\* What Returned() leaves alone.
LEMMA ReturnedFields ==
    ASSUME NEW r \in Lookups, NEW st \in Statuses
    PROVE  LET t == Returned(r, st) IN
           /\ t \in Lookups /\ t.pc = "done" /\ t.st = st /\ t.ent = NoEntry
           /\ t.op = r.op /\ t.name = r.name /\ t.src = r.src /\ t.asked = r.asked
           /\ t.tq = r.tq /\ t.val = r.val /\ t.pol = r.pol /\ t.pres = r.pres
           /\ t.hit = r.hit /\ t.guess = r.guess /\ t.lag = r.lag
           /\ t.checks = r.checks
BY NoEntryType DEF Returned, Lookups

\* A lookup that fails has no result.
LEMMA ReturnedOK ==
    ASSUME NEW r \in Lookups, PlaceOK(r), ResultOK(r), r.pc \notin {"idle", "done"},
           NEW st \in Statuses \ {"OK"}, r.op = "key" => st # "CBTRYAGAIN"
    PROVE  Returned(r, st) \in Lookups /\ LookupOK(Returned(r, st))
<1>. DEFINE t == Returned(r, st)
<1>1. /\ t \in Lookups
      /\ t.pc = "done" /\ t.st = st /\ t.ent = NoEntry
      /\ t.op = r.op /\ t.name = r.name /\ t.src = r.src /\ t.asked = r.asked
      /\ t.tq = r.tq /\ t.val = r.val /\ t.pol = r.pol /\ t.pres = r.pres
      /\ t.hit = r.hit /\ t.guess = r.guess /\ t.lag = r.lag
      /\ t.checks = r.checks
  BY ReturnedFields
<1>. HIDE DEF t
<1>2. PlaceOK(t) BY <1>1, NoEntryType DEF PlaceOK
<1>3. Fresh(t) BY <1>1 DEF Fresh
<1>4. ResultOK(t) BY <1>1 DEF ResultOK, Done, Concluded, Honoured
<1>. QED BY <1>1, <1>2, <1>3, <1>4 DEF t, LookupOK

\* A key that is returned must be fresh.
LEMMA KeyReturnedOK ==
    ASSUME NEW r \in Lookups, PlaceOK(r), ResultOK(r), r.pc \notin {"idle", "done"},
           r.op = "key", r.val \in Data, last[Target(r)][r.val] >= 0,
           r.tq <= last[Target(r)][r.val] + Ttl[r.val] + r.lag
    PROVE  Returned(r, "OK") \in Lookups /\ LookupOK(Returned(r, "OK"))
<1>. DEFINE t == Returned(r, "OK")
<1>1. /\ t \in Lookups
      /\ t.pc = "done" /\ t.st = "OK" /\ t.ent = NoEntry
      /\ t.op = r.op /\ t.name = r.name /\ t.src = r.src /\ t.asked = r.asked
      /\ t.tq = r.tq /\ t.val = r.val /\ t.pol = r.pol /\ t.pres = r.pres
      /\ t.hit = r.hit /\ t.guess = r.guess /\ t.lag = r.lag
      /\ t.checks = r.checks
  BY ReturnedFields DEF Statuses
<1>. HIDE DEF t
<1>2. PlaceOK(t) BY <1>1, NoEntryType DEF PlaceOK
<1>3. Fresh(t) BY <1>1 DEF Fresh, Target
<1>4. ResultOK(t) BY <1>1 DEF ResultOK, Done, Concluded, Honoured
<1>. QED BY <1>1, <1>2, <1>3, <1>4 DEF t, LookupOK

\* A query that begins, on the cache or on another source.
LEMMA QueriedOK ==
    ASSUME now \in Nat, NEW r \in Lookups, r.pres = "none", r.pol = "NONE",
           EntryOK(r.name, r.ent),
           r.checks <= 1, r.op = "ex" => r.checks = 0 /\ r.name = Domain,
           r.op = "pol" => r.name = PolicyName,
           r.op = "key" => /\ r.src # "callback"
                           /\ r.name = r.asked /\ r.asked \in KeyNames
                           /\ r.st # "CBTRYAGAIN"
    PROVE  /\ Queried(r) \in Lookups /\ LookupOK(Queried(r))
           /\ Queried(r).pc \in {"get", "other"}
<1>. DEFINE t == Queried(r)
<1>1. /\ t \in Lookups
      /\ t.pc = (IF r.src = "dns" THEN "get" ELSE "other")
      /\ t.st = r.st /\ t.ent = r.ent
      /\ t.op = r.op /\ t.name = r.name /\ t.src = r.src /\ t.asked = r.asked
      /\ t.tq = now /\ t.val = r.val /\ t.pol = r.pol /\ t.pres = r.pres
      /\ t.hit = r.hit /\ t.guess = r.guess /\ t.lag = r.lag
      /\ t.checks = r.checks
  BY DEF Queried, Lookups
<1>. HIDE DEF t
<1>2. PlaceOK(t) BY <1>1, NoEntryType DEF PlaceOK
<1>3. Fresh(t) BY <1>1 DEF Fresh
<1>4. ResultOK(t) BY <1>1 DEF ResultOK, Done, Concluded, Honoured
<1>. QED BY <1>1, <1>2, <1>3, <1>4 DEF t, LookupOK

\* After the existence check the policy is asked for, unless the domain is missing.
LEMMA ExcheckOK ==
    ASSUME now \in Nat, NEW r \in Lookups, PlaceOK(r), ResultOK(r),
           r.pc \notin {"idle", "done"}, r.op = "ex",
           r.qst = "NXDOMAIN" /\ r.src # "file" /\ ~r.guess
             => last[Domain]["nx"] >= r.tq
    PROVE  /\ AfterExcheck(r) \in Lookups /\ LookupOK(AfterExcheck(r))
           /\ AfterExcheck(r).pc \in {"get", "other", "done"}
<1>1. r.checks = 0 /\ r.pres = "none" /\ r.pol = "NONE"
  BY DEF ResultOK, Done
<1>. DEFINE s == [r EXCEPT !.ps = 1, !.checks = @ + 1]
<1>0. /\ s \in Lookups
      /\ s.op = r.op /\ s.name = r.name /\ s.src = r.src /\ s.asked = r.asked
      /\ s.tq = r.tq /\ s.val = r.val /\ s.pol = r.pol /\ s.pres = r.pres
      /\ s.hit = r.hit /\ s.guess = r.guess /\ s.lag = r.lag
      /\ s.checks = r.checks + 1
  <2>1. r.checks + 1 \in Nat BY DEF Lookups
  <2>. QED BY <2>1 DEF Lookups
<1>00. AfterExcheck(r) =
         IF r.qst = "NXDOMAIN" THEN Returned([s EXCEPT !.pres = "NXDOMAIN"], "OK")
         ELSE Queried([s EXCEPT !.op = "pol", !.name = PolicyName, !.ent = NoEntry])
  BY DEF AfterExcheck
<1>. HIDE DEF s
<1>2. CASE r.qst = "NXDOMAIN"
  <2>. DEFINE t == AfterExcheck(r)
  <2>1. /\ t \in Lookups
        /\ t.pc = "done" /\ t.st = "OK" /\ t.ent = NoEntry
        /\ t.op = r.op /\ t.name = r.name /\ t.src = r.src /\ t.asked = r.asked
        /\ t.tq = r.tq /\ t.val = r.val /\ t.pol = r.pol /\ t.pres = "NXDOMAIN"
        /\ t.hit = r.hit /\ t.guess = r.guess /\ t.lag = r.lag
        /\ t.checks = r.checks + 1
    <3>. DEFINE u == [s EXCEPT !.pres = "NXDOMAIN"]
    <3>1. /\ u \in Lookups
          /\ u.op = r.op /\ u.name = r.name /\ u.src = r.src /\ u.asked = r.asked
          /\ u.tq = r.tq /\ u.val = r.val /\ u.pol = r.pol /\ u.pres = "NXDOMAIN"
          /\ u.hit = r.hit /\ u.guess = r.guess /\ u.lag = r.lag
          /\ u.checks = r.checks + 1
      BY <1>0 DEF Lookups
    <3>2. t = Returned(u, "OK") BY <1>2, <1>00
    <3>. HIDE DEF u, t
    <3>3. "OK" \in Statuses BY DEF Statuses
    <3>. QED BY <3>1, <3>2, <3>3, ReturnedFields
  <2>. HIDE DEF t
  <2>2. PlaceOK(t) BY <2>1, NoEntryType DEF PlaceOK
  <2>3. Fresh(t) BY <2>1 DEF Fresh
  <2>4. ResultOK(t) BY <1>1, <1>2, <2>1 DEF ResultOK, Done, Concluded, Honoured
  <2>. QED BY <2>1, <2>2, <2>3, <2>4 DEF t, LookupOK
<1>3. CASE r.qst # "NXDOMAIN"
  <2>. DEFINE t == [s EXCEPT !.op = "pol", !.name = PolicyName, !.ent = NoEntry]
  <2>1. AfterExcheck(r) = Queried(t) BY <1>3, <1>00
  <2>2. PolicyName \in Names BY DEF Names
  <2>3. /\ t \in Lookups /\ t.ent = NoEntry
        /\ t.op = "pol" /\ t.name = PolicyName
        /\ t.pol = r.pol /\ t.pres = r.pres /\ t.checks = r.checks + 1
    BY <1>0, <2>2, NoEntryType DEF Lookups
  <2>. HIDE DEF t
  <2>. QED BY <1>1, <2>1, <2>3, NoEntryType, QueriedOK
<1>. QED BY <1>2, <1>3

\* A policy that is reported was published when it was asked for, and where none is
\* reported there was no usable one.
LEMMA PolicyOK ==
    ASSUME now \in Nat, NEW r \in Lookups, PlaceOK(r), ResultOK(r),
           r.pc \notin {"idle", "done"}, r.op = "pol",
           NEW found \in BOOLEAN, NEW text,
           found => text \in Data /\ last[PolicyName][text] >= r.tq,
           ~found /\ r.qst = "NOERROR" /\ ~r.hit
             => \E c \in Contents \ (Data \ Junk) : last[PolicyName][c] >= r.tq
    PROVE  /\ AfterPolicy(r, found, text) \in Lookups
           /\ LookupOK(AfterPolicy(r, found, text))
           /\ AfterPolicy(r, found, text).pc = "done"
<1>. DEFINE parsed == found /\ r.qst = "NOERROR"
            s == [r EXCEPT !.ps = 2, !.pol = IF parsed THEN text ELSE @,
                           !.pres = IF r.qst = "NOERROR" THEN "AUTHOR" ELSE "none"]
<1>1. CASE parsed /\ text \in Junk
  <2>1. AfterPolicy(r, found, text) = Returned(r, "SYNTAX")
    BY <1>1 DEF AfterPolicy
  <2>2. "SYNTAX" \in Statuses \ {"OK"} BY DEF Statuses
  <2>3. Returned(r, "SYNTAX").pc = "done" BY DEF Returned, Lookups
  <2>. QED BY <2>1, <2>2, <2>3, ReturnedOK
<1>2. CASE ~(parsed /\ text \in Junk)
  <2>. DEFINE t == AfterPolicy(r, found, text)
  <2>1. /\ s \in Lookups
        /\ s.op = r.op /\ s.name = r.name /\ s.src = r.src /\ s.asked = r.asked
        /\ s.tq = r.tq /\ s.val = r.val /\ s.pol = (IF parsed THEN text ELSE r.pol)
        /\ s.pres = (IF r.qst = "NOERROR" THEN "AUTHOR" ELSE "none")
        /\ s.hit = r.hit /\ s.guess = r.guess /\ s.lag = r.lag
        /\ s.checks = r.checks
    BY DEF Lookups
  <2>2. t = Returned(s, "OK") BY <1>2 DEF AfterPolicy
  <2>. HIDE DEF t, s, parsed
  <2>3. /\ t \in Lookups
        /\ t.pc = "done" /\ t.st = "OK" /\ t.ent = NoEntry
        /\ t.op = r.op /\ t.name = r.name /\ t.src = r.src /\ t.asked = r.asked
        /\ t.tq = r.tq /\ t.val = r.val /\ t.pol = (IF parsed THEN text ELSE r.pol)
        /\ t.pres = (IF r.qst = "NOERROR" THEN "AUTHOR" ELSE "none")
        /\ t.hit = r.hit /\ t.guess = r.guess /\ t.lag = r.lag
        /\ t.checks = r.checks
    <3>1. "OK" \in Statuses BY DEF Statuses
    <3>. QED BY <2>1, <2>2, <3>1, ReturnedFields
  <2>4. PlaceOK(t) BY <2>3, NoEntryType DEF PlaceOK
  <2>5. Fresh(t) BY <2>3 DEF Fresh
  <2>6. r.pol = "NONE" /\ "NONE" \notin Data
    BY LookupAssumption DEF ResultOK, Done
  <2>7. ~t.hit => Honoured(t)
    <3>1. CASE parsed BY <2>3, <3>1 DEF Honoured, parsed
    <3>2. CASE ~parsed BY <2>3, <2>6, <3>2 DEF Honoured, parsed
    <3>. QED BY <3>1, <3>2
  <2>8. ResultOK(t) BY <2>3, <2>7 DEF ResultOK, Done
  <2>. QED BY <2>3, <2>4, <2>5, <2>8 DEF t, LookupOK
<1>. QED BY <1>1, <1>2

\* What a policy-side query found is true of the call.
PolicyTrue(r, outcome, qst, text) ==
    /\ r.op = "ex" /\ outcome # "failed" /\ qst = "NXDOMAIN" /\ r.src # "file" /\ ~r.guess
       => last[Domain]["nx"] >= r.tq
    /\ r.op = "pol" /\ outcome = "found"
       => text \in Data /\ last[PolicyName][text] >= r.tq
    /\ r.op = "pol" /\ outcome = "absent" /\ qst = "NOERROR" /\ ~r.hit
       => \E c \in Contents \ (Data \ Junk) : last[PolicyName][c] >= r.tq

\* The outcome of a policy-side query.
LEMMA PolicyResultOK ==
    ASSUME now \in Nat, NEW r \in Lookups, PlaceOK(r), ResultOK(r),
           r.pc \notin {"idle", "done"}, r.op # "key",
           NEW outcome \in {"found", "absent", "failed"}, NEW qst \in RCodes,
           NEW text, PolicyTrue(r, outcome, qst, text)
    PROVE  /\ PolicyResult(r, outcome, qst, text) \in Lookups
           /\ LookupOK(PolicyResult(r, outcome, qst, text))
           /\ PolicyResult(r, outcome, qst, text).pc \in {"get", "other", "done"}
<1>1. CASE outcome = "failed"
  <2>1. PolicyResult(r, outcome, qst, text) = Returned(r, "CANTVRFY")
    BY <1>1 DEF PolicyResult
  <2>2. "CANTVRFY" \in Statuses \ {"OK"} BY DEF Statuses
  <2>3. Returned(r, "CANTVRFY").pc = "done" BY DEF Returned, Lookups
  <2>. QED BY <2>1, <2>2, <2>3, ReturnedOK
<1>2. CASE outcome # "failed"
  <2>. DEFINE s == [r EXCEPT !.qst = qst]
  <2>1. PolicyResult(r, outcome, qst, text) =
          IF s.op = "ex" THEN AfterExcheck(s)
          ELSE AfterPolicy(s, outcome = "found", text)
    BY <1>2 DEF PolicyResult, Lookups
  <2>2. /\ s \in Lookups /\ s.qst = qst
        /\ s.pc = r.pc /\ s.st = r.st /\ s.ent = r.ent
        /\ s.op = r.op /\ s.name = r.name /\ s.src = r.src /\ s.asked = r.asked
        /\ s.tq = r.tq /\ s.val = r.val /\ s.pol = r.pol /\ s.pres = r.pres
        /\ s.hit = r.hit /\ s.guess = r.guess /\ s.lag = r.lag
        /\ s.checks = r.checks
    BY DEF Lookups
  <2>. HIDE DEF s
  <2>3. PlaceOK(s) BY <2>2 DEF PlaceOK
  <2>4. ResultOK(s) BY <2>2 DEF ResultOK, Done, Concluded, Honoured
  <2>5. CASE r.op = "ex"
    <3>1. s.qst = "NXDOMAIN" /\ s.src # "file" /\ ~s.guess
            => last[Domain]["nx"] >= s.tq
      BY <1>2, <2>2, <2>5 DEF PolicyTrue
    <3>2. /\ AfterExcheck(s) \in Lookups /\ LookupOK(AfterExcheck(s))
          /\ AfterExcheck(s).pc \in {"get", "other", "done"}
      BY <2>2, <2>3, <2>4, <2>5, <3>1, ExcheckOK
    <3>. QED BY <2>1, <2>2, <2>5, <3>2
  <2>6. CASE r.op = "pol"
    <3>. DEFINE found == outcome = "found"
    <3>1. /\ found => text \in Data /\ last[PolicyName][text] >= s.tq
          /\ ~found /\ s.qst = "NOERROR" /\ ~s.hit
             => \E c \in Contents \ (Data \ Junk) : last[PolicyName][c] >= s.tq
      BY <1>2, <2>2, <2>6 DEF PolicyTrue
    <3>2. found \in BOOLEAN OBVIOUS
    <3>3. PolicyResult(r, outcome, qst, text) = AfterPolicy(s, found, text)
      BY <2>1, <2>2, <2>6
    <3>. HIDE DEF found
    <3>4. /\ AfterPolicy(s, found, text) \in Lookups
          /\ LookupOK(AfterPolicy(s, found, text))
          /\ AfterPolicy(s, found, text).pc = "done"
      BY <2>2, <2>3, <2>4, <2>6, <3>1, <3>2, PolicyOK
    <3>. QED BY <3>3, <3>4
  <2>7. r.op \in {"ex", "pol"} BY DEF Lookups
  <2>. QED BY <2>5, <2>6, <2>7
<1>. QED BY <1>1, <1>2

-----------------------------------------------------------------------------
(* Steps.                                                                  *)

\* A handle that has looked nothing up.
LEMMA IdleOK ==
    ASSUME now \in Nat
    PROVE  Idle \in Lookups /\ LookupOK(Idle) /\ RepliesOK(Idle, NoQueries)
<1>1. Idle \in Lookups
  BY NoEntryType DEF Idle, Lookups, Names, RCodes, Statuses
<1>2. PlaceOK(Idle) BY NoEntryType DEF PlaceOK, Idle
<1>3. Fresh(Idle) BY DEF Fresh, Idle
<1>4. ResultOK(Idle) BY DEF ResultOK, Idle, Done, Concluded, Honoured
<1>5. RepliesOK(Idle, NoQueries) BY DEF RepliesOK, Idle
<1>. QED BY <1>1, <1>2, <1>3, <1>4, <1>5 DEF LookupOK

\* The invariant holds at the start.
LEMMA InitOK == Init => IInv
<1>. SUFFICES ASSUME Init PROVE IInv
  OBVIOUS
<1>. USE LookupAssumption
<1>1. /\ now = 0 /\ zone \in [Names -> Contents]
      /\ last = [n \in Names |-> [c \in Contents |-> IF c = zone[n] THEN 0 ELSE -1]]
      /\ cache = [n \in Names |-> NoEntry]
      /\ h = [x \in Handles |-> Idle] /\ out = [x \in Handles |-> NoQueries]
  BY DEF Init
<1>2. Idle \in Lookups /\ LookupOK(Idle) /\ RepliesOK(Idle, NoQueries)
  BY <1>1, IdleOK
<1>3. TypeOK BY <1>1, <1>2, NoEntryType DEF TypeOK
<1>4. ZoneOK BY <1>1 DEF ZoneOK
<1>5. \A n \in Names : EntryOK(n, cache[n]) BY <1>1, NoEntryType
<1>. QED BY <1>1, <1>2, <1>3, <1>4, <1>5 DEF IInv

\* What was published stays published then: time only adds to what is known.
LEMMA TimeStep ==
    ASSUME IInv, UNCHANGED <<cache, h, out>>,
           now' \in Nat, now' >= now, zone' \in [Names -> Contents],
           last' \in [Names -> [Contents -> Int]], ZoneOK',
           \A n \in Names : \A c \in Contents : last'[n][c] >= last[n][c]
    PROVE  IInv'
<1>. USE LookupAssumption
<1>0. /\ now \in Nat /\ last \in [Names -> [Contents -> Int]]
      /\ cache \in [Names -> Entries] /\ h \in [Handles -> Lookups]
  BY DEF IInv, TypeOK
<1>1. TypeOK' BY <1>0 DEF IInv, TypeOK
<1>2. \A n \in Names, c \in Contents :
        last[n][c] \in Int /\ last'[n][c] \in Int
  BY <1>0
<1>3. Data \subseteq Contents /\ PolicyName \in Names /\ Domain \in Names
      /\ "nx" \in Contents
  BY DEF Contents, Names
<1>4. ASSUME NEW n \in Names, NEW e \in Entries, EntryOK(n, e)
      PROVE  EntryOK(n, e)'
  <2>. SUFFICES ASSUME e # NoEntry PROVE EntryOK(n, e)'
    BY DEF EntryOK
  <2>1. e.when \in Nat /\ e.lag \in Nat /\ e.data \in Data
    BY <1>4 DEF Entries, EntryOK
  <2>2. last'[n][e.data] >= last[n][e.data] /\ last[n][e.data] \in Int
        /\ last'[n][e.data] \in Int
    BY <1>2, <1>3, <2>1
  <2>3. /\ e.when <= now /\ e.lag <= e.when /\ last[n][e.data] >= e.when - e.lag
        /\ e.ttl = Ttl[e.data] /\ Label(n) = n
    BY <1>4 DEF EntryOK
  <2>4. e.when <= now' /\ last'[n][e.data] >= e.when - e.lag
    BY <1>0, <2>1, <2>2, <2>3
  <2>. QED BY <2>1, <2>3, <2>4 DEF EntryOK
<1>5. ASSUME NEW r \in Lookups, LookupOK(r) PROVE LookupOK(r)'
  <2>1. /\ r.tq \in Nat /\ r.name \in Names /\ r.ent \in Entries
        /\ r.asked \in Names /\ r.lag \in Nat
    BY DEF Lookups
  <2>2. PlaceOK(r)'
    <3>1. EntryOK(r.name, r.ent)' BY <1>4, <1>5, <2>1 DEF LookupOK, PlaceOK
    <3>2. r.tq <= now' BY <1>0, <1>5, <2>1 DEF LookupOK, PlaceOK
    <3>3. r.pc = "put" => last'[r.name][r.val] >= r.tq
      <4>. SUFFICES ASSUME r.pc = "put" PROVE last'[r.name][r.val] >= r.tq
        OBVIOUS
      <4>1. r.val \in Contents /\ last[r.name][r.val] >= r.tq
        BY <1>3, <1>5 DEF LookupOK, PlaceOK
      <4>2. last'[r.name][r.val] >= last[r.name][r.val] BY <2>1, <4>1
      <4>. QED BY <1>2, <2>1, <4>1, <4>2
    <3>. QED BY <1>5, <3>1, <3>2, <3>3 DEF LookupOK, PlaceOK
  <2>3. Fresh(r)'
    <3>. SUFFICES ASSUME r.pc = "done", r.op = "key", r.st = "OK" PROVE Fresh(r)'
      BY DEF Fresh
    <3>1. /\ r.val \in Data /\ last[Target(r)][r.val] >= 0
          /\ r.tq <= last[Target(r)][r.val] + Ttl[r.val] + r.lag
      BY <1>5 DEF LookupOK, Fresh
    <3>2. r.asked \in KeyNames BY <1>5 DEF LookupOK, PlaceOK
    <3>3. Target(r) \in Names BY <3>2 DEF Target, Names
    <3>4. /\ last'[Target(r)][r.val] >= last[Target(r)][r.val]
          /\ last'[Target(r)][r.val] \in Int /\ last[Target(r)][r.val] \in Int
          /\ Ttl[r.val] \in Nat
      BY <1>2, <1>3, <3>1, <3>3
    <3>5. /\ last'[Target(r)][r.val] >= 0
          /\ r.tq <= last'[Target(r)][r.val] + Ttl[r.val] + r.lag
      BY <2>1, <3>1, <3>4
    <3>. QED BY <3>1, <3>5 DEF Fresh, Target
  <2>4. ResultOK(r)'
    <3>1. \A n \in Names, c \in Contents :
            last[n][c] >= r.tq => last'[n][c] >= r.tq
      <4>. TAKE n \in Names, c \in Contents
      <4>1. /\ last[n][c] \in Int /\ last'[n][c] \in Int
            /\ last'[n][c] >= last[n][c]
        BY <1>2
      <4>. QED BY <2>1, <4>1
    <3>2. Honoured(r) => Honoured(r)'
      BY <1>3, <3>1 DEF Honoured, Concluded
    <3>. QED BY <1>3, <1>5, <3>1, <3>2 DEF LookupOK, ResultOK, Done, Concluded
  <2>. QED BY <2>2, <2>3, <2>4 DEF LookupOK
<1>6. ASSUME NEW r \in Lookups, NEW o, RepliesOK(r, o) PROVE RepliesOK(r, o)'
  <2>1. r.tq \in Nat /\ Label(r.name) \in Names
    BY DEF Lookups, Label, Names
  <2>2. ASSUME NEW a, ReplyOK(r, a) PROVE ReplyOK(r, a)'
    <3>. SUFFICES ASSUME a.is \in Contents PROVE ReplyOK(r, a)'
      BY <2>2 DEF ReplyOK
    <3>1. /\ a.label = Label(r.name) /\ a.seen \in Nat /\ a.seen <= now
          /\ last[a.label][a.is] >= a.seen /\ last[a.label][a.is] >= r.tq
      BY <2>2 DEF ReplyOK
    <3>2. /\ last'[a.label][a.is] >= last[a.label][a.is]
          /\ last'[a.label][a.is] \in Int /\ last[a.label][a.is] \in Int
      BY <1>2, <2>1, <3>1
    <3>3. /\ a.seen <= now'
          /\ last'[a.label][a.is] >= a.seen /\ last'[a.label][a.is] >= r.tq
      BY <1>0, <2>1, <3>1, <3>2
    <3>. QED BY <2>2, <3>1, <3>3 DEF ReplyOK
  <2>. QED BY <1>6, <2>2 DEF RepliesOK
<1>7. ASSUME NEW n \in Names PROVE EntryOK(n, cache[n])'
  <2>1. PICK e \in Entries : e = cache[n] BY <1>0
  <2>2. EntryOK(n, e)' BY <1>4, <2>1 DEF IInv
  <2>3. e = cache'[n] BY <2>1
  <2>. QED BY <2>2, <2>3 DEF EntryOK
<1>8. ASSUME NEW x \in Handles
      PROVE  LookupOK(h[x])' /\ RepliesOK(h[x], out[x])'
  <2>1. PICK r \in Lookups : r = h[x] BY <1>0
  <2>2. PICK o : o = out[x] OBVIOUS
  <2>3. LookupOK(r)' /\ RepliesOK(r, o)'
    BY <1>5, <1>6, <2>1, <2>2 DEF IInv
  <2>4. r = h'[x] /\ o = out'[x] BY <2>1, <2>2
  <2>. QED BY <2>3, <2>4
<1>. QED BY <1>1, <1>7, <1>8 DEF IInv

\* A step of one handle, which may change the cache.
LEMMA HandleStep ==
    ASSUME IInv, UNCHANGED <<now, zone, last>>,
           NEW x \in Handles, NEW R \in Lookups, LookupOK(R),
           h' = [h EXCEPT ![x] = R], DOMAIN out' = Handles,
           \A y \in Handles : y # x => out'[y] = out[y],
           RepliesOK(R, out'[x]),
           cache' \in [Names -> Entries],
           \A n \in Names : EntryOK(n, cache'[n])
    PROVE  IInv'
<1>0. h \in [Handles -> Lookups] BY DEF IInv, TypeOK
<1>1. /\ h' \in [Handles -> Lookups] /\ h'[x] = R
      /\ \A y \in Handles : y # x => h'[y] = h[y]
  BY <1>0
<1>2. TypeOK' BY <1>1 DEF IInv, TypeOK
<1>3. ZoneOK' BY DEF IInv, ZoneOK
<1>4. ASSUME NEW n \in Names PROVE EntryOK(n, cache[n])'
  BY DEF EntryOK
<1>5. ASSUME NEW r, NEW o, LookupOK(r), RepliesOK(r, o)
      PROVE  LookupOK(r)' /\ RepliesOK(r, o)'
  BY <1>5 DEF LookupOK, PlaceOK, Fresh, ResultOK, Honoured, Concluded, Done, Target,
              EntryOK, RepliesOK, ReplyOK
<1>6. ASSUME NEW y \in Handles
      PROVE  LookupOK(h[y])' /\ RepliesOK(h[y], out[y])'
  <2>1. PICK r : r = h'[y] OBVIOUS
  <2>2. PICK o : o = out'[y] OBVIOUS
  <2>3. LookupOK(r) /\ RepliesOK(r, o)
    BY <1>1, <2>1, <2>2 DEF IInv
  <2>. QED BY <1>5, <2>1, <2>2, <2>3
<1>. QED BY <1>2, <1>3, <1>4, <1>6 DEF IInv

\* What a step of handle x finds there.
LEMMA Found ==
    ASSUME IInv, NEW x \in Handles
    PROVE  /\ h[x] \in Lookups /\ LookupOK(h[x]) /\ RepliesOK(h[x], out[x])
           /\ PlaceOK(h[x]) /\ ResultOK(h[x]) /\ Fresh(h[x])
           /\ now \in Nat /\ zone \in [Names -> Contents]
           /\ last \in [Names -> [Contents -> Int]]
           /\ cache \in [Names -> Entries] /\ \A n \in Names : EntryOK(n, cache[n])
           /\ DOMAIN out = Handles
BY DEF IInv, TypeOK, LookupOK

\* A step of one handle that leaves the cache and the resolver alone.
LEMMA AloneStep ==
    ASSUME IInv, UNCHANGED <<now, zone, last, cache, out>>,
           NEW x \in Handles, NEW R \in Lookups, LookupOK(R), R.pc # "wait",
           h' = [h EXCEPT ![x] = R]
    PROVE  IInv'
<1>1. RepliesOK(R, out'[x]) BY DEF RepliesOK
<1>2. DOMAIN out' = Handles /\ cache' \in [Names -> Entries]
      /\ \A n \in Names : EntryOK(n, cache'[n])
  <2>1. cache' = cache /\ out' = out OBVIOUS
  <2>. QED BY <2>1, Found
<1>3. \A y \in Handles : y # x => out'[y] = out[y] OBVIOUS
<1>. QED BY <1>1, <1>2, <1>3, HandleStep

\* Time passes.
LEMMA TickStep == IInv /\ Tick => IInv'
<1>. SUFFICES ASSUME IInv, Tick PROVE IInv'
  OBVIOUS
<1>. USE LookupAssumption
<1>1. /\ now \in Nat /\ zone \in [Names -> Contents]
      /\ last \in [Names -> [Contents -> Int]]
  BY DEF IInv, TypeOK
<1>2. /\ now' = now + 1 /\ UNCHANGED <<zone, cache, h, out>>
      /\ last' = [n \in Names |-> [last[n] EXCEPT ![zone[n]] = now + 1]]
  BY DEF Tick
<1>3. now' \in Nat /\ now' >= now /\ zone' \in [Names -> Contents]
  BY <1>1, <1>2
<1>4. last' \in [Names -> [Contents -> Int]]
  <2>1. ASSUME NEW n \in Names
        PROVE  [last[n] EXCEPT ![zone[n]] = now + 1] \in [Contents -> Int]
    BY <1>1
  <2>. QED BY <1>2, <2>1
<1>6. ASSUME NEW n \in Names, NEW c \in Contents
      PROVE  /\ last'[n][c] >= last[n][c] /\ last'[n][c] <= now'
             /\ c = zone[n] => last'[n][c] = now'
  <2>1. last[n][c] \in Int BY <1>1
  <2>2. last'[n][c] = IF c = zone[n] THEN now + 1 ELSE last[n][c]
    BY <1>1, <1>2
  <2>3. last[n][c] <= now BY DEF IInv, ZoneOK
  <2>. QED BY <1>1, <1>2, <2>1, <2>2, <2>3
<1>5. ZoneOK'
  <2>1. \A n \in Names : zone'[n] = zone[n] /\ zone[n] \in Contents BY <1>1, <1>2
  <2>. QED BY <1>6, <2>1 DEF ZoneOK
<1>. QED BY <1>2, <1>3, <1>4, <1>5, <1>6, TimeStep

\* The owner of a name publishes something else.
LEMMA PublishStep ==
    ASSUME IInv, NEW n \in Names, NEW c \in Contents, Publish(n, c)
    PROVE  IInv'
<1>1. /\ now \in Nat /\ zone \in [Names -> Contents]
      /\ last \in [Names -> [Contents -> Int]]
  BY DEF IInv, TypeOK
<1>2. /\ UNCHANGED <<now, cache, h, out>> /\ zone' = [zone EXCEPT ![n] = c]
      /\ last' = [last EXCEPT ![n][c] = now]
  BY DEF Publish
<1>3. now' \in Nat /\ now' >= now /\ zone' \in [Names -> Contents]
  BY <1>1, <1>2
<1>4. last' \in [Names -> [Contents -> Int]] BY <1>1, <1>2
<1>5. ASSUME NEW m \in Names, NEW d \in Contents
      PROVE  /\ last[m][d] \in Int
             /\ last'[m][d] = IF m = n /\ d = c THEN now ELSE last[m][d]
  BY <1>1, <1>2
<1>6. ZoneOK'
  <2>2. ASSUME NEW m \in Names
        PROVE  /\ last'[m][zone'[m]] = now'
               /\ \A d \in Contents : last'[m][d] <= now'
    <3>1. zone'[m] \in Contents /\ zone'[m] = IF m = n THEN c ELSE zone[m]
      BY <1>1, <1>2
    <3>2. last[m][zone[m]] = now /\ \A d \in Contents : last[m][d] <= now
      BY DEF IInv, ZoneOK
    <3>3. \A d \in Contents : last'[m][d] <= now' BY <1>1, <1>2, <1>5, <3>2
    <3>. QED BY <1>2, <1>5, <3>1, <3>2, <3>3
  <2>. QED BY <2>2 DEF ZoneOK
<1>7. \A m \in Names : \A d \in Contents : last'[m][d] >= last[m][d]
  <2>. SUFFICES ASSUME NEW m \in Names, NEW d \in Contents
                PROVE  last'[m][d] >= last[m][d]
    OBVIOUS
  <2>1. last[m][d] \in Int /\ last[m][d] <= now BY <1>1 DEF IInv, ZoneOK
  <2>. QED BY <1>1, <1>5, <2>1
<1>. QED BY <1>2, <1>3, <1>4, <1>6, <1>7, TimeStep

\* What time has expired is dropped from the cache.
LEMMA FlushStep == IInv /\ FlushCache => IInv'
<1>. SUFFICES ASSUME IInv, FlushCache PROVE IInv'
  OBVIOUS
<1>1. /\ UNCHANGED <<now, zone, last, h, out>>
      /\ cache' = [n \in Names |-> IF Live(cache[n], now) THEN cache[n] ELSE NoEntry]
  BY DEF FlushCache
<1>2. cache \in [Names -> Entries] /\ \A n \in Names : EntryOK(n, cache[n])
  BY DEF IInv, TypeOK
<1>3. cache' \in [Names -> Entries] BY <1>1, <1>2, NoEntryType
<1>4. TypeOK' BY <1>1, <1>3 DEF IInv, TypeOK
<1>5. ZoneOK' BY <1>1 DEF IInv, ZoneOK
<1>6. ASSUME NEW n \in Names PROVE EntryOK(n, cache[n])'
  <2>1. PICK e : e = cache'[n] OBVIOUS
  <2>2. EntryOK(n, e) BY <1>1, <1>2, <2>1, NoEntryType
  <2>3. EntryOK(n, e)' BY <1>1, <2>2 DEF EntryOK
  <2>. QED BY <2>1, <2>3
<1>7. ASSUME NEW x \in Handles
      PROVE  LookupOK(h[x])' /\ RepliesOK(h[x], out[x])'
  BY <1>1 DEF IInv, LookupOK, PlaceOK, Fresh, ResultOK, Honoured, Concluded, Done,
              Target, EntryOK, RepliesOK, ReplyOK
<1>. QED BY <1>4, <1>5, <1>6, <1>7 DEF IInv

\* The key of a signature is asked for.
LEMMA GetKeyStep ==
    ASSUME IInv, NEW x \in Handles, NEW n \in KeyNames, NEW s \in Sources, GetKey(x, n, s)
    PROVE  IInv'
<1>1. /\ s # "callback" /\ UNCHANGED <<now, zone, last, cache, out>>
      /\ h' = [h EXCEPT ![x] = Queried([Idle EXCEPT !.op = "key", !.name = n,
                                                    !.asked = n, !.src = s])]
  BY DEF GetKey
<1>. DEFINE r == [Idle EXCEPT !.op = "key", !.name = n, !.asked = n, !.src = s]
<1>2. /\ r \in Lookups /\ r.pres = "none" /\ r.pol = "NONE" /\ r.ent = NoEntry
      /\ r.checks = 0 /\ r.op = "key" /\ r.src = s /\ r.name = n /\ r.asked = n
      /\ r.st = "none"
  <2>1. Idle \in Lookups BY Found, IdleOK
  <2>3. /\ Idle.pres = "none" /\ Idle.pol = "NONE" /\ Idle.ent = NoEntry
        /\ Idle.checks = 0 /\ Idle.st = "none"
    BY DEF Idle
  <2>2. n \in Names /\ s \in {"dns", "file", "callback"}
    BY LookupAssumption DEF Names
  <2>. QED BY <2>1, <2>2, <2>3 DEF Lookups
<1>. HIDE DEF r
<1>3. /\ Queried(r) \in Lookups /\ LookupOK(Queried(r))
      /\ Queried(r).pc \in {"get", "other"}
  BY <1>1, <1>2, Found, NoEntryType, QueriedOK
<1>. QED BY <1>1, <1>3, AloneStep DEF r

\* A policy is asked for.
LEMMA PolicyStep ==
    ASSUME IInv, NEW x \in Handles, NEW s \in Sources, NEW keep \in BOOLEAN,
           Policy(x, s, keep)
    PROVE  IInv'
<1>1. /\ UNCHANGED <<now, zone, last, cache, out>>
      /\ h' = [h EXCEPT ![x] = Queried([Idle EXCEPT !.op = "ex", !.name = Domain,
                                                    !.src = s, !.keep = keep])]
  BY DEF Policy
<1>. DEFINE r == [Idle EXCEPT !.op = "ex", !.name = Domain, !.src = s, !.keep = keep]
<1>2. /\ r \in Lookups /\ r.pres = "none" /\ r.pol = "NONE" /\ r.ent = NoEntry
      /\ r.checks = 0 /\ r.op = "ex" /\ r.src = s /\ r.name = Domain
  <2>1. Idle \in Lookups BY Found, IdleOK
  <2>3. /\ Idle.pres = "none" /\ Idle.pol = "NONE" /\ Idle.ent = NoEntry
        /\ Idle.checks = 0 /\ Idle.st = "none"
    BY DEF Idle
  <2>2. Domain \in Names /\ s \in {"dns", "file", "callback"}
    BY LookupAssumption DEF Names
  <2>. QED BY <2>1, <2>2, <2>3 DEF Lookups
<1>. HIDE DEF r
<1>3. /\ Queried(r) \in Lookups /\ LookupOK(Queried(r))
      /\ Queried(r).pc \in {"get", "other"}
  BY <1>1, <1>2, Found, NoEntryType, QueriedOK
<1>. QED BY <1>1, <1>3, AloneStep DEF r

\* A policy is asked for again.
LEMMA PolicyAgainStep ==
    ASSUME IInv, NEW x \in Handles, PolicyAgain(x)
    PROVE  IInv'
<1>1. /\ h[x].pc = "done" /\ h[x].st = "CBTRYAGAIN"
      /\ UNCHANGED <<now, zone, last, cache, out>>
      /\ h' = [h EXCEPT ![x] = Queried([h[x] EXCEPT !.st = "none", !.pres = "none"])]
  BY DEF PolicyAgain
<1>2. h[x] \in Lookups /\ PlaceOK(h[x]) /\ ResultOK(h[x]) /\ now \in Nat
  BY Found
<1>. DEFINE r == [h[x] EXCEPT !.st = "none", !.pres = "none"]
<1>3. /\ r \in Lookups /\ r.pres = "none" /\ r.pol = h[x].pol /\ r.ent = h[x].ent
      /\ r.checks = h[x].checks /\ r.op = h[x].op /\ r.name = h[x].name
  <2>1. "none" \in Statuses BY DEF Statuses
  <2>2. PICK q \in Lookups : q = h[x] BY <1>2
  <2>. DEFINE t == [q EXCEPT !.st = "none"]
  <2>3. /\ t \in Lookups /\ t.pol = q.pol /\ t.ent = q.ent
        /\ t.checks = q.checks /\ t.op = q.op /\ t.name = q.name
    BY <2>1 DEF Lookups
  <2>4. r = [t EXCEPT !.pres = "none"] BY <2>2
  <2>. HIDE DEF r, t
  <2>. QED BY <2>2, <2>3, <2>4 DEF Lookups
<1>. HIDE DEF r
<1>4. h[x].op # "key" /\ EntryOK(h[x].name, h[x].ent)
  BY <1>1, <1>2 DEF PlaceOK
<1>5. /\ h[x].op = "ex" => h[x].name = Domain
      /\ h[x].op = "pol" => h[x].name = PolicyName
  BY <1>2 DEF PlaceOK
<1>6. /\ h[x].pol = "NONE" /\ h[x].checks <= 1
      /\ h[x].op = "ex" => h[x].checks = 0
  BY <1>1, <1>2 DEF ResultOK, Done
<1>7. /\ Queried(r) \in Lookups /\ LookupOK(Queried(r))
      /\ Queried(r).pc \in {"get", "other"}
  BY <1>2, <1>3, <1>4, <1>5, <1>6, QueriedOK
<1>. QED BY <1>1, <1>7, AloneStep DEF r

\* A handle is given up.
LEMMA DiscardStep ==
    ASSUME IInv, NEW x \in Handles, Discard(x)
    PROVE  IInv'
<1>1. h' = [h EXCEPT ![x] = Idle] /\ UNCHANGED <<now, zone, last, cache, out>>
  BY DEF Discard
<1>2. Idle \in Lookups /\ LookupOK(Idle) /\ Idle.pc # "wait"
  BY Found, IdleOK DEF Idle
<1>. QED BY <1>1, <1>2, AloneStep

\* A lookup that goes on from one place to the next, with the entry it read.
LEMMA MovedOK ==
    ASSUME NEW r \in Lookups, LookupOK(r), r.src = "dns",
           r.pc \in {"get", "judge", "ask"},
           NEW place \in {"judge", "ask", "wait"},
           NEW e \in Entries, EntryOK(r.name, e),
           NEW t, t = [r EXCEPT !.pc = place, !.ent = e]
    PROVE  t \in Lookups /\ LookupOK(t) /\ t.pc = place
<1>1. /\ t \in Lookups
      /\ t.pc = place /\ t.st = r.st /\ t.ent = e
      /\ t.op = r.op /\ t.name = r.name /\ t.src = r.src /\ t.asked = r.asked
      /\ t.tq = r.tq /\ t.val = r.val /\ t.pol = r.pol /\ t.pres = r.pres
      /\ t.hit = r.hit /\ t.guess = r.guess /\ t.lag = r.lag
      /\ t.checks = r.checks
  BY DEF Lookups
<1>2. PlaceOK(t) BY <1>1 DEF LookupOK, PlaceOK
<1>3. Fresh(t) BY <1>1 DEF Fresh
<1>4. ResultOK(t) BY <1>1 DEF LookupOK, ResultOK, Done, Concluded, Honoured
<1>. QED BY <1>1, <1>2, <1>3, <1>4 DEF LookupOK

\* The cache is read.
LEMMA CacheGetStep ==
    ASSUME IInv, NEW x \in Handles, CacheGet(x)
    PROVE  IInv'
<1>1. /\ h[x].pc = "get" /\ UNCHANGED <<now, zone, last, cache, out>>
      /\ \E e \in {NoEntry, cache[h[x].name]} :
            h' = [h EXCEPT ![x].pc = "judge", ![x].ent = e]
  BY DEF CacheGet
<1>2. PICK e \in {NoEntry, cache[h[x].name]} :
        h' = [h EXCEPT ![x].pc = "judge", ![x].ent = e]
  BY <1>1
<1>3. PICK r \in Lookups : r = h[x] BY Found
<1>. DEFINE t == [r EXCEPT !.pc = "judge", !.ent = e]
<1>4. h' = [h EXCEPT ![x] = t]
  <2>1. h \in [Handles -> Lookups] BY DEF IInv, TypeOK
  <2>. QED BY <1>2, <1>3, <2>1
<1>5. e \in Entries /\ EntryOK(r.name, e) /\ LookupOK(r) /\ r.src = "dns"
      /\ r.pc = "get"
  <2>1. r.name \in Names BY DEF Lookups
  <2>2. cache \in [Names -> Entries] /\ \A n \in Names : EntryOK(n, cache[n])
    BY Found
  <2>3. LookupOK(r) /\ r.pc = "get" BY <1>1, <1>3, Found
  <2>. QED BY <1>3, <2>1, <2>2, <2>3, NoEntryType DEF LookupOK, PlaceOK
<1>. HIDE DEF t
<1>6. t \in Lookups /\ LookupOK(t) /\ t.pc = "judge" BY <1>5, MovedOK DEF t
<1>. QED BY <1>1, <1>4, <1>6, AloneStep

\* What the cache holds is used while it lives.
LEMMA FromCacheOK ==
    ASSUME now \in Nat, last \in [Names -> [Contents -> Int]],
           NEW r \in Lookups, LookupOK(r), r.pc = "judge", Live(r.ent, r.tq)
    PROVE  /\ FromCache(r) \in Lookups /\ LookupOK(FromCache(r))
           /\ FromCache(r).pc \in {"get", "other", "done"}
<1>. USE LookupAssumption
<1>. DEFINE s == [r EXCEPT !.hit = TRUE, !.val = r.ent.data, !.lag = r.ent.lag]
<1>1. /\ r.ent \in Entries /\ r.ent.data \in Data \cup {"nothing"}
      /\ r.ent.lag \in Nat /\ r.ent.when \in Nat /\ r.tq \in Nat
  BY DEF Lookups, Entries
<1>2. /\ s \in Lookups
      /\ s.pc = r.pc /\ s.st = r.st /\ s.ent = r.ent
      /\ s.op = r.op /\ s.name = r.name /\ s.src = r.src /\ s.asked = r.asked
      /\ s.tq = r.tq /\ s.val = r.ent.data /\ s.pol = r.pol /\ s.pres = r.pres
      /\ s.hit = TRUE /\ s.guess = r.guess /\ s.lag = r.ent.lag
      /\ s.checks = r.checks
  BY <1>1 DEF Lookups
<1>3. FromCache(r) = IF r.op = "key" THEN Returned(s, "OK")
                     ELSE PolicyResult(s, "absent", "NOERROR", r.ent.data)
  BY DEF FromCache
<1>. HIDE DEF s
<1>4. PlaceOK(s) BY <1>2 DEF LookupOK, PlaceOK
<1>5. ResultOK(s) BY <1>2 DEF LookupOK, ResultOK, Done, Concluded, Honoured
<1>6. CASE r.op = "key"
  <2>1. /\ r.ent.data \in Data /\ r.ent.ttl = Ttl[r.ent.data]
        /\ r.ent.when + r.ent.ttl >= r.tq /\ r.ent.lag <= r.ent.when
        /\ Label(r.name) = r.name
        /\ last[r.name][r.ent.data] >= r.ent.when - r.ent.lag
    BY DEF LookupOK, PlaceOK, EntryOK, Live
  <2>2. r.name = r.asked /\ r.asked \in KeyNames /\ r.src = "dns"
    BY <1>6 DEF LookupOK, PlaceOK
  <2>3. Target(s) = r.name BY <1>2, <2>1, <2>2 DEF Target, Label
  <2>4. last[r.name][r.ent.data] \in Int /\ Ttl[r.ent.data] \in Nat
    BY <2>1, <2>2 DEF Contents, Names
  <2>5. /\ last[r.name][r.ent.data] >= 0
        /\ r.tq <= last[r.name][r.ent.data] + Ttl[r.ent.data] + r.ent.lag
    BY <1>1, <2>1, <2>4
  <2>6. Returned(s, "OK") \in Lookups /\ LookupOK(Returned(s, "OK"))
    BY <1>2, <1>4, <1>5, <1>6, <2>1, <2>3, <2>5, KeyReturnedOK
  <2>7. Returned(s, "OK").pc = "done" BY <1>2 DEF Returned, Lookups
  <2>. QED BY <1>3, <1>6, <2>6, <2>7
<1>7. CASE r.op # "key"
  <2>1. PolicyTrue(s, "absent", "NOERROR", r.ent.data) BY <1>2 DEF PolicyTrue
  <2>2. "absent" \in {"found", "absent", "failed"} /\ "NOERROR" \in RCodes
    BY DEF RCodes
  <2>3. s.pc \notin {"idle", "done"} BY <1>2
  <2>. QED BY <1>2, <1>3, <1>4, <1>5, <1>7, <2>1, <2>2, <2>3, PolicyResultOK
<1>. QED BY <1>6, <1>7

\* The entry is judged.
LEMMA CacheJudgeStep ==
    ASSUME IInv, NEW x \in Handles, CacheJudge(x)
    PROVE  IInv'
<1>1. PICK r \in Lookups : r = h[x] BY Found
<1>2. /\ r.pc = "judge" /\ UNCHANGED <<now, zone, last, cache, out>>
      /\ h' = [h EXCEPT ![x] = IF Live(r.ent, r.tq) THEN FromCache(r)
                               ELSE [r EXCEPT !.pc = "ask", !.ent = NoEntry]]
  <2>1. h \in [Handles -> Lookups] BY DEF IInv, TypeOK
  <2>. QED BY <1>1, <2>1 DEF CacheJudge
<1>3. LookupOK(r) /\ now \in Nat /\ last \in [Names -> [Contents -> Int]]
  BY <1>1, Found
<1>4. CASE Live(r.ent, r.tq)
  <2>1. /\ FromCache(r) \in Lookups /\ LookupOK(FromCache(r))
        /\ FromCache(r).pc \in {"get", "other", "done"}
    BY <1>2, <1>3, <1>4, FromCacheOK
  <2>. QED BY <1>2, <1>4, <2>1, AloneStep
<1>5. CASE ~Live(r.ent, r.tq)
  <2>. DEFINE t == [r EXCEPT !.pc = "ask", !.ent = NoEntry]
  <2>1. r.src = "dns" BY <1>2, <1>3 DEF LookupOK, PlaceOK
  <2>2. h' = [h EXCEPT ![x] = t] BY <1>2, <1>5
  <2>. HIDE DEF t
  <2>3. t \in Lookups /\ LookupOK(t) /\ t.pc = "ask"
    BY <1>2, <1>3, <2>1, NoEntryType, MovedOK DEF t
  <2>. QED BY <1>2, <2>2, <2>3, AloneStep
<1>. QED BY <1>4, <1>5

\* The queries are handed to the resolver.
LEMMA AskStep ==
    ASSUME IInv, NEW x \in Handles, Ask(x)
    PROVE  IInv'
<1>1. PICK r \in Lookups : r = h[x] BY Found
<1>. DEFINE types == IF r.op = "ex" THEN ExTypes ELSE {"TXT"}
            o == [ty \in types |-> Pending]
            t == [r EXCEPT !.pc = "wait", !.ent = r.ent]
<1>2. /\ r.pc = "ask" /\ UNCHANGED <<now, zone, last, cache>>
      /\ out' = [out EXCEPT ![x] = o]
  BY <1>1 DEF Ask
<1>3. h' = [h EXCEPT ![x] = t]
  <2>1. h \in [Handles -> Lookups] BY DEF IInv, TypeOK
  <2>2. t = [r EXCEPT !.pc = "wait"] BY DEF Lookups
  <2>. QED BY <1>1, <2>1, <2>2 DEF Ask
<1>4. LookupOK(r) /\ r.src = "dns" /\ EntryOK(r.name, r.ent) /\ r.ent \in Entries
  BY <1>1, <1>2, Found DEF LookupOK, PlaceOK, Lookups
<1>5. t.op = r.op BY DEF Lookups
<1>. HIDE DEF t
<1>6. t \in Lookups /\ LookupOK(t) /\ t.pc = "wait"
  <2>1. PICK e \in Entries : e = r.ent BY <1>4
  <2>2. t = [r EXCEPT !.pc = "wait", !.ent = e] BY <2>1 DEF t
  <2>3. EntryOK(r.name, e) BY <1>4, <2>1
  <2>4. r.pc \in {"get", "judge", "ask"} BY <1>2
  <2>. QED BY <1>4, <2>2, <2>3, <2>4, MovedOK
<1>7. RepliesOK(t, o)
  <2>1. \A ty \in types : o[ty] = Pending OBVIOUS
  <2>2. DOMAIN o = types OBVIOUS
  <2>3. Pending.is = "pending" /\ "pending" \notin Contents
    BY LookupAssumption DEF Pending, Contents
  <2>4. ReplyOK(t, Pending) BY <2>3 DEF ReplyOK
  <2>. HIDE DEF o
  <2>. QED BY <1>5, <2>1, <2>2, <2>4 DEF RepliesOK, types
<1>. HIDE DEF o
<1>8. /\ DOMAIN out' = Handles /\ out'[x] = o
      /\ \A y \in Handles : y # x => out'[y] = out[y]
  BY <1>2, Found
<1>9. cache' \in [Names -> Entries] /\ \A n \in Names : EntryOK(n, cache'[n])
  <2>1. cache' = cache BY <1>2
  <2>. QED BY <2>1, Found
<1>. QED BY <1>2, <1>3, <1>6, <1>7, <1>8, <1>9, HandleStep

\* The resolver does not take a query.
LEMMA AskFailsStep ==
    ASSUME IInv, NEW x \in Handles, AskFails(x)
    PROVE  IInv'
<1>1. PICK r \in Lookups : r = h[x] BY Found
<1>. DEFINE st == IF r.op = "key" THEN "INTERNAL" ELSE "CANTVRFY"
<1>2. h' = [h EXCEPT ![x] = Returned(r, st)]
  <2>1. h \in [Handles -> Lookups] BY DEF IInv, TypeOK
  <2>. QED BY <1>1, <2>1 DEF AskFails
<1>3. r.pc = "ask" /\ UNCHANGED <<now, zone, last, cache, out>>
  BY <1>1 DEF AskFails
<1>4. st \in Statuses \ {"OK"} /\ st # "CBTRYAGAIN" BY DEF Statuses
<1>5. Returned(r, st) \in Lookups /\ LookupOK(Returned(r, st))
  BY <1>1, <1>3, <1>4, Found, ReturnedOK
<1>6. Returned(r, st).pc = "done" BY DEF Returned, Lookups
<1>. QED BY <1>2, <1>3, <1>5, <1>6, AloneStep

\* An answer tells what is published.
LEMMA AnswerOK ==
    ASSUME IInv, NEW r \in Lookups, LookupOK(r)
    PROVE  ReplyOK(r, Answer(r.name)) /\ Answer(r.name).is \in Contents
<1>. USE LookupAssumption
<1>. DEFINE n == r.name
            a == Answer(n)
<1>1. /\ now \in Nat /\ zone \in [Names -> Contents]
      /\ last \in [Names -> [Contents -> Int]]
  BY DEF IInv, TypeOK
<1>2. Label(n) \in Names BY DEF Lookups, Label, Names
<1>3. Answer(n) = [Reply(Label(n), zone[Label(n)])
                     EXCEPT !.seen = IF n = Domain THEN 0 ELSE now]
  BY DEF Answer, Label
<1>4. /\ a.label = Label(n) /\ a.is = zone[Label(n)]
      /\ a.seen = IF n = Domain THEN 0 ELSE now
  BY <1>3 DEF Reply
<1>5. a.is \in Contents BY <1>1, <1>2, <1>4
<1>6. last[Label(n)][zone[Label(n)]] = now BY <1>2 DEF IInv, ZoneOK
<1>7. r.tq <= now /\ r.tq \in Nat BY DEF LookupOK, PlaceOK, Lookups
<1>8. "pending" \notin Contents BY DEF Contents
<1>. HIDE DEF a
<1>. QED BY <1>1, <1>4, <1>5, <1>6, <1>7, <1>8 DEF ReplyOK, a

\* A query is answered or given up.
LEMMA ResolveStep ==
    ASSUME IInv, NEW x \in Handles, Resolver(x)
    PROVE  IInv'
<1>. USE LookupAssumption
<1>1. PICK r \in Lookups : r = h[x] BY Found
<1>2. PICK ty \in DOMAIN out[x] : Resolve(x, ty) BY DEF Resolver
<1>3. /\ UNCHANGED <<now, zone, last, cache, h>>
      /\ \E a : /\ out' = [out EXCEPT ![x][ty] = a]
                /\ a = Answer(r.name) \/ \E f \in NotAnAnswer : a = Reply(r.name, f)
  BY <1>1, <1>2 DEF Resolve, NotAnAnswer
<1>4. PICK a : /\ out' = [out EXCEPT ![x][ty] = a]
               /\ a = Answer(r.name) \/ \E f \in NotAnAnswer : a = Reply(r.name, f)
  BY <1>3
<1>5. LookupOK(r) /\ RepliesOK(r, out[x]) /\ DOMAIN out = Handles
  BY <1>1, Found
<1>6. ReplyOK(r, a)
  <2>1. CASE a = Answer(r.name) BY <1>5, <2>1, AnswerOK
  <2>2. CASE \E f \in NotAnAnswer : a = Reply(r.name, f)
    <3>1. a.is \in NotAnAnswer BY <2>2 DEF Reply
    <3>. QED BY <3>1 DEF ReplyOK, NotAnAnswer, Contents
  <2>. QED BY <1>4, <2>1, <2>2
<1>7. /\ DOMAIN out' = Handles /\ \A y \in Handles : y # x => out'[y] = out[y]
      /\ out'[x] = [out[x] EXCEPT ![ty] = a]
  BY <1>4, <1>5
<1>8. RepliesOK(r, out'[x])
  <2>1. PICK o : o = out[x] OBVIOUS
  <2>2. /\ DOMAIN out'[x] = DOMAIN o
        /\ \A t \in DOMAIN o : out'[x][t] = IF t = ty THEN a ELSE o[t]
    BY <1>2, <1>7, <2>1
  <2>. QED BY <1>5, <1>6, <2>1, <2>2 DEF RepliesOK
<1>9. h' = [h EXCEPT ![x] = r]
  <2>1. h \in [Handles -> Lookups] BY DEF IInv, TypeOK
  <2>. QED BY <1>1, <1>3, <2>1
<1>10. cache' \in [Names -> Entries] /\ \A n \in Names : EntryOK(n, cache'[n])
  <2>1. cache' = cache BY <1>3
  <2>. QED BY <2>1, Found
<1>. QED BY <1>3, <1>5, <1>7, <1>8, <1>9, <1>10, HandleStep

\* The existence check tells of a missing domain what was true of it.
LEMMA CollectExcheckOK ==
    ASSUME IInv, NEW r \in Lookups, LookupOK(r), r.pc = "wait", r.op = "ex",
           NEW o, RepliesOK(r, o), \A ty \in DOMAIN o : o[ty] # Pending,
           NEW q \in ExcheckCodes(o), NEW t,
           t = [r EXCEPT !.guess = @ \/ \E ty \in ExTypes : o[ty].is \in Unwritten]
    PROVE  LET R == PolicyResult(t, "absent", q, "nothing")
           IN  R \in Lookups /\ LookupOK(R) /\ R.pc \in {"get", "other", "done"}
<1>. USE LookupAssumption
<1>1. /\ t \in Lookups
      /\ t.pc = r.pc /\ t.st = r.st /\ t.ent = r.ent
      /\ t.op = r.op /\ t.name = r.name /\ t.src = r.src /\ t.asked = r.asked
      /\ t.tq = r.tq /\ t.val = r.val /\ t.pol = r.pol /\ t.pres = r.pres
      /\ t.hit = r.hit /\ t.lag = r.lag /\ t.checks = r.checks
      /\ ~t.guess => \A ty \in ExTypes : o[ty].is \notin Unwritten
  <2>. DEFINE g == r.guess \/ \E ty \in ExTypes : o[ty].is \in Unwritten
  <2>1. g \in BOOLEAN BY DEF Lookups
  <2>2. t = [r EXCEPT !.guess = g] OBVIOUS
  <2>3. ~g => \A ty \in ExTypes : o[ty].is \notin Unwritten OBVIOUS
  <2>. HIDE DEF g
  <2>. QED BY <2>1, <2>2, <2>3 DEF Lookups
<1>2. PlaceOK(t) BY <1>1 DEF LookupOK, PlaceOK
<1>3. ResultOK(t) BY <1>1 DEF LookupOK, ResultOK, Done, Concluded, Honoured
<1>4. q \in RCodes BY DEF ExcheckCodes, RCodesOf, RCodes
<1>5. q = "NXDOMAIN" /\ ~t.guess => last[Domain]["nx"] >= t.tq
  <2>. SUFFICES ASSUME q = "NXDOMAIN", ~t.guess PROVE last[Domain]["nx"] >= t.tq
    OBVIOUS
  <2>1. q \in RCodesOf(o["MX"]) BY DEF ExcheckCodes
  <2>0. o["MX"].is \notin Unwritten BY <1>1
  <2>2. o["MX"].is \notin NotAnAnswer BY <2>0, <2>1 DEF RCodesOf, Unwritten
  <2>3. ReplyOK(r, o["MX"]) /\ o["MX"] # Pending BY DEF RepliesOK
  <2>4. o["MX"].is \in Contents BY <2>2, <2>3 DEF ReplyOK
  <2>5. o["MX"].is = "nx" BY <2>0, <2>1 DEF RCodesOf
  <2>6. o["MX"].label = Domain
    BY <2>3, <2>4 DEF ReplyOK, LookupOK, PlaceOK, Label
  <2>. QED BY <1>1, <2>3, <2>4, <2>5, <2>6 DEF ReplyOK
<1>6. PolicyTrue(t, "absent", q, "nothing") BY <1>1, <1>5 DEF PolicyTrue
<1>7. now \in Nat BY DEF IInv, TypeOK
<1>. QED BY <1>1, <1>2, <1>3, <1>4, <1>6, <1>7, PolicyResultOK

\* A lookup with a text to store.
ToPut(r, d, e, n) == [r EXCEPT !.pc = "put", !.val = d, !.ent = e, !.name = n]

\* What it leaves alone.
LEMMA PutFields ==
    ASSUME NEW r \in Lookups, NEW e \in Entries, NEW n \in Names, NEW d \in Data
    PROVE  LET t == ToPut(r, d, e, n) IN
           /\ t \in Lookups
           /\ t.pc = "put" /\ t.st = r.st /\ t.ent = e
           /\ t.op = r.op /\ t.name = n /\ t.src = r.src /\ t.asked = r.asked
           /\ t.tq = r.tq /\ t.val = d /\ t.pol = r.pol /\ t.pres = r.pres
           /\ t.hit = r.hit /\ t.guess = r.guess /\ t.lag = r.lag
           /\ t.checks = r.checks
BY DEF Lookups, ToPut

\* A reply that is one text is about to be stored, with its time to live.
LEMMA CollectTextOK ==
    ASSUME IInv, NEW r \in Lookups, LookupOK(r), r.pc = "wait", r.op # "ex",
           NEW a, ReplyOK(r, a), a.is \in Data, NEW e,
           e = [when |-> now, ttl |-> Ttl[a.is], data |-> a.is, lag |-> now - a.seen]
    PROVE  LET t == ToPut(r, a.is, e, a.label)
           IN  t \in Lookups /\ LookupOK(t) /\ t.pc = "put"
<1>. USE LookupAssumption
<1>1. a.is \in Contents BY DEF Contents
<1>2. /\ a.label = Label(r.name) /\ a.seen \in Nat /\ a.seen <= now /\ now \in Nat
      /\ last[a.label][a.is] >= a.seen /\ last[a.label][a.is] >= r.tq
  BY <1>1 DEF ReplyOK, IInv, TypeOK
<1>. DEFINE t == ToPut(r, a.is, e, a.label)
<1>3. a.label \in Names BY <1>2 DEF Lookups, Label, Names
<1>4. e \in Entries
  <2>1. now - a.seen \in Nat /\ Ttl[a.is] \in Nat BY <1>2
  <2>. QED BY <1>2, <2>1 DEF Entries
<1>5. EntryOK(a.label, e)
  <2>1. Label(a.label) = a.label BY <1>2 DEF Label, Lookups
  <2>2. e.when = now /\ e.lag = now - a.seen /\ e.data = a.is /\ e.ttl = Ttl[a.is]
    OBVIOUS
  <2>3. now - (now - a.seen) = a.seen /\ now - a.seen <= now BY <1>2
  <2>. QED BY <1>2, <2>1, <2>2, <2>3 DEF EntryOK
<1>7. /\ t \in Lookups
      /\ t.pc = "put" /\ t.st = r.st /\ t.ent = e
      /\ t.op = r.op /\ t.name = a.label /\ t.src = r.src /\ t.asked = r.asked
      /\ t.tq = r.tq /\ t.val = a.is /\ t.pol = r.pol /\ t.pres = r.pres
      /\ t.hit = r.hit /\ t.guess = r.guess /\ t.lag = r.lag
      /\ t.checks = r.checks
  BY <1>3, <1>4, PutFields
<1>. HIDE DEF t
<1>8. PlaceOK(t)
  <2>1. r.op = "pol" => a.label = PolicyName
    BY <1>2 DEF LookupOK, PlaceOK, Label
  <2>2. r.op = "key" => a.label = AliasOf[r.asked]
    BY <1>2 DEF LookupOK, PlaceOK, Label
  <2>. QED BY <1>2, <1>5, <1>7, <2>1, <2>2 DEF LookupOK, PlaceOK
<1>9. Fresh(t) BY <1>7 DEF Fresh
<1>10. ResultOK(t) BY <1>7 DEF LookupOK, ResultOK, Done, Concluded, Honoured
<1>. QED BY <1>7, <1>8, <1>9, <1>10 DEF LookupOK, t

\* A reply that is no text decides the lookup.
LEMMA CollectOtherOK ==
    ASSUME IInv, NEW r \in Lookups, LookupOK(r), r.pc = "wait", r.op # "ex",
           NEW a, ReplyOK(r, a), a # Pending, a.is \notin Data, NEW R,
           R = IF r.op = "key" THEN Returned(r, KeyStatus(a.is)) ELSE PolicyStatus(r, a.is)
    PROVE  R \in Lookups /\ LookupOK(R) /\ R.pc \in {"get", "other", "done"}
<1>. USE LookupAssumption
<1>1. a.is \in {"nx", "none", "multi"} \cup NotAnAnswer
  BY DEF ReplyOK, Contents
<1>2. now \in Nat /\ PlaceOK(r) /\ ResultOK(r) BY DEF IInv, TypeOK, LookupOK
<1>3. CASE r.op = "key"
  <2>1. KeyStatus(a.is) \in {"KEYFAIL", "SYNTAX", "NOKEY", "MULTIDNSREPLY"}
    BY <1>1 DEF KeyStatus, NotAnAnswer
  <2>2. KeyStatus(a.is) \in Statuses \ {"OK"} /\ KeyStatus(a.is) # "CBTRYAGAIN"
    BY <2>1 DEF Statuses
  <2>3. R = Returned(r, KeyStatus(a.is)) BY <1>3
  <2>4. R.pc = "done" BY <2>3 DEF Returned, Lookups
  <2>. QED BY <1>2, <2>2, <2>3, <2>4, ReturnedOK
<1>4. CASE r.op = "pol"
  <2>1. PICK outcome \in {"absent", "failed"}, q \in RCodes :
          /\ PolicyStatus(r, a.is) = PolicyResult(r, outcome, q, "nothing")
          /\ outcome = "absent" /\ q = "NOERROR" => a.is \in {"none", "multi"}
    BY <1>1 DEF PolicyStatus, NotAnAnswer, RCodes
  <2>2. ASSUME a.is \in {"none", "multi"}
        PROVE  /\ a.is \in Contents \ (Data \ Junk)
               /\ last[PolicyName][a.is] >= r.tq
    <3>1. a.is \in Contents BY <2>2 DEF Contents
    <3>2. a.label = PolicyName BY <1>2, <1>4, <3>1 DEF ReplyOK, PlaceOK, Label
    <3>. QED BY <3>1, <3>2 DEF ReplyOK
  <2>3. PolicyTrue(r, outcome, q, "nothing")
    BY <1>4, <2>1, <2>2 DEF PolicyTrue
  <2>4. R = PolicyResult(r, outcome, q, "nothing") BY <1>4, <2>1
  <2>. QED BY <1>2, <1>4, <2>3, <2>4, PolicyResultOK
<1>. QED BY <1>3, <1>4 DEF Lookups

\* The replies are read.
LEMMA CollectStep ==
    ASSUME IInv, NEW x \in Handles, Collect(x)
    PROVE  IInv'
<1>. USE LookupAssumption
<1>1. PICK r \in Lookups : r = h[x] BY Found
<1>2. PICK o : o = out[x] OBVIOUS
<1>3. /\ r.pc = "wait" /\ \A ty \in DOMAIN o : o[ty] # Pending
      /\ UNCHANGED <<now, zone, last, cache>> /\ out' = [out EXCEPT ![x] = NoQueries]
  BY <1>1, <1>2 DEF Collect
<1>4. LookupOK(r) /\ RepliesOK(r, o) BY <1>1, <1>2, Found
<1>5. ASSUME NEW R \in Lookups, LookupOK(R), R.pc # "wait", h' = [h EXCEPT ![x] = R]
      PROVE  IInv'
  <2>1. RepliesOK(R, out'[x]) BY <1>5 DEF RepliesOK
  <2>2. DOMAIN out' = Handles /\ \A y \in Handles : y # x => out'[y] = out[y]
    BY <1>3, Found
  <2>3. cache' \in [Names -> Entries] /\ \A n \in Names : EntryOK(n, cache'[n])
    <3>1. cache' = cache BY <1>3
    <3>. QED BY <3>1, Found
  <2>. QED BY <1>3, <1>5, <2>1, <2>2, <2>3, HandleStep
<1>6. CASE r.op = "ex"
  <2>1. PICK q \in ExcheckCodes(o) :
          h' = [h EXCEPT ![x] =
                  PolicyResult([r EXCEPT !.guess =
                                  @ \/ \E ty \in ExTypes : o[ty].is \in Unwritten],
                               "absent", q, "nothing")]
    <3>. DEFINE G(q) == PolicyResult([h[x] EXCEPT !.guess =
                            @ \/ \E ty \in ExTypes : out[x][ty].is \in Unwritten],
                          "absent", q, "nothing")
    <3>1. \E R \in {G(q) : q \in ExcheckCodes(out[x])} : h' = [h EXCEPT ![x] = R]
      BY <1>1, <1>6 DEF Collect
    <3>2. \E q \in ExcheckCodes(out[x]) : h' = [h EXCEPT ![x] = G(q)]
      <4>. HIDE DEF G
      <4>. QED BY <3>1
    <3>. QED BY <1>1, <1>2, <3>2
  <2>2. PICK t : t = [r EXCEPT !.guess =
                        @ \/ \E ty \in ExTypes : o[ty].is \in Unwritten]
    OBVIOUS
  <2>. DEFINE R == PolicyResult(t, "absent", q, "nothing")
  <2>3. R \in Lookups /\ LookupOK(R) /\ R.pc \in {"get", "other", "done"}
    BY <1>3, <1>4, <1>6, <2>2, CollectExcheckOK
  <2>4. h' = [h EXCEPT ![x] = R] BY <2>1, <2>2
  <2>. HIDE DEF R
  <2>. QED BY <1>5, <2>3, <2>4
<1>7. CASE r.op # "ex"
  <2>1. PICK a : a = o["TXT"] OBVIOUS
  <2>2. ReplyOK(r, a) /\ a # Pending
    BY <1>3, <1>4, <1>7, <2>1 DEF RepliesOK
  <2>3. CASE a.is \in Data
    <3>1. PICK e : e = [when |-> now, ttl |-> Ttl[a.is], data |-> a.is,
                        lag |-> now - a.seen]
      OBVIOUS
    <3>. DEFINE R == ToPut(r, a.is, e, a.label)
    <3>2. h' = [h EXCEPT ![x] = R]
      BY <1>1, <1>2, <1>7, <2>1, <2>3, <3>1 DEF Collect, ToPut
    <3>3. R \in Lookups /\ LookupOK(R) /\ R.pc = "put"
      BY <1>3, <1>4, <1>7, <2>2, <2>3, <3>1, CollectTextOK
    <3>. HIDE DEF R
    <3>. QED BY <1>5, <3>2, <3>3
  <2>4. CASE a.is \notin Data
    <3>. DEFINE R == IF r.op = "key" THEN Returned(r, KeyStatus(a.is))
                     ELSE PolicyStatus(r, a.is)
    <3>1. h' = [h EXCEPT ![x] = R]
      BY <1>1, <1>2, <1>7, <2>1, <2>4 DEF Collect
    <3>2. R \in Lookups /\ LookupOK(R) /\ R.pc \in {"get", "other", "done"}
      BY <1>3, <1>4, <1>7, <2>2, <2>4, CollectOtherOK
    <3>. HIDE DEF R
    <3>. QED BY <1>5, <3>1, <3>2
  <2>. QED BY <2>3, <2>4
<1>. QED BY <1>6, <1>7

\* The reply is stored and used.
LEMMA PutStep ==
    ASSUME IInv, NEW x \in Handles, Put(x)
    PROVE  IInv'
<1>. USE LookupAssumption
<1>1. PICK r \in Lookups : r = h[x] BY Found
<1>2. /\ r.pc = "put" /\ UNCHANGED <<now, zone, last, out>>
      /\ cache' = [cache EXCEPT ![r.name] = r.ent]
      /\ h' = [h EXCEPT ![x] = IF r.op = "key" THEN Returned(r, "OK")
                               ELSE PolicyResult(r, "found", "NOERROR", r.val)]
  <2>1. h \in [Handles -> Lookups] BY DEF IInv, TypeOK
  <2>. QED BY <1>1, <2>1 DEF Put
<1>3. /\ LookupOK(r) /\ PlaceOK(r) /\ ResultOK(r) /\ now \in Nat
      /\ last \in [Names -> [Contents -> Int]]
      /\ cache \in [Names -> Entries] /\ \A n \in Names : EntryOK(n, cache[n])
      /\ DOMAIN out = Handles
  BY <1>1, Found
<1>4. r.name \in Names /\ r.ent \in Entries /\ r.tq \in Nat /\ r.lag \in Nat
  BY DEF Lookups
<1>5. EntryOK(r.name, r.ent) /\ r.val \in Data /\ last[r.name][r.val] >= r.tq
      /\ r.src = "dns"
  BY <1>2, <1>3 DEF PlaceOK
<1>6. cache' \in [Names -> Entries] /\ \A n \in Names : EntryOK(n, cache'[n])
  <2>1. cache' \in [Names -> Entries] BY <1>2, <1>3, <1>4
  <2>2. \A n \in Names : cache'[n] = IF n = r.name THEN r.ent ELSE cache[n]
    BY <1>2, <1>3, <1>4
  <2>. QED BY <1>3, <1>5, <2>1, <2>2
<1>7. ASSUME NEW R \in Lookups, LookupOK(R), R.pc # "wait", h' = [h EXCEPT ![x] = R]
      PROVE  IInv'
  <2>1. RepliesOK(R, out'[x]) BY <1>7 DEF RepliesOK
  <2>2. DOMAIN out' = Handles /\ \A y \in Handles : y # x => out'[y] = out[y]
    BY <1>2, <1>3
  <2>. QED BY <1>2, <1>6, <1>7, <2>1, <2>2, HandleStep
<1>8. CASE r.op = "key"
  <2>1. Target(r) = r.name BY <1>2, <1>3, <1>5, <1>8 DEF PlaceOK, Target
  <2>2. last[r.name][r.val] \in Int /\ Ttl[r.val] \in Nat
    BY <1>3, <1>4, <1>5 DEF Contents
  <2>3. /\ last[Target(r)][r.val] >= 0
        /\ r.tq <= last[Target(r)][r.val] + Ttl[r.val] + r.lag
    BY <1>4, <1>5, <2>1, <2>2
  <2>4. Returned(r, "OK") \in Lookups /\ LookupOK(Returned(r, "OK"))
    BY <1>2, <1>3, <1>5, <1>8, <2>3, KeyReturnedOK
  <2>5. Returned(r, "OK").pc = "done" BY DEF Returned, Lookups
  <2>6. h' = [h EXCEPT ![x] = Returned(r, "OK")] BY <1>2, <1>8
  <2>. QED BY <1>7, <2>4, <2>5, <2>6
<1>9. CASE r.op # "key"
  <2>. DEFINE R == PolicyResult(r, "found", "NOERROR", r.val)
  <2>1. PolicyTrue(r, "found", "NOERROR", r.val)
    BY <1>2, <1>3, <1>5 DEF PolicyTrue, PlaceOK
  <2>2. "found" \in {"found", "absent", "failed"} /\ "NOERROR" \in RCodes
    BY DEF RCodes
  <2>3. R \in Lookups /\ LookupOK(R) /\ R.pc \in {"get", "other", "done"}
    BY <1>2, <1>3, <1>9, <2>1, <2>2, PolicyResultOK
  <2>4. h' = [h EXCEPT ![x] = R] BY <1>2, <1>9
  <2>. HIDE DEF R
  <2>. QED BY <1>7, <2>3, <2>4
<1>. QED BY <1>8, <1>9

\* A key or a policy is read from a file.
LEMMA FileStep ==
    ASSUME IInv, NEW x \in Handles, FileLookup(x)
    PROVE  IInv'
<1>. USE LookupAssumption
<1>1. PICK r \in Lookups : r = h[x] BY Found
<1>2. /\ r.pc = "other" /\ r.src = "file" /\ UNCHANGED <<now, zone, last, cache, out>>
  BY <1>1 DEF FileLookup
<1>3. /\ LookupOK(r) /\ PlaceOK(r) /\ ResultOK(r) /\ now \in Nat
      /\ zone \in [Names -> Contents] /\ last \in [Names -> [Contents -> Int]]
  BY <1>1, Found
<1>4. /\ r.name \in Names /\ zone[r.name] \in Contents /\ r.tq \in Nat
      /\ r.lag \in Nat /\ r.tq <= now
  BY <1>3 DEF Lookups, PlaceOK
<1>5. last[r.name][zone[r.name]] = now BY <1>4 DEF IInv, ZoneOK
<1>. DEFINE found == zone[r.name] \in Data
<1>6. \/ \E st \in {"KEYFAIL", "CANTVRFY"} : h' = [h EXCEPT ![x] = Returned(r, st)]
      \/ /\ r.op = "key"
         /\ h' = [h EXCEPT ![x] = IF found THEN Returned([r EXCEPT !.val = zone[r.name]], "OK")
                                  ELSE Returned(r, "NOKEY")]
      \/ /\ r.op # "key"
         /\ h' = [h EXCEPT ![x] =
               IF found THEN PolicyResult(r, "found", "NOERROR", zone[r.name])
               ELSE PolicyResult(r, "absent", "NXDOMAIN", "nothing")]
  BY <1>1 DEF FileLookup
<1>7. ASSUME NEW st \in {"KEYFAIL", "CANTVRFY", "NOKEY"}, h' = [h EXCEPT ![x] = Returned(r, st)]
      PROVE  IInv'
  <2>1. st \in Statuses \ {"OK"} /\ st # "CBTRYAGAIN" BY DEF Statuses
  <2>2. Returned(r, st) \in Lookups /\ LookupOK(Returned(r, st))
    BY <1>2, <1>3, <2>1, ReturnedOK
  <2>3. Returned(r, st).pc = "done" BY DEF Returned, Lookups
  <2>. QED BY <1>2, <1>7, <2>2, <2>3, AloneStep
<1>8. ASSUME r.op = "key", found,
             h' = [h EXCEPT ![x] = Returned([r EXCEPT !.val = zone[r.name]], "OK")]
      PROVE  IInv'
  <2>1. PICK d \in Data : d = zone[r.name] BY <1>8
  <2>. DEFINE s == [r EXCEPT !.val = d]
  <2>2. h' = [h EXCEPT ![x] = Returned(s, "OK")] BY <1>8, <2>1
  <2>3. /\ s \in Lookups
        /\ s.pc = r.pc /\ s.st = r.st /\ s.ent = r.ent
        /\ s.op = r.op /\ s.name = r.name /\ s.src = r.src /\ s.asked = r.asked
        /\ s.tq = r.tq /\ s.val = d /\ s.pol = r.pol /\ s.pres = r.pres
        /\ s.hit = r.hit /\ s.guess = r.guess /\ s.lag = r.lag
        /\ s.checks = r.checks
    BY DEF Lookups
  <2>. HIDE DEF s
  <2>4. PlaceOK(s) BY <1>2, <1>3, <2>3 DEF PlaceOK
  <2>5. ResultOK(s) BY <1>2, <1>3, <2>3 DEF ResultOK, Done, Concluded, Honoured
  <2>6. Target(s) = r.name BY <1>2, <1>3, <1>8, <2>3 DEF Target, PlaceOK
  <2>7. last[r.name][d] = now /\ Ttl[d] \in Nat BY <1>5, <2>1
  <2>8. last[Target(s)][s.val] >= 0 /\ s.tq <= last[Target(s)][s.val] + Ttl[s.val] + s.lag
    BY <1>3, <1>4, <2>3, <2>6, <2>7
  <2>9. Returned(s, "OK") \in Lookups /\ LookupOK(Returned(s, "OK"))
    BY <1>2, <1>8, <2>3, <2>4, <2>5, <2>8, KeyReturnedOK
  <2>10. Returned(s, "OK").pc = "done" BY <2>3 DEF Returned, Lookups
  <2>. QED BY <1>2, <2>2, <2>9, <2>10, AloneStep
<1>9. ASSUME r.op # "key",
             h' = [h EXCEPT ![x] =
               IF found THEN PolicyResult(r, "found", "NOERROR", zone[r.name])
               ELSE PolicyResult(r, "absent", "NXDOMAIN", "nothing")]
      PROVE  IInv'
  <2>1. PICK outcome \in {"found", "absent"}, q \in RCodes, text \in {zone[r.name], "nothing"} :
          /\ h' = [h EXCEPT ![x] = PolicyResult(r, outcome, q, text)]
          /\ outcome = "found" => text = zone[r.name] /\ q = "NOERROR" /\ found
          /\ outcome = "absent" => q = "NXDOMAIN"
    BY <1>9 DEF RCodes
  <2>2. r.op = "pol" => r.name = PolicyName BY <1>3 DEF PlaceOK
  <2>3. PolicyTrue(r, outcome, q, text)
    BY <1>2, <1>4, <1>5, <2>1, <2>2 DEF PolicyTrue
  <2>. DEFINE R == PolicyResult(r, outcome, q, text)
  <2>4. R \in Lookups /\ LookupOK(R) /\ R.pc \in {"get", "other", "done"}
    BY <1>2, <1>3, <1>9, <2>1, <2>3, PolicyResultOK
  <2>5. h' = [h EXCEPT ![x] = R] BY <2>1
  <2>. HIDE DEF R
  <2>. QED BY <1>2, <2>4, <2>5, AloneStep
<1>10. CASE r.op = "key" /\ h' = [h EXCEPT ![x] =
              IF found THEN Returned([r EXCEPT !.val = zone[r.name]], "OK")
              ELSE Returned(r, "NOKEY")]
  BY <1>7, <1>8, <1>10
<1>. QED BY <1>6, <1>7, <1>9, <1>10

\* The application answers for the policy itself.
LEMMA CallbackStep ==
    ASSUME IInv, NEW x \in Handles, CallbackLookup(x)
    PROVE  IInv'
<1>. USE LookupAssumption
<1>1. PICK r \in Lookups : r = h[x] BY Found
<1>2. /\ r.pc = "other" /\ r.src = "callback" /\ UNCHANGED <<now, zone, last, cache, out>>
  BY <1>1 DEF CallbackLookup
<1>3. /\ PlaceOK(r) /\ ResultOK(r) /\ now \in Nat /\ zone \in [Names -> Contents]
  BY <1>1, Found
<1>4. /\ r.name \in Names /\ zone[r.name] \in Contents /\ r.tq \in Nat /\ r.tq <= now
      /\ r.op # "key"
  BY <1>2, <1>3 DEF Lookups, PlaceOK
<1>5. last[r.name][zone[r.name]] = now BY <1>4 DEF IInv, ZoneOK
<1>6. \/ \E st \in {"CBREJECT", "CBTRYAGAIN", "CBERROR", "CBINVALID"} :
            h' = [h EXCEPT ![x] = Returned(r, st)]
      \/ /\ zone[r.name] \in Data
         /\ h' = [h EXCEPT ![x] = PolicyResult(r, "found", "NOERROR", zone[r.name])]
      \/ /\ zone[r.name] \notin Data
         /\ h' = [h EXCEPT ![x] = PolicyResult(r, "absent",
                       IF zone[r.name] = "nx" THEN "NXDOMAIN" ELSE "NOERROR", "nothing")]
  BY <1>1 DEF CallbackLookup
<1>7. ASSUME NEW st \in {"CBREJECT", "CBTRYAGAIN", "CBERROR", "CBINVALID"},
             h' = [h EXCEPT ![x] = Returned(r, st)]
      PROVE  IInv'
  <2>1. st \in Statuses \ {"OK"} BY DEF Statuses
  <2>2. Returned(r, st) \in Lookups /\ LookupOK(Returned(r, st))
    BY <1>2, <1>3, <1>4, <2>1, ReturnedOK
  <2>3. Returned(r, st).pc = "done" BY DEF Returned, Lookups
  <2>. QED BY <1>2, <1>7, <2>2, <2>3, AloneStep
<1>8. ASSUME NEW outcome \in {"found", "absent"}, NEW q \in RCodes, NEW text,
             outcome = "found" => text = zone[r.name] /\ zone[r.name] \in Data /\ q = "NOERROR",
             outcome = "absent" =>
                /\ zone[r.name] \notin Data
                /\ q = IF zone[r.name] = "nx" THEN "NXDOMAIN" ELSE "NOERROR",
             h' = [h EXCEPT ![x] = PolicyResult(r, outcome, q, text)]
      PROVE  IInv'
  <2>1. /\ r.op = "ex" => r.name = Domain
        /\ r.op = "pol" => r.name = PolicyName
    BY <1>3 DEF PlaceOK
  <2>2. r.op = "ex" /\ q = "NXDOMAIN" => last[Domain]["nx"] >= r.tq
    BY <1>4, <1>5, <1>8, <2>1
  <2>3. r.op = "pol" /\ outcome = "found"
          => text \in Data /\ last[PolicyName][text] >= r.tq
    BY <1>4, <1>5, <1>8, <2>1
  <2>4. r.op = "pol" /\ outcome = "absent" =>
          \E c \in Contents \ (Data \ Junk) : last[PolicyName][c] >= r.tq
    BY <1>4, <1>5, <1>8, <2>1
  <2>5. PolicyTrue(r, outcome, q, text) BY <2>2, <2>3, <2>4 DEF PolicyTrue
  <2>. DEFINE R == PolicyResult(r, outcome, q, text)
  <2>6. R \in Lookups /\ LookupOK(R) /\ R.pc \in {"get", "other", "done"}
    BY <1>2, <1>3, <1>4, <2>5, PolicyResultOK
  <2>7. h' = [h EXCEPT ![x] = R] BY <1>8
  <2>. HIDE DEF R
  <2>. QED BY <1>2, <2>6, <2>7, AloneStep
<1>9. CASE /\ zone[r.name] \in Data
           /\ h' = [h EXCEPT ![x] = PolicyResult(r, "found", "NOERROR", zone[r.name])]
  <2>1. PICK text : text = zone[r.name] OBVIOUS
  <2>2. "NOERROR" \in RCodes /\ "found" \in {"found", "absent"} BY DEF RCodes
  <2>. QED BY <1>8, <1>9, <2>1, <2>2
<1>10. CASE /\ zone[r.name] \notin Data
            /\ h' = [h EXCEPT ![x] = PolicyResult(r, "absent",
                          IF zone[r.name] = "nx" THEN "NXDOMAIN" ELSE "NOERROR", "nothing")]
  <2>1. PICK q \in RCodes : q = IF zone[r.name] = "nx" THEN "NXDOMAIN" ELSE "NOERROR"
    BY DEF RCodes
  <2>2. "absent" \in {"found", "absent"} OBVIOUS
  <2>. QED BY <1>8, <1>10, <2>1, <2>2
<1>. QED BY <1>6, <1>7, <1>9, <1>10

-----------------------------------------------------------------------------
(* The theorems.                                                           *)

\* Every step keeps the invariant.
LEMMA StepOK == IInv /\ [Next]_vars => IInv'
<1>. SUFFICES ASSUME IInv, [Next]_vars PROVE IInv'
  OBVIOUS
<1>1. ASSUME NEW x \in Handles, Step(x) PROVE IInv'
  BY <1>1, CacheGetStep, CacheJudgeStep, AskStep, AskFailsStep, CollectStep, PutStep,
     FileStep, CallbackStep DEF Step
<1>2. ASSUME NEW x \in Handles, Call(x) PROVE IInv'
  BY <1>2, GetKeyStep, PolicyStep, PolicyAgainStep, DiscardStep DEF Call
<1>3. ASSUME NEW x \in Handles, Resolver(x) PROVE IInv'
  BY <1>3, ResolveStep
<1>4. CASE FlushCache BY <1>4, FlushStep
<1>5. CASE Tick BY <1>5, TickStep
<1>6. ASSUME NEW e \in Edits, Publish(e[1], e[2]) PROVE IInv'
  <2>1. e[1] \in Names /\ e[2] \in Contents BY LookupAssumption
  <2>. QED BY <1>6, <2>1, PublishStep
<1>7. CASE UNCHANGED vars
  <2>1. UNCHANGED <<now, zone, last, cache, h, out>> BY <1>7 DEF vars
  <2>2. TypeOK' /\ ZoneOK' BY <2>1 DEF IInv, TypeOK, ZoneOK
  <2>3. (\A n \in Names : EntryOK(n, cache[n]))' BY <2>1 DEF IInv, EntryOK
  <2>4. ASSUME NEW x \in Handles
        PROVE  LookupOK(h[x])' /\ RepliesOK(h[x], out[x])'
    BY <2>1 DEF IInv, LookupOK, PlaceOK, Fresh, ResultOK, Honoured, Concluded, Done,
                Target, EntryOK, RepliesOK, ReplyOK
  <2>. QED BY <2>2, <2>3, <2>4 DEF IInv
<1>. QED BY <1>1, <1>2, <1>3, <1>4, <1>5, <1>6, <1>7 DEF Next

\* The invariant holds throughout, whatever is published and whatever fails: the
\* cache and the replies tell of what was published when they came in.
THEOREM Inductive == Spec => []IInv
<1>. QED BY InitOK, StepOK, PTL DEF Spec

\* dkim_get_key() returns no key that was withdrawn longer ago than its time to
\* live, and the time its reply waited for the cache, allow.
THEOREM KeyFreshAlways == Spec => []KeyFresh
<1>1. IInv => KeyFresh
  BY DEF IInv, LookupOK, Fresh, KeyFresh
<1>. QED BY <1>1, Inductive, PTL

\* dkim_policy(), where no cached record answers, reports what was published during
\* the call, resumed or not.
THEOREM PolicyAskedAlways == Spec => []PolicyAsked
<1>1. IInv => PolicyAsked
  BY DEF IInv, LookupOK, ResultOK, PolicyAsked
<1>. QED BY <1>1, Inductive, PTL

\* dkim_policy() declares a domain missing only if it was missing during the call,
\* or a buffer without a reply was read.
THEOREM NxTruthAlways == Spec => []NxTruth
<1>1. IInv => NxTruth
  BY DEF IInv, LookupOK, ResultOK, NxTruth
<1>. QED BY <1>1, Inductive, PTL

\* A resumed dkim_policy() does not repeat the existence check that succeeded.
THEOREM ExcheckOnceAlways == Spec => []ExcheckOnce
<1>1. IInv => ExcheckOnce
  BY DEF IInv, LookupOK, ResultOK, ExcheckOnce
<1>. QED BY <1>1, Inductive, PTL
=============================================================================
