----------------------------- MODULE DkimLookup -----------------------------
(***************************************************************************)
(* How a verifying handle of libopendkim gets a key or an ADSP policy:     *)
(* through the query cache, then from the resolver, a file, or (policies)  *)
(* the application's callback.  The handles of several threads share the   *)
(* cache; the domain owner changes what is published while they work.      *)
(*                                                                         *)
(* The resolver is external (the modules Ar* model it): here a query that  *)
(* was added is answered, expires or fails at a moment of its own.         *)
(***************************************************************************)
EXTENDS Integers, FiniteSets

CONSTANTS
    Handles,      \* message handles, each used by one thread
    KeyNames,     \* names keys are published under
    AliasOf,      \* [KeyNames -> KeyNames]: what a name's CNAMEs lead to
    Domain,       \* the author's domain
    PolicyName,   \* the name of its ADSP record
    Data,         \* texts that may be published
    Junk,         \* those of them that are not a tag list
    Ttl,          \* [Data -> Nat], the records' time to live
    ExTypes,      \* the types an existence check asks for: A, AAAA, and MX last
    Sources,      \* subset of {"dns", "file", "callback"}
    Faults,       \* subset of {"add", "resolver", "reply", "db"}
    FirstZones,   \* what may be published at the start
    Edits,        \* the changes the owners may make: pairs of name and content
    MaxTime, MaxChanges, MaxCalls   \* bounds

Names == KeyNames \cup {Domain, PolicyName}

\* What DNS may hold at a name besides one text: nothing at all, the name
\* without a TXT record, or several TXT records.
Contents == Data \cup {"nx", "none", "multi"}

ASSUME LookupAssumption ==
    /\ Junk \subseteq Data
    /\ Data \cap {"nx", "none", "multi", "nothing", "NONE", "pending", "corrupt",
                  "overrun", "refused", "expired", "error"} = {}
    /\ Ttl \in [Data -> Nat]
    /\ AliasOf \in [KeyNames -> KeyNames]
    /\ \A n \in KeyNames : AliasOf[AliasOf[n]] = AliasOf[n]
    /\ Sources \subseteq {"dns", "file", "callback"}
    /\ FirstZones \subseteq [Names -> Contents]
    /\ Edits \subseteq Names \X Contents
    /\ Domain \notin KeyNames /\ PolicyName \notin KeyNames
    /\ "MX" \in ExTypes /\ "TXT" \notin ExTypes
    /\ MaxTime \in Nat /\ MaxChanges \in Nat /\ MaxCalls \in Nat

RCodes == {"NOERROR", "NXDOMAIN", "SERVFAIL"}

NoEntry == [when |-> 0, ttl |-> 0, data |-> "nothing", lag |-> 0]

VARIABLES
    now,      \* time(), in seconds
    zone,     \* what is published: [Names -> Contents]
    last,     \* (ghost) when each content was last published, or -1
    changes,  \* how often the zone was changed
    calls,    \* how many lookups were begun
    cache,    \* the query cache: [Names -> entry]
    h,        \* per handle: the lookup in progress
    out       \* per handle: its queries the resolver holds, by type

vars == <<now, zone, last, changes, calls, cache, h, out>>

Reply(label, is) == [label |-> label, is |-> is, seen |-> 0]
Pending == [label |-> Domain, is |-> "pending", seen |-> 0]
NoQueries == [ty \in {} |-> Pending]

Idle == [pc |-> "idle", op |-> "key", name |-> PolicyName, src |-> "dns", keep |-> FALSE,
         asked |-> PolicyName, ps |-> 0, tq |-> 0, ent |-> NoEntry, st |-> "none", val |-> "nothing",
         qst |-> "NOERROR", pol |-> "NONE", pres |-> "none", hit |-> FALSE, guess |-> FALSE,
         lag |-> 0, checks |-> 0]

Init ==
    /\ now = 0 /\ changes = 0 /\ calls = 0
    /\ zone \in FirstZones
    /\ last = [n \in Names |-> [c \in Contents |-> IF c = zone[n] THEN 0 ELSE -1]]
    /\ cache = [n \in Names |-> NoEntry]
    /\ h = [x \in Handles |-> Idle]
    /\ out = [x \in Handles |-> NoQueries]

-----------------------------------------------------------------------------
\* The world: time passes, and the owner of a name changes its record.

Tick ==
    /\ now < MaxTime
    /\ now' = now + 1
    /\ last' = [n \in Names |-> [last[n] EXCEPT ![zone[n]] = now + 1]]
    /\ UNCHANGED <<zone, changes, calls, cache, h, out>>

Publish(n, c) ==
    /\ changes < MaxChanges /\ c # zone[n]
    /\ zone' = [zone EXCEPT ![n] = c]
    /\ last' = [last EXCEPT ![n][c] = now]
    /\ changes' = changes + 1
    /\ UNCHANGED <<now, calls, cache, h, out>>

-----------------------------------------------------------------------------
\* dkim_cache_query() begins: it reads the clock before it asks for the
\* database's lock.  (Its statistics are left out.)
Queried(r) == [r EXCEPT !.pc = IF r.src = "dns" THEN "get" ELSE "other", !.tq = now]

\* dkim_get_key() of one signature.
GetKey(x, n, s) ==
    /\ h[x].pc = "idle" /\ n \in KeyNames /\ s \in Sources \ {"callback"}
    /\ h' = [h EXCEPT ![x] = Queried([Idle EXCEPT !.op = "key", !.name = n, !.asked = n, !.src = s])]
    /\ calls < MaxCalls /\ calls' = calls + 1
    /\ UNCHANGED <<now, zone, last, changes, cache, out>>

\* dkim_policy(): the existence check comes first, unless the caller's
\* DKIM_PSTATE says that an earlier call has made it.
Policy(x, s, keep) ==
    /\ h[x].pc = "idle" /\ s \in Sources
    /\ keep => s = "callback"    \* only the callback can ask to be tried again
    /\ h' = [h EXCEPT ![x] = Queried([Idle EXCEPT !.op = "ex", !.name = Domain, !.src = s, !.keep = keep])]
    /\ calls < MaxCalls /\ calls' = calls + 1
    /\ UNCHANGED <<now, zone, last, changes, cache, out>>

\* Mutant: the resumed call starts over.
PolicyAfresh(x) ==
    /\ h[x].pc = "done" /\ h[x].st = "CBTRYAGAIN" /\ h[x].keep
    /\ h' = [h EXCEPT ![x] = Queried([h[x] EXCEPT !.st = "none", !.pres = "none",
                                                  !.op = "ex", !.name = Domain])]
    /\ calls < MaxCalls /\ calls' = calls + 1
    /\ UNCHANGED <<now, zone, last, changes, cache, out>>

\* The caller repeats dkim_policy() after DKIM_STAT_CBTRYAGAIN; what the
\* DKIM_PSTATE holds is taken up again: the query that did not complete (ps
\* says which: the existence check below 1, else the policy), qst and pol.
PolicyAgain(x) ==
    /\ h[x].pc = "done" /\ h[x].st = "CBTRYAGAIN" /\ h[x].keep
    /\ h' = [h EXCEPT ![x] = Queried([h[x] EXCEPT !.st = "none", !.pres = "none"])]
    /\ calls < MaxCalls /\ calls' = calls + 1
    /\ UNCHANGED <<now, zone, last, changes, cache, out>>

\* dkim_free(): the handle is given up and its frames with it.
Discard(x) ==
    /\ h[x].pc = "done"
    /\ h' = [h EXCEPT ![x] = Idle]
    /\ UNCHANGED <<now, zone, last, changes, calls, cache, out>>

-----------------------------------------------------------------------------
\* Ending a lookup.  dkim_get_policy() turns -1 into DKIM_STAT_CANTVRFY;
\* dkim_policy() goes from the existence check to the policy query.

Returned(r, st) == [r EXCEPT !.pc = "done", !.st = st, !.ent = NoEntry]

\* dkim_policy() after the existence check succeeded with r.qst.
AfterExcheck(r) ==
    LET s == [r EXCEPT !.ps = 1, !.checks = @ + 1]
    IN  IF r.qst = "NXDOMAIN" THEN Returned([s EXCEPT !.pres = "NXDOMAIN"], "OK")
        ELSE Queried([s EXCEPT !.op = "pol", !.name = PolicyName, !.ent = NoEntry])

\* Mutant: the parsed policy is not handed out.
AfterPolicyKept(r, found, text) ==
    IF found /\ r.qst = "NOERROR" /\ text \in Junk THEN Returned(r, "SYNTAX")
    ELSE Returned([r EXCEPT !.ps = 2, !.pres = IF r.qst = "NOERROR" THEN "AUTHOR" ELSE "none"], "OK")

\* dkim_get_policy() parses a record that was found and dkim_policy() ends.
AfterPolicy(r, found, text) ==
    LET parsed == found /\ r.qst = "NOERROR"
        s == [r EXCEPT !.ps = 2, !.pol = IF parsed THEN text ELSE @,
                       !.pres = IF r.qst = "NOERROR" THEN "AUTHOR" ELSE "none"]
    IN  IF parsed /\ text \in Junk THEN Returned(r, "SYNTAX") ELSE Returned(s, "OK")

\* The outcome of a policy-side query: found (1), absent (0) or failed (-1).
PolicyResult(r, outcome, qst, text) ==
    IF outcome = "failed" THEN Returned(r, "CANTVRFY")
    ELSE LET s == [r EXCEPT !.qst = qst]
         IN  IF r.op = "ex" THEN AfterExcheck(s) ELSE AfterPolicy(s, outcome = "found", text)

\* The cache has a live entry.  dkim_get_key_dns() returns its data;
\* dkim_get_policy_dns() returns 0 for it, and leaves the query status alone.
FromCache(r) ==
    LET s == [r EXCEPT !.hit = TRUE, !.val = r.ent.data, !.lag = r.ent.lag]
    IN  IF r.op = "key" THEN Returned(s, "OK")
        ELSE PolicyResult(s, "absent", "NOERROR", r.ent.data)

-----------------------------------------------------------------------------
\* dkim_cache_query(), with cache_lock held; a database error is a miss.
CacheGet(x) ==
    /\ h[x].pc = "get"
    /\ \E fails \in {FALSE} \cup (IF "db" \in Faults THEN {TRUE} ELSE {}) :
        h' = [h EXCEPT ![x].pc = "judge",
                       ![x].ent = IF fails THEN NoEntry ELSE cache[h[x].name]]
    /\ UNCHANGED <<now, zone, last, changes, calls, cache, out>>

\* Mutant: the ttl is not looked at.
LiveForever(e, t) == e # NoEntry

Live(e, t) == e # NoEntry /\ e.when + e.ttl >= t

\* The rest of it: the entry is judged by the time read at the start.
CacheJudge(x) ==
    /\ h[x].pc = "judge"
    /\ h' = [h EXCEPT ![x] = IF Live(@.ent, @.tq) THEN FromCache(@)
                             ELSE [@ EXCEPT !.pc = "ask", !.ent = NoEntry]]
    /\ UNCHANGED <<now, zone, last, changes, calls, cache, out>>

\* dkim_flush_cache(): dkim_cache_expire() with the records' own ttl.
FlushCache ==
    /\ \E n \in Names : cache[n] # NoEntry /\ ~Live(cache[n], now)
    /\ cache' = [n \in Names |-> IF Live(cache[n], now) THEN cache[n] ELSE NoEntry]
    /\ UNCHANGED <<now, zone, last, changes, calls, h, out>>

-----------------------------------------------------------------------------
\* ar_addquery(): one TXT query, or A, AAAA and MX for an existence check.
Ask(x) ==
    /\ h[x].pc = "ask"
    /\ out' = [out EXCEPT ![x] = [ty \in (IF h[x].op = "ex" THEN ExTypes ELSE {"TXT"})
                                    |-> Pending]]
    /\ h' = [h EXCEPT ![x].pc = "wait"]
    /\ UNCHANGED <<now, zone, last, changes, calls, cache>>

\* It fails and the call returns at once.  (The queries an existence check
\* had added before stay with the resolver, which keeps pointers into the
\* frame that is gone; the resolver's side is not part of this module.)
AskFails(x) ==
    /\ h[x].pc = "ask" /\ "add" \in Faults
    /\ h' = [h EXCEPT ![x] = Returned(@, IF @.op = "key" THEN "INTERNAL" ELSE "CANTVRFY")]
    /\ UNCHANGED <<now, zone, last, changes, calls, cache, out>>

\* What DNS says at name n: the label is that of the record at the end of
\* the CNAMEs, which the resolver follows (ar_dispatcher() asks for the target
\* anew).  Chains longer than its depth are left out: their last reply has the
\* CNAME in front of the record, and dkim_get_key_dns() reads that wrongly.
Answer(n) ==
    LET label == IF n \in KeyNames THEN AliasOf[n] ELSE n
    IN  [Reply(label, zone[label]) EXCEPT !.seen = IF n = Domain THEN 0 ELSE now]

\* The resolver stores an answer, a damaged one, a server's refusal (rcode
\* SERVFAIL or REFUSED and no answers), or gives the query up.  (An existence
\* check tells neither the damaged replies nor the last two apart.)
Resolve(x, ty) ==
    /\ ty \in DOMAIN out[x] /\ out[x][ty] = Pending
    /\ \/ out' = [out EXCEPT ![x][ty] = Answer(h[x].name)]
       \/ \E f \in (IF "reply" \in Faults THEN {"corrupt", "overrun", "refused"} ELSE {})
                    \cup (IF "resolver" \in Faults THEN {"expired", "error"} ELSE {}) :
            /\ ty = "TXT" \/ f \in {"corrupt", "refused"}
            /\ out' = [out EXCEPT ![x][ty] = Reply(h[x].name, f)]
    /\ UNCHANGED <<now, zone, last, changes, calls, cache, h>>

NotAnAnswer == {"corrupt", "overrun", "refused", "expired", "error"}

\* dkim_get_key_dns(): what a reply is worth, when it is not one text.  Of the
\* rcodes it knows NXDOMAIN only: a refusal passes for a missing key.
KeyStatus(is) ==
    CASE is \in {"error", "expired", "corrupt"} -> "KEYFAIL"
      [] is = "overrun" -> "SYNTAX"
      [] is \in {"nx", "none", "refused"} -> "NOKEY"
      [] is = "multi" -> "MULTIDNSREPLY"

\* dkim_get_policy_dns(): the same for a policy.  DKIM_STAT_MULTIDNSREPLY is
\* neither 1 nor -1: it passes for "absent".
PolicyStatus(r, is) ==
    CASE is \in {"expired", "refused"} -> PolicyResult(r, "absent", "SERVFAIL", "nothing")
      [] is \in {"error", "corrupt", "overrun"} -> PolicyResult(r, "failed", "NOERROR", "nothing")
      [] is = "nx" -> PolicyResult(r, "absent", "NXDOMAIN", "nothing")
      [] is \in {"none", "multi"} -> PolicyResult(r, "absent", "NOERROR", "nothing")

\* No reply that can be read was written to the buffer.
Unwritten == NotAnAnswer \ {"refused"}

\* Mutant: a name without records of the type passes for a missing one.
RCodesNoData(a) ==
    IF a.is \in Unwritten THEN RCodes
    ELSE {IF a.is = "refused" THEN "SERVFAIL" ELSE IF a.is \in {"nx", "none"} THEN "NXDOMAIN" ELSE "NOERROR"}

\* dkim_get_policy_dns_excheck(): the first of the three replies with rcode
\* NOERROR decides, else the rcode of the last.  A buffer no reply was
\* written to is read all the same, and may hold any rcode.
RCodesOf(a) ==
    IF a.is \in Unwritten THEN RCodes
    ELSE {CASE a.is = "refused" -> "SERVFAIL" [] a.is = "nx" -> "NXDOMAIN" [] OTHER -> "NOERROR"}

ExcheckCodes(o) ==
    (IF \E ty \in ExTypes : "NOERROR" \in RCodesOf(o[ty]) THEN {"NOERROR"} ELSE {})
    \cup (IF \A ty \in ExTypes : RCodesOf(o[ty]) # {"NOERROR"}
          THEN RCodesOf(o["MX"]) \ {"NOERROR"} ELSE {})

\* ar_waitreply() has returned for every query and ar_cancelquery() was
\* called for each; the replies are read.
Collect(x) ==
    /\ h[x].pc = "wait"
    /\ \A ty \in DOMAIN out[x] : out[x][ty] # Pending
    /\ out' = [out EXCEPT ![x] = NoQueries]
    /\ \E r \in
        IF h[x].op = "ex"
        THEN {PolicyResult([h[x] EXCEPT !.guess = @ \/ \E ty \in ExTypes : out[x][ty].is \in Unwritten],
                           "absent", q, "nothing")
                : q \in ExcheckCodes(out[x])}
        ELSE LET a == out[x]["TXT"]
             IN  IF a.is \in Data
                 THEN {[h[x] EXCEPT !.pc = "put", !.val = a.is,
                          !.ent = [when |-> now, ttl |-> Ttl[a.is], data |-> a.is,
                                   lag |-> now - a.seen],
                          !.name = a.label]}
                 ELSE {IF h[x].op = "key" THEN Returned(h[x], KeyStatus(a.is))
                       ELSE PolicyStatus(h[x], a.is)} :
        h' = [h EXCEPT ![x] = r]
    /\ UNCHANGED <<now, zone, last, changes, calls, cache>>

\* dkim_cache_insert(), with the time read before the lock was taken, under
\* the name that was expanded last; then the record is used.
Put(x) ==
    /\ h[x].pc = "put"
    /\ cache' = [cache EXCEPT ![h[x].name] = h[x].ent]
    /\ h' = [h EXCEPT ![x] = IF @.op = "key" THEN Returned(@, "OK")
                             ELSE PolicyResult(@, "found", "NOERROR", @.val)]
    /\ UNCHANGED <<now, zone, last, changes, calls, out>>

-----------------------------------------------------------------------------
\* dkim_get_key_file() and dkim_get_policy_file(): one line of a local file,
\* which may not be readable.
FileLookup(x) ==
    /\ h[x].pc = "other" /\ h[x].src = "file"
    /\ LET r == h[x]
           found == zone[r.name] \in Data
       IN  \/ /\ "db" \in Faults
              /\ h' = [h EXCEPT ![x] = Returned(r, IF r.op = "key" THEN "KEYFAIL" ELSE "CANTVRFY")]
           \/ /\ r.op = "key"
              /\ h' = [h EXCEPT ![x] = IF found THEN Returned([r EXCEPT !.val = zone[r.name]], "OK")
                                       ELSE Returned(r, "NOKEY")]
           \/ /\ r.op # "key"
              /\ h' = [h EXCEPT ![x] =
                    IF found THEN PolicyResult(r, "found", "NOERROR", zone[r.name])
                    ELSE PolicyResult(r, "absent", "NXDOMAIN", "nothing")]
    /\ UNCHANGED <<now, zone, last, changes, calls, cache, out>>

\* dkim_get_policy() with a policy callback, which knows the zone, may ask
\* to be tried again, and may refuse.
CallbackLookup(x) ==
    /\ h[x].pc = "other" /\ h[x].src = "callback"
    /\ LET r == h[x]
       IN  \/ \E st \in {"CBREJECT", "CBTRYAGAIN", "CBERROR", "CBINVALID"} :
                h' = [h EXCEPT ![x] = Returned(r, st)]
           \/ /\ zone[r.name] \in Data
              /\ h' = [h EXCEPT ![x] = PolicyResult(r, "found", "NOERROR", zone[r.name])]
           \/ /\ zone[r.name] \notin Data
              /\ h' = [h EXCEPT ![x] = PolicyResult(r, "absent",
                            IF zone[r.name] = "nx" THEN "NXDOMAIN" ELSE "NOERROR", "nothing")]
    /\ UNCHANGED <<now, zone, last, changes, calls, cache, out>>

-----------------------------------------------------------------------------
Step(x) ==
    \/ CacheGet(x) \/ CacheJudge(x) \/ Ask(x) \/ AskFails(x) \/ Collect(x) \/ Put(x)
    \/ FileLookup(x) \/ CallbackLookup(x)

Call(x) ==
    \/ \E n \in KeyNames, s \in Sources : GetKey(x, n, s)
    \/ \E s \in Sources, keep \in BOOLEAN : Policy(x, s, keep)
    \/ PolicyAgain(x)
    \/ Discard(x)

Resolver(x) == \E ty \in DOMAIN out[x] : Resolve(x, ty)

Next ==
    \/ \E x \in Handles : Step(x) \/ Call(x) \/ Resolver(x)
    \/ FlushCache
    \/ Tick
    \/ \E e \in Edits : Publish(e[1], e[2])

Spec == Init /\ [][Next]_vars

-----------------------------------------------------------------------------
\* The name whose record answers a key query.
Target(r) == IF r.src = "dns" THEN AliasOf[r.asked] ELSE r.asked

\* A key that was withdrawn or replaced is not used longer than its time to
\* live says: whatever dkim_get_key() returns was still published at its name
\* less than ttl seconds before the lookup began, give or take the time that
\* passed between the reply's arrival and its entry into the cache.
KeyFresh ==
    \A x \in Handles :
        h[x].pc = "done" /\ h[x].op = "key" /\ h[x].st = "OK" =>
            /\ h[x].val \in Data
            /\ last[Target(h[x])][h[x].val] >= 0
            /\ h[x].tq <= last[Target(h[x])][h[x].val] + Ttl[h[x].val] + h[x].lag

Concluded(r) == r.pc = "done" /\ r.st = "OK" /\ r.op \in {"ex", "pol"}

\* The policy dkim_policy() reports is one that was published during the call;
\* "none" is reported only when there was a moment without a usable record.
Honoured(r) ==
    Concluded(r) /\ r.pres = "AUTHOR" =>
        IF r.pol \in Data THEN last[PolicyName][r.pol] >= r.tq
        ELSE \E c \in Contents \ (Data \ Junk) : last[PolicyName][c] >= r.tq

\* Honoured for every call the cache did not answer, resumed ones included.
PolicyAsked == \A x \in Handles : ~h[x].hit => Honoured(h[x])

\* The author's domain is declared nonexistent only if it did not exist at
\* some moment since its existence check began - unless a buffer was read
\* that no reply had been written to.
NxTruth ==
    \A x \in Handles :
        Concluded(h[x]) /\ h[x].pres = "NXDOMAIN" /\ h[x].src # "file" /\ ~h[x].guess =>
            last[Domain]["nx"] >= h[x].tq

\* dkim_presult.html:45: DKIM_PRESULT_NXDOMAIN is reported if it was discovered
\* that the author's domain does not exist, whatever became of the queries.
NxDiscovered ==
    \A x \in Handles :
        Concluded(h[x]) /\ h[x].pres = "NXDOMAIN" /\ h[x].src # "file" => last[Domain]["nx"] >= h[x].tq

\* dkim_presult.html:47: DKIM_PRESULT_AUTHOR is reported if a policy was found
\* and returned, by whatever source.
PolicyReturned == \A x \in Handles : Honoured(h[x])

\* A call resumed with its DKIM_PSTATE does not repeat the existence check
\* that an earlier attempt completed.
ExcheckOnce == \A x \in Handles : h[x].checks <= 1

=============================================================================
