# A TLA+ model of OpenDKIM

OpenDKIM is a milter that signs and verifies mail with DKIM. The repository has three layers:
the filter (`src/opendkim`), the DKIM library it links (`src/libopendkim`), and an asynchronous
resolver that the library uses for its DNS queries (`src/libar`). This directory holds TLA+
modules of all three: of the parts in which threads, processes, messages and timers meet, of the
calls the filter makes for a message, and of the text algorithms a signature depends on; the
configurations that model-check them with TLC; and proofs for TLAPS.

## 1. The system and its parts

| part | state it keeps | operations | what is hard | what makes it correct |
|---|---|---|---|---|
| resolver `libar/ar.c` | per library: pending, active and recyclable query handles, sockets, `ar_flags`; per query: flags, depth, tries, id, deadlines, the caller's buffer | `ar_init`, `ar_addquery`, `ar_waitreply`, `ar_cancelquery`, `ar_shutdown`; the dispatcher thread | one dispatcher against many callers, two kinds of lock, condition variables, a wake-up socket that can be full, lost, late and duplicate replies, CNAME chains, TCP reconnects | each caller gets its own answer, whole and once; no signal or wake-up is lost; a handle is in one place; everyone returns |
| configuration reload `opendkim.c` | `curconf`, a reference count per configuration, `reload`, `conf_lock` | `dkimf_reloader`, `dkimf_config_reload`, `mlfi_negotiate`, `mlfi_connect`, `mlfi_close` | a signal thread, reloads by whatever connection comes next, old configurations in use | no configuration (and DKIM library) is freed in use; none is forgotten; no signal is forgotten |
| auto-restart `opendkim.c` | the parent's counters, `die`, the child's pid, the pid file | the fork/wait loop of `main`, `dkimf_sighandler`, `dkimf_restart_check`, `dkimf_killchild` | signals at any point, crashes, inherited handlers and counters | one filter at a time, none left behind, the limits kept |
| message handle `libopendkim/dkim.c` | handle state, header fields, signature list with errors, keys and hash results, the chunk state machine | `dkim_header`, `dkim_eoh`, `dkim_body`, `dkim_eom`, `dkim_chunk`, `dkim_sig_process` | calls in any order, callbacks that ignore, reorder or ask to try again, lookups that fail for the moment, keys shared between signatures | a verdict is about the whole message and a usable key; a good signature wins; streaming changes nothing |
| key and policy lookup `dkim-keys.c`, `dkim-policy.c`, `dkim-cache.c` | the shared query cache, `DKIM_PSTATE`, three queries of an existence check | `dkim_get_key`, `dkim_policy`, `dkim_flush_cache` | threads sharing a cache that expires, records that change, damaged and missing replies, resumed calls | a withdrawn key is not used beyond its time to live; a policy is the published one; a domain is not declared missing that exists |
| text `dkim-canon.c`, `dkim_process_set` | pending blanks and blank lines, CR/LF state, `l=` remainder, small buffers | header and body canonicalization, header selection, tag parsing | pieces cut anywhere, buffers that fill up anywhere | the canonical form of the whole; fields from the bottom; tags read back |
| message callbacks `opendkim.c` | the message context: fields, recipients, status, signing mode, handle | `mlfi_envfrom` ... `mlfi_eom`, `mlfi_abort` | message after message over one connection, broken off anywhere; many settings; failures of memory, DNS and the MTA | results told are true; policies are honoured; outgoing mail is signed; forged claims are removed |
| parsers (`config.c`, `rfc2822.c`, `opendkim-ar.c`, tables, base64) | none between calls | parse | sequential | out of scope |
| tools and test mode | none | | | out of scope |

How they interact: libmilter calls the filter's `mlfi_*` callbacks, one thread per connection.
A connection holds one configuration, whose DKIM library makes the message handles. A verifying
handle asks libar for keys and policies; the caller waits in `ar_waitreply()` with a condition
variable and gives the query back with `ar_cancelquery()`. SIGUSR1 goes to a thread that only
sets a flag; the next connection does the reload. With AutoRestart the whole filter is a child
of a parent that waits for it.

`PROJECT.json` lists every part with its status, and under `hazards` what can go wrong at which line.

## 2. Modules

### Ar: the resolver

`Ar.tla` has one action per critical section of a caller and one per part of the dispatcher's
loop.

* `pending`, `active`, `recycled` are the three lists; `query` is the rest of `struct ar_query`;
  `buf` is the caller's buffer; `signalled` holds the condition-variable signals a blocked caller
  has not yet taken; `ctl` and `closed` are the control socket; `conn`, `dead` the TCP
  connection and `AR_FLAG_DEAD`.
* `ar_lock` is held by the dispatcher in all its places but `select`, the two reconnects and
  `exited`, so callers' steps that need it wait (`ArLockFree`). `q_lock` is free between the
  dispatcher's steps except in a reconnect begun by the retry scan (`QLockFree`), which is where
  the code keeps it. This is why `ar_waitreply()`, which needs only `q_lock`, may run in the
  middle of a dispatcher's pass and `ar_cancelquery()` may not.
* `ar_addquery()` is two steps (`Add`, `Enqueue`), as it releases `ar_lock` in between. When it cannot wake the
  dispatcher (`EnqueueFails`) there is a third, `Recycle`: the query, still on its list or sent meanwhile, is put on the recycle list too.
  `q_next` now joins two lists, which sequences cannot say, so the dispatcher of `Ar` comes to rest there (`tangled`);
  `ArLists`, which has the pointers, goes on.
* Time is abstracted to two facts per query, `due` (its retry interval has passed) and `late`
  (its timeout has passed). They become true while the dispatcher sleeps or is gone. What the
  arithmetic behind them does is module `ArClock`.
* A DNS message is known by the handle whose current `q_id` it carries. A reply to an older id
  matches nothing and is left out; identifiers are assumed not to collide.
* `Chain` gives the number of CNAMEs in front of a name's answer. A reply is known by the name asked, the number of steps taken, and
  what it says (`Contents`), which may differ from that of another reply to the same question: a retransmission of an answered
  query lets the dispatcher overwrite the first reply in the caller's buffer.

`ArService.tla` is what one caller is promised, with neither lists nor threads: an answer
to its own question and no other, that stays, though its text may be replaced by a later reply's, and truthful returns. `Ar` is shown to
implement it (`ImplementsService`) with the caller's view `CallOf`.

`ArLists.tla` is the pointer surgery of the same functions on `q_next`, heads and tails;
`ArQueues.tla` is the same on sequences, and `ArLists` implements it. `Ar` uses sequences on
the strength of this. `WakeFailsSpec` adds `Recycle`, the call of `ar_recycle()` in `ar_addquery()`.

`ArClock.tla` is the `struct timeval` arithmetic with a short second: when `select()` must
return, when a query is sent again, when it has expired, until when `ar_waitreply()` waits, and whether
`pthread_cond_timedwait()` accepts that time (`Valid`).

### Reload: configuration handles

`Reload.tla` has one action per callback part between two uses of `conf_lock`. A reload is two
steps, since the flag `reload` is written by the signal thread without the lock, and a signal
may come between the reading of the file and the clearing of the flag. A configuration is the
version of the file it was read from. A load may fail for any reason. `new` is the handle being
loaded; memory that was freed may be handed out again. `wanted` is a history variable: the
version a signal asked for that no load has read since.

### Restart: the parent of the filter

`Restart.tla` has the parent's places in its loop, the filters it forked (`born` with the
inherited signal handler, `armed` with the default one, `serving`, `zombie`, `reaped`), the
state of `dkimf_restart_check()`, and the time. Signals run the parent's handler at once, but
interrupt it only inside `wait()`.

### DkimLib: the calls of the library on one message

A call is an operator from a handle to the new handle and a status, so that the same text serves
three users: `DkimHandle` (any call at any time), `DkimTests` (the library's tests) and
`Filter` (the milter). A handle is a record of what `struct dkim` keeps between calls:
`state`, the fields (`hdrs`), the signature list (`sigs`, of `SigInfo`), whether canonicalizations
exist (`canons`) and the headers were run (`hdrsrun`), the body pieces hashed (`fed`), and the chunk
state machine (`chunk`, `line`, `cr`).

Texts are abstracted to what calls tell apart. A signature is the set of checks it fails
(`flaws`, in the order `SetupChecks` makes them), its key's name, whether the key made it over these
headers, its `l=`, and the number of body pieces its `bh=` was made over; a key record is the set
of its flaws, hashes, granularity, `t=s`, and what `p=` holds. A body hash is the number of pieces
hashed. A failed assertion or a read of a missing structure is the status `ABORT`.
What the uninitialised part of a copied key holds, and whether a private key can be parsed, is
the parameter `luck`.

### DkimHandle and DkimTests

`DkimHandle` adds an application that makes any call at any time on one handle, callbacks that
answer, ignore, process and reorder, and lookups that fail for the length of one call. A client
either passes fields and body by themselves or streams a text through `dkim_chunk()`.

`DkimTests` replays 125 of the library's 128 test programs: every `Tnn` is the sequence of calls that
`t-testnn.c` makes with what it asserts, `KeyFile` the keys that `t-setup.c` writes. It ties the
model to the code from the other side: a wrong transition in `DkimLib` shows as a test that the
model does not pass (`ReplayAgrees`).

### DkimLookup: keys, policies and the cache

Several handles, each used by one thread, look up keys and policies. A lookup is cut where
another thread may come in: before and after the cache's lock, between the query and its
reply, between the reply and its insertion. The resolver is an environment that answers, damages or gives
up a query at any moment (`Ar` models it). `zone` is what is published, `last` a
history variable: when each content was last published. A buffer that no reply was written to may
hold any result code (`RCodesOf`).

### DkimText: canonicalization and tags

Texts over small alphabets, character by character where the code goes character by character,
because here the cuts and the buffers are the subject. `Feed` passes the next piece of a body to
`BodyChunk`; `Canonical`, the definitions in `RefoldingIsHarmless`, `FromBottom` and `TagsReadBack` are the
references, written without state.

### Filter: the callbacks of the milter

One connection of an MTA that passes message after message, each perhaps broken off. A callback is
an operator from the message context to a context and an `SMFIS_` code; `mlfi_eom()` is put
together from parts, in the order of the code (`EomHandle`, `EomJudged` with `Measured` and `Judge`, `EomReport` with `Hushed` and `Translate`).
The library underneath is `DkimLib`, so that what `dkim_eom()` leaves in the signature list is
what `dkimf_authorsigok()` finds. Whether the sender's domain is one to sign for and the client an internal one is
part of the message (`own`, `local`). The removal of Authentication-Results fields is the code's loop (`AresStep`): a count, a parser that may
fail, a method and a host to compare; what is to be removed is said by `ClaimsRemoved` without a loop.

### Modules with MC in front, slips and mutants

`MCAr`, `MCArLists`, `MCArClock`, `MCReload`, `MCLookup`, `MCHandle`, `MCText` and `MCFilter` define the
small instances. Definitions whose comment begins with "slip of" or "Mutant:" are plausible mistakes in one
definition; each property is known to fail when the mistake stands in for it (`mutants` in `PROJECT.json`).

## 3. Runs

| run | module | question | bounds | distinct states |
|---|---|---|---|---|
| `ar_udp` | MCAr | each caller gets the answer to its own question, and refinement of `ArService`: a CNAME to follow, replies that differ, lost, duplicated and damaged packets, retries, callers with a timeout of their own | 2 callers, 2 handles, 1 alias, 2 different replies, depth 1, control socket of 1 message | 914 837 |
| `ar_tcp` | MCAr | the timeouts of query and caller, one attempt, breaking connections, retry by reconnect; failing sends, receives, wake-ups and reconnects | 2 callers, 2 handles, 1 break by the peer | 2 996 320 |
| `ar_live` | MCAr | callers, queries and shutdown make progress | 2 callers, 2 handles | 84 888 |
| `lists` | MCArLists | pointers implement sequences | 4 handles | 220 |
| `clock` | MCArClock | arithmetic across second boundaries | second of 4 ticks, 3 seconds | 200 505 |
| `reload` | MCReload | counts, frees, leaks, versions | 2 connections, 4 handles, 2 edits | 67 098 |
| `restart` | Restart | signals and crashes anywhere | 2 restarts, 4 filters, 3 seconds | 780 |
| `lookup` | MCLookup | two threads, one cache, records that change, expire, cannot be read or are refused | 2 handles, 2 calls, 2 key names (one an alias), 1 change, 1 second | 1 581 801 |
| `handle` | MCHandle | every sequence of calls; the library's tests | messages with up to 3 signatures out of 7 kinds, 2 keys, 2 body pieces | 280 865 |
| `text` | MCText | canonicalization, header selection, tag lists with blanks anywhere | all texts up to the lengths in `MCText`, buffers of 3 characters | 217 053 |
| `filter` | MCFilter | message after message, 23 kinds of mail, 80 configurations, failures anywhere | up to 5 fields, 2 body pieces, 2 recipients | 66 388 |

| `author_counts` | MCFilter | the comment at `opendkim.c:8262`, which the code does not keep (section 5): `AuthorCounts` is violated | one message, two signatures | |

Fourteen more configurations are counterexamples: each checks one property that a manual page, a comment, an assertion or the RFC
states, and TLC, started as `tlc -config ArDead.cfg MCAr`, finds the behaviour of the code that breaks it. Section 5 tells what each shows.

| configuration | module | property | states what stands in |
|---|---|---|---|
| `ArResent` | MCAr | `ResentUnanswered` | `ar.3:162` |
| `ArDead` | MCAr | `DeadFails` | `ar.3:306` |
| `ArMarked` | MCAr | `AllMarked` | `ar.c:450` |
| `ListsWakeFails` | MCArLists | `HandedOutFree` | `ar.3:275` |
| `ClockCarry` | MCArClock | `DeadlineAccepted` | `ar.3:230` |
| `ReloadLost` | MCReload | `NotForgotten` | `opendkim.8:449` |
| `RestartCount` | Restart | `RestartsAllowed` | `opendkim.conf.5:98` |
| `RestartRate` | Restart | `RateRespected` | `opendkim.conf.5:104` |
| `TagSpaces` | MCText | `SignatureBlanked` | `dkim-canon.c:1138` |
| `OwnLength` | MCHandle | `OwnLength` | `docs/rfc4871.txt:1168` |
| `NxDiscovered` | MCLookup | `NxDiscovered` | `dkim_presult.html:45` |
| `CachedPolicy` | MCLookup | `PolicyReturned` | `dkim_presult.html:47` |
| `DnsErrors` | MCFilter | `DnsErrorHandled` | `opendkim.conf.5:499` |
| `Contexts` | MCFilter | `ContextThere` | `opendkim.c:5976` |

Two callers are enough for the hazards of `Ar`: the list surgery needs two handles (one in
front of the other) and is checked with four in `lists`; a full control socket needs one message
more than it holds; signals and buffers concern a caller and the dispatcher. Handles are reused
without bound, so stale replies to a recycled handle are reached. `CtlMax` is 1 because the
smallest socket is the worst one. The control socket, the number of breaks, the file's edits, the forks and
the clock are the only bounded counters (`CtlMax`, `MaxBreaks`, `MaxEdits`, `MaxForks`, `Span`, `Seconds`).

Four handles for two connections are the least with which a load always finds a free one:
current, new, and one per connection. The clock's second must be longer than the largest
microsecond value in use only by one; four ticks give every carry and borrow.

Two handles and two calls let one thread insert what another has looked for, and a record
change in between; a time to live of 0 or 1 puts every expiry on its boundary. Signatures
interact through the order in which they are tried, the shared key data and the shared length
limit: two suffice for all of them but a key copied from a copy, for which there is a message
with three. Two body pieces tell a limit below, at and above the end of the body apart. The
canonicalizations keep a state of one character, one flag and a count of blank lines, so texts of
a few characters with a buffer of three reach each of their branches in each state. In
`filter` a connection is unbounded: `MailFrom` is always possible again, with the context as the last message
left it; the configurations are built so that every setting is on in some and off in others.

Deadlock is checked except where the program does stop: `ar_tcp` (a failed reconnect
leaves the dispatcher waiting for itself, a failed wake-up ties its lists),
and the runs of `DkimLookup`, `DkimLib`, `DkimText` and `Filter`, whose clients are done when the message is
(and whose process ends on a failed assertion). Symmetry is used in runs of invariants and of
step properties only, never with liveness.

### What the properties say

* `HandlesPlaced`: lists, callers and recycled handles partition the handles, but for the handle of a caller that was refused after a failed wake-up.
* `NoLostSignal`, `NoLostWakeup`: no caller sleeps on an answered query; the dispatcher does not
  sleep on one that `ar_addquery()` accepted.
* `RightAnswer`, `ExpiredIsLate`: what a caller is told is true of its own query, at the end of its chain of CNAMEs.
* `ImplementsService`: once there is an answer to the caller's question there always is one, to that question and at that end of its chain; only
  another reply to the same question replaces it.
* `WaitersReturn`, `PendingDrains`, `ShutdownCompletes`: progress.
* `WellLinked`, `ImplementsQueues`: the linked lists are lists and do what sequences would.
* `SleepsExactly`, `OnTime`: the clock's users agree. `NeverPastExpiry`: `ar_waitreply()` waits until exactly the earlier of two deadlines, and
  the only one it computes that cannot be waited for comes from microseconds that sum to one second.
* `RefsCounted`, `NoUseAfterFree`, `LeaksOnlyOnReject`, `NeverOlder`, `OneHandle`: configurations.
* `OneFilter`, `NoOrphan`, `GivesUp`: the parent and its filters. `CountRespected`: no filter serves after more restarts than
  AutoRestartCount; that it serves after as many is `RestartsAllowed`, which is violated.
* `KeyFresh`: a key is not used longer after its withdrawal than its time to live allows.
  `PolicyAsked`, `NxTruth`, `ExcheckOnce`: what `dkim_policy()` tells was true during the call, and a
  resumed call does nothing twice.
* `VerdictSound`, `GoodWins`: `dkim_eom()` says OK only for a good signature, and says it whenever there is
  one. `StreamingAgrees`: `dkim_chunk()` gives the verdict of the calls by parts.
  `ReplayAgrees`: the library's tests pass on the model.
* `CanonicalBody`, `RefoldingIsHarmless`, `FromBottom`, `TagsReadBack`: the text algorithms compute what RFC 4871 defines;
  tags are read back, and `b=` blanked, with blanks on both sides of names and values but for two texts (section 5).
* `PassSound`: a result of pass is only told of a message that deserves it. `DiscardHonoured`: what the author's domain
  asks to be discarded is not delivered. `OutgoingSigned`: mail of a signing domain leaves with one signature over its own
  fields and whole body, and nothing else is signed. `ClaimsRemoved`: the numbers told to the MTA are, among the fields of the name, those of exactly the fields that RemoveARAll and
  RemoveARFrom ask to remove.

The properties of the library and the filter name their exceptions, each of which is a place where the code falls short (section 5).

### Fairness

`Ar!Fairness`: the dispatcher and woken callers are scheduled (weak fairness: POSIX threads that
are ready run). Timers run out (weak). A nameserver answers a request that is in flight while the
dispatcher sleeps, and the dispatcher reads a reply of a handle it could read again and again
(strong: a retransmission changes the id and disables the step for a while; a network that loses
every answer would justify nothing). Callers need not wait or cancel. In `Restart`, the parent and
a newborn filter are scheduled; nothing makes a filter crash, and `GivesUp` assumes in its
antecedent that filters do not serve for ever.

## 4. Proofs

Each proof module EXTENDS the module it is about. Every invariant is proved the same way: an inductive invariant `IInv`
holds initially (`InitOK` or a lemma named likewise), every action preserves it (one lemma per action or kind of action),
and it implies the property. The constants are arbitrary within the named assumptions; TLC checks the assumptions
on each run's values.

| module | proved | for every |
|---|---|---|
| `DaemonProofs` (of `Reload` and `Restart`) | `RefsCounted`, `NoUseAfterFree`, `OneHandle`, `NeverOlder`, `LeaksOnlyOnReject` | finite set of connections, set of handles |
| | `OneFilter`, `NoOrphan`, `CountRespected` | limit, rate, number of filters |
| `ArProofs` | `HandlesPlaced`, `NoLostSignal`, `NoLostWakeup`, `ExpiredIsLate` | number of callers, handles, questions; settings; faults |
| | `ImplementsService`, `RightAnswer` (both assuming `Sound`), `OwnAnswer` | as above |
| `ArListsProofs` | `WellLinked`, `ImplementsQueues` | finite set of handles |
| `ArClockProofs` | `SleepsExactly`, `OnTime`, `NeverPastExpiry` | length of a second from 2 on, interval |
| `DkimLookupProofs` | `KeyFresh`, `PolicyAsked`, `NxTruth`, `ExcheckOnce` | number of threads, names, texts, times to live, changes |
| `DkimHandleProofs`, on lemmas of `DkimLibProofs` | `VerdictSound`, `GoodWins` | sequence of calls, number of signatures, keys and pieces of body, settings, answers of callbacks and lookups |
| `FilterProofs`, on the same lemmas | `PassSound`, `ClaimsRemoved`, `OwnContext`, `SignsOwnOnly` | mail, configuration, failure |

### Reload

None of the three invariants is inductive. Whether `mlfi_close()` may drop a reference depends on
where the connection is, so `PlaceOK` says in which places a connection holds a handle; whether a
load may make its handle current depends on who holds `conf_lock`, so `LockOK` ties the lock to the
handle being loaded and to the place the thread goes back to; a handle that is allocated anew must
have no holders, which `FreedOK` and `NoUseAfterFree` give. `IInv` is their conjunction with the
three. The counting argument is in the lemmas on `Holders`: taking adds one holder and dropping
removes one, of a finite set. One lemma per kind of step (`TakeStep`, `DropStep`, `QuietStep`, the
reload's three) shows that it preserves `IInv`, and `NextIInv` assigns every action to one of them.
`NeverOlder` needs in addition that the current version is not beyond the one being loaded and neither is
beyond the file (`VersionsOK`). `ReloadAssumption` bounds `Confs` from below only to
say that memory does not run out; no proof uses that part.

### Restart

`ParentInv` says that only the filter forked last can be alive, and only while the parent watches it (`LastAlive`), and that the
parent's count, which each filter inherits, is the number of filters forked, or one less while it has one (`RestartsOK`).

### The resolver

`IInv` of `ArProofs` says who owns which handle and where it is (`Placed`), that no signal and no wake-up is lost, what an outcome
told to a caller implies of its query (`OutcomeOK`, `ExpiryOK`), that a handle's packets and buffer belong to the question it
asks (`AnswersOK`), and that a broken connection carries no packet (`ConnOK`).
The failing wake-up is among the faults: a refused caller's handle may be recycled and listed at once, which `Placed` says, and nothing
uses it because the dispatcher of `Ar` ends there. The lemmas on lists (`AppendList`, `ConcatList`, ...)
serve the dispatcher's moves between `pending` and `active`.

Two things that `ar_sendquery()` does break the promises of `ArService`, and `Sound` assumes them away, each by a constant: a failed
`send()` sets `QUERY_REPLY` although no reply is there (`"sendfail" \notin Faults`), and a query that is given up, for its number of attempts
or because it cannot be encoded, keeps the `q_id` of an earlier packet, whose late reply then still matches it (`Retries = 0`, `Unbuildable = {}`).
Run `ar_udp` is such an instance. What is left without the assumption is `OwnAnswer`: with every fault and setting, a caller told of success whose query
was not given up, and whose buffer holds a reply at all, has the reply to its own question. The
refinement maps each caller to `CallOf` and proves the initial condition, every action and the stutter.

`ArListsProofs` names the three sequences that the links join (`Lists`). `Walked` shows that following `q_next` finds exactly that sequence,
with an argument on the least index at which it would not; the lemmas `Join`, `Behind`, `InFront`, `Pop`, `Drop` and `Cut` say what each kind of
surgery does to a list, and every action is put together from them. `Ar` uses sequences on the strength of `Refinement`.

`ArClockProofs` is arithmetic: normalized times (`TypeOK`), carries and borrows of `ar_timeleft()` and `ar_elapsed()` against the same times in ticks.

### Lookups

The invariant of `DkimLookupProofs` ties the cache to what was published: what is published now was last published now and nothing later
(`ZoneOK`); the text of a cache entry was published, at a name that is no alias, when its reply came in (`EntryOK`); for a lookup under way, where it is, what it
holds and when that was published (`PlaceOK`, `Fresh`, `ResultOK`, `RepliesOK`). `LookupAssumption` says that texts are not one of the marks for their absence, that `AliasOf` is the end of a
chain of CNAMEs, and where keys may come from.

### The message handle

`VerdictSound` is not inductive: what `dkim_eom()` says rests on what every earlier call left in the handle. `HandleOK` (in `DkimLibProofs`) is what
every call of the library keeps true of a handle, and `SigOK` is the part of it about one signature, as the conjunction of named parts:

* `KeyOK`: the key and the key record a signature holds are those published under its key's name, even if they were copied from another signature
  (or the copy is garbage, which only a key that could be decoded becomes).
* `PassedOK`: a signature whose RSA check passed was made by a usable key over these fields.
* `HashOK`: a body hash was compared when the body was complete, and against all that was written to it.
* `ErrorOK`, `Justified`: a signature has an error if and only if there is a reason for one. This is what `GoodWins` needs: a good signature may not
  be given up for something another signature, or an earlier call, did.

`q` (`quiet` in `DkimHandle`) says that all lookups so far were answered and all callbacks let the call go on; `Justified` and `GoodWins` hold then,
the rest always. Each call has one lemma in `DkimLibProofs` (`...Facts`) that it keeps `HandleOK`, and `DkimHandleProofs` puts them together.

The loops of the library over signatures, fields and characters are recursive functions (`Repeat`). tlapm can say nothing of `Repeat` itself, which takes an operator,
so `LoopBody` names the bodies of the loops, `IsRun` says what a run of such a loop is, and `RunExists` that there is one; `SetupRun` and its like turn each
`Repeat` into a run, and `Climb` (induction on a set of naturals, by way of its least element) carries an invariant along a run.
`HandleAssumption` says that fields and key records are such as the parsers make.

### The filter

`IInv` relates the message context to the MTA's place in the transaction (`Placed`, `Own`): the context holds the fields passed so far, recipients of this
message, and signs only mail of our own (`Mine`), however earlier messages on the connection ended. `OwnContext` and `SignsOwnOnly`, the second half of
`OutgoingSigned`, follow. `ClaimsRemoved` is an induction along the loop over the fields (`Counted`): after n fields the count is the number of
Authentication-Results fields among them (`NumberCounts`) and the numbers collected are those of the ones to remove (`RemovesRightOnes`); that the number
of a field tells it from the others gives `RightOnes`. None of this depends on what the library's calls return.

`PassSound` does. It is proved from a second invariant, `Told`, on top of `IInv`: until the message is over, the context knows no verdict yet and its handle, if it
verifies, has read this message and no other (`Fresh`). `Reads` says so of the fields (the handle holds the message's fields once the headers were run,
every signature of the handle comes from one of them, and where third parties are screened the ones of other domains are ignored), `Measures` of the body: what was hashed is what the MTA passed, and the MTA was told to
skip the rest only if every usable signature has an `l=` that was reached. `HeadersRun`, `EohReads` and `BodyCallbackReads` show that the callbacks keep it. At the end of the message
(`Whole`, `Finished`) the verdict of `dkim_eom()` is `GoodVerdict` by the lemmas on the handle; `SoundIsGood` and `NotPartial` turn it into a signature in `GoodOnes` that
is `Enough`, which is where the length of the body skipped, the shared `l=` and the three units of Minimum come in; `AuthorIsGood` and `AdspIsAuthors` do the same for
`dkimf_authorsigok()` and a pass of ADSP.

`FilterAssumption` says that there is mail whose fields and key records are such as the parsers make, that On-Security, LocalADSP and
Minimum have one of the values the configuration parser takes (`opendkim.c:461`, `opendkim.c:481`), and that `dkim_policy()` knows four practices.

### Model-checked only

* All liveness: `WaitersReturn`, `PendingDrains`, `ShutdownCompletes`, `GivesUp` (TLAPS proves none under fairness).
* `StreamingAgrees`: it compares two recursions, one over characters and one over fields, and would need an induction over both.
  `ReplayAgrees` is about the library's tests, which are fixed.
* The texts (`CanonicalBody`, `RefoldingIsHarmless`, `FromBottom`, `TagsReadBack`): what a fold returns for every text is an induction over data.
* `DiscardHonoured` and the first half of `OutgoingSigned`: they are false for some settings (On-InternalError may be accept), so that they are about the settings
  of the run, and they speak of fields chosen by `SelectSeq`, of which the provers know nothing.

## 5. Where the code and its documentation disagree

What a run or a counterexample configuration of section 3 shows is marked with its name. The rest was met while modelling: the models do what the code does, and where a
property would fail for it, the property excepts exactly that case.

Resolver and process management:

* A query that is answered and not cancelled yet is sent again when its interval is over, because retries look at `q_sent` alone; the second reply is copied over
  the first while the caller may read it (`ar.c:1174`, `ar.c:1078`; `ar.3:162` says "if no reply has been received"). Configuration `ArResent`.
* When `ar_addquery()` cannot wake the dispatcher, for a failing `select()` or `write()`, it recycles a query that stays on its list (`ar.c:1732`). The next
  `ar_addquery()` hands it out while the dispatcher still has it (`ar.3:275`). Configuration `ListsWakeFails`.
* A microsecond sum of exactly one second is not carried (`ar.c:1906`, `>`), `pthread_cond_timedwait()` refuses the deadline with `EINVAL`, and the loop calls it
  again and again with `q_lock` held, against the waiting that `ar.3:230` promises. Configuration `ClockCarry`.
* A reconnect begun by the retry scan holds a query's lock; when no nameserver can be reached, marking that
  query waits for the lock (`ar.c:1186`, `ar.c:433`; the comment at `ar.c:450` says all are marked and signalled). Configuration `ArMarked`.
* `ar_addquery()` does not look at `AR_FLAG_DEAD` again when it takes the lock a second time (`ar.c:1680`; `ar.3:306`). Configuration `ArDead`.
* A failed `sendto()` sets `QUERY_REPLY`, and attempts that are used up set `QUERY_ERROR`, which the wait loop does not look for
  (`ar.c:749`, `ar.c:650`, `ar.c:1929`).
* A SIGUSR1 taken during a load is forgotten, because the flag is cleared after the load (`opendkim.c:4112`; `opendkim.8:449`). Configuration `ReloadLost`.
* With AutoRestartCount N the filter serves N times and not N+1: the restart that reaches the count is refused, by the parent or by the new filter itself
  (`opendkim.c:10316`; `opendkim.conf.5:98`). Configuration `RestartCount`.
* The restart rate check stores the interval instead of the time and never refuses (`opendkim.c:941`; `opendkim.conf.5:104`). Configuration `RestartRate`.

Library:

* A signature without `l=` behind one with `l=` is held to that limit (`dkim.c:1573`). Configuration `OwnLength`.
* Key data copied from a signature that had copied it itself is uninitialised (`dkim.c:2474-2490`), unless the key had no data to copy because it could not be decoded.
* A policy found in the cache is not copied to the caller, and reported as found (`dkim-policy.c:590-608`). Configuration `CachedPolicy`. Several records pass for none.
* A key found through a CNAME is cached under the name the CNAME leads to, where the next lookup does not look.
* A reply of SERVFAIL or REFUSED without answers passes for a missing key (`dkim-keys.c:354-370`). When a chain of CNAMEs is longer than the resolver follows, the reply
  it hands over may begin with a CNAME, whose target the library looks for in the wrong place (`dkim-keys.c:407-414`).
* The existence check reads the reply buffers of queries that expired (`dkim-policy.c:510`), and may report a domain missing that exists. Configuration `NxDiscovered`. Queries already added are not
  cancelled when a later one cannot be added (`dkim-policy.c:425`).
* A blank between a tag's name and its "=" is accepted by the parser (`dkim.c:514-523`), but the search for `b=` takes the blank for the tag
  (`dkim-canon.c:1161`), so that the signature stays in what is hashed; the comment at `dkim-canon.c:1138` says otherwise. Configuration `TagSpaces`. An empty value at the very end of a list
  is stored under a name that keeps its blanks (`dkim.c:630-632`).
* Header selection ends its result with a null at `lhdrs[shcnt]` even if the array is full to its end (`dkim-canon.c:559`), one place behind it; a sequence
  of fields does not show that.
* `dkim_chunk()` after an error passes the same field again (`dkim.c:5532`); the last field of a text without a blank
  line is passed with its CRLF.
* Relaxed body canonicalization writes an extra space when a piece ends in two blanks and a CR, and keeps lines of blanks behind an
  empty line at the end (`dkim-canon.c:1584-1604`).

Filter:

* `dkim_eom()` stops at the first signature that passes (`dkim.c:3463-3489`), so a valid
  author signature behind a third party's is left untested, `dkimf_authorsigok()` (`opendkim.c:1674`) does not count it, and the
  message is rejected although the comment at `opendkim.c:8262` says that only messages without a valid author signature are. Run `author_counts`.
* A failed ADSP lookup is answered with On-DNSError only if the filter logs (`opendkim.c:8333`; `opendkim.conf.5:499`). Configuration `DnsErrors`.
* RemoveOldSignatures asks the MTA once per old signature to remove the field with number 0 (`opendkim.c:7487`), where fields of a name are numbered from 1 and
  the loop for Authentication-Results numbers them so (`opendkim.conf.5:591`: "Removes all existing signatures"). The model passes on the zeros (`RemoveSigs`); what the MTA makes of them is its own affair.
* Messages that RequiredHeaders finds not compliant are marked, not rejected (`opendkim.c:6986`; `opendkim.conf.5:604`), and with LocalADSP the
  missing domain fails an assertion (`opendkim.c:1472`).
* On-NoSignature has no effect when a result is added (`opendkim.c:9163`; `opendkim.conf.5:522`); On-BadSignature has none on a
  message with an error or too small a signed part when its ADSP lookup succeeds, because the status it is judged by is overwritten.
* A revoked key that `dkim_eom()` reports ends the callback with "continue", before ADSP; so does a malformed DKIM-Signature field at the end of
  the headers, with On-BadSignature.
* Minimum in percent divides by the length of an empty body (`opendkim.c:7995`); with `SMFIS_SKIP` the length compared with is that of
  the part that was passed.
* `mlfi_envrcpt()` without memory frees the context and refuses one recipient; the next callback asserts (`opendkim.c:5906`, `opendkim.c:5976`). Configuration `Contexts`.
* A handle that cannot be made is asked for its error message if the filter logs: an assertion.
* A signature that the MTA does not take is only logged.

## 6. Not modelled, and why

* What a configuration says beyond the settings of `Filter`, parsers, string helpers, base64: sequential code.
* `ar_resend()` and `ar_recycle()` as an application's calls: every caller in the tree gives a handle back with
  `ar_cancelquery()`. The one call of `ar_recycle()` in the tree, `ar_addquery()`'s own (`ar.c:1732`), is modelled; what the dispatcher does with lists that have
  run into one is left to `ArLists`, which shows the handle handed out twice and goes no further.
* CNAME chains beyond the depth `dkim_get_key_dns()` gives the resolver: within it the dispatcher asks for the target itself (`ar.c:1052-1068`), and the
  reply the library reads has no CNAME in front.
* `EINTR` in `select()`: the dispatcher blocks the signals that occur.
* Collisions of 16-bit query identifiers.
* Berkeley DB, OpenSSL, libunbound: external. Hashes and RSA are abstracted to what they were made over.
* Code under `_FFR_` (several signatures per message, VBR, reputation, statistics, redirection), DomainKeys, Unbound: off by default.
* Tests `t-test49`, `t-test111` and `t-test113`, which are about texts only, and the policy calls of six tests.
* Failure reports (`dkimf_sigreport()`, `dkimf_policyreport()`): mail that is sent, with no effect on the message.

## 7. Plan

1. An abstract specification of the message handle as its caller sees it (unprocessed, decided, unusable), and `DkimHandle` shown to
   implement it.
2. `DkimLookup` with `Ar`'s service specification in place of its resolver.
3. Several signatures per message (`_FFR_MULTIPLE_SIGNATURES`) in `Filter`.
