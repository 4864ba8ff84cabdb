------------------------------- MODULE Reload -------------------------------
(***************************************************************************)
(* The filter's configuration handles (opendkim/opendkim.c): a reload      *)
(* asked for by SIGUSR1 is done by the next connection's thread, under     *)
(* conf_lock; every connection keeps the handle it started with and counts *)
(* as a reference to it; the last one out frees a superseded handle, and   *)
(* with it the DKIM library instance its message handles belong to.        *)
(*                                                                         *)
(* A connection is a libmilter thread that calls the mlfi_* callbacks in   *)
(* protocol order; the reloader thread sets the flag "reload" without a    *)
(* lock.  The configuration file is its edit count; a load may fail.       *)
(***************************************************************************)
EXTENDS Naturals, FiniteSets

CONSTANTS
    Conns,       \* connections, each served by one thread at a time
    Confs,       \* the struct dkimf_config's that malloc() can return
    NoConf,
    MaxEdits,    \* bound: edits of the configuration file
    Rejects      \* BOOLEAN: may negotiation fail after taking a reference

ASSUME ReloadAssumption ==
    /\ NoConf \notin Confs /\ "nobody" \notin Conns
    /\ IsFiniteSet(Conns) /\ Cardinality(Confs) > Cardinality(Conns) + 1
    /\ MaxEdits \in Nat /\ Rejects \in BOOLEAN

VARIABLES
    curconf,   \* the current configuration handle
    conf,      \* every handle: allocated, its reference count, what it holds
    conn,      \* every connection: where its thread is, what it holds
    lock,      \* who holds conf_lock between two steps: a connection or nobody
    new,       \* the handle being loaded
    reload,    \* the flag
    pending,   \* SIGUSR1 is pending for the reloader thread
    file,      \* the version of the configuration file
    wanted     \* the version a signal asked for and no load has read since, or 0

vars == <<curconf, conf, conn, lock, new, reload, pending, file, wanted>>

Nobody == "nobody"

Versions == 0..MaxEdits

ConfType == [live : BOOLEAN, refcnt : 0..Cardinality(Conns),
             version : Versions]

ConnType == [pc : {"gone", "negotiate", "acquireN", "check", "negotiated",
                   "connect", "acquireC", "open", "closing"},
             priv : BOOLEAN,                \* dkimf_setpriv() was called
             conf : Confs \cup {NoConf},    \* cctx_config
             msg : {"none", "context", "handle"},
             back : {"gone", "acquireN", "acquireC", "open"}]

TypeOK ==
    /\ curconf \in Confs
    /\ conf \in [Confs -> ConfType]
    /\ conn \in [Conns -> ConnType]
    /\ lock \in Conns \cup {Nobody}
    /\ new \in Confs \cup {NoConf}
    /\ reload \in BOOLEAN /\ pending \in BOOLEAN
    /\ file \in Versions
    /\ wanted \in Versions

Freed == [live |-> FALSE, refcnt |-> 0, version |-> 0]

Gone == [pc |-> "gone", priv |-> FALSE, conf |-> NoConf, msg |-> "none",
         back |-> "gone"]

\* A filter that was restarted (AutoRestart) inherits "reload" set by its parent.
Init ==
    /\ curconf \in Confs
    /\ conf = [f \in Confs |-> IF f = curconf THEN [Freed EXCEPT !.live = TRUE]
                                              ELSE Freed]
    /\ conn = [c \in Conns |-> Gone]
    /\ lock = Nobody /\ new = NoConf
    /\ reload \in BOOLEAN /\ pending = FALSE
    /\ file = 0
    /\ wanted = 0

-----------------------------------------------------------------------------
\* libmilter starts a connection: with a negotiation, or, when the MTA reuses
\* the milter connection, at once with mlfi_connect().
Begin(c) ==
    /\ conn[c].pc = "gone"
    /\ \E p \in {"negotiate", "connect"} : conn' = [conn EXCEPT ![c].pc = p]
    /\ UNCHANGED <<curconf, conf, lock, new, reload, pending, file, wanted>>

\* slip of After: a context left by mlfi_negotiate() is not looked for
AfterAlways(c) == IF conn[c].pc = "negotiate" THEN "acquireN" ELSE "acquireC"

\* Where a callback goes on after dkimf_config_reload(): mlfi_connect() takes a
\* reference only if mlfi_negotiate() left no context.
After(c) == CASE conn[c].pc = "negotiate"                   -> "acquireN"
              [] conn[c].pc = "connect" /\ ~conn[c].priv    -> "acquireC"
              [] OTHER                                      -> "open"

\* dkimf_config_reload(), nothing to do.
NoReload(c) ==
    /\ conn[c].pc \in {"negotiate", "connect"} /\ lock = Nobody /\ ~reload
    /\ conn' = [conn EXCEPT ![c].pc = After(c)]
    /\ UNCHANGED <<curconf, conf, lock, new, reload, pending, file, wanted>>

\* dkimf_config_reload() up to the reading of the file; conf_lock is kept.
BeginReload(c) ==
    /\ conn[c].pc \in {"negotiate", "connect"} /\ lock = Nobody /\ reload
    /\ lock' = c
    /\ \E f \in Confs :
        /\ ~conf[f].live
        /\ new' = f
        /\ conf' = [conf EXCEPT ![f] =
                      [live |-> TRUE, refcnt |-> 0, version |-> file]]
    /\ conn' = [conn EXCEPT ![c].back = After(c)]
    /\ wanted' = 0
    /\ UNCHANGED <<curconf, reload, pending, file>>

EndReload(c) ==
    /\ lock = c
    /\ lock' = Nobody /\ new' = NoConf
    /\ reload' = FALSE
    /\ conn' = [conn EXCEPT ![c].pc = conn[c].back, ![c].back = "gone"]
    /\ UNCHANGED <<pending, file, wanted>>

\* slip of ReloadFails: the handle is made current all the same
ReloadFailsOn(c) ==
    /\ EndReload(c)
    /\ conf' = [conf EXCEPT ![new] = [Freed EXCEPT !.live = TRUE]]
    /\ curconf' = new

\* There is no file or no memory, or config_load(), config_check() or
\* dkimf_config_load() fails, for whatever reason.
ReloadFails(c) ==
    /\ EndReload(c)
    /\ conf' = [conf EXCEPT ![new] = Freed]
    /\ UNCHANGED curconf

\* slip of ReloadSucceeds: only the last connection frees a handle
ReloadKeepsOld(c) ==
    /\ EndReload(c)
    /\ curconf' = new
    /\ UNCHANGED conf

\* Lines 4085-4108: an unreferenced old handle goes at once.
ReloadSucceeds(c) ==
    /\ EndReload(c)
    /\ conf' = IF conf[curconf].refcnt = 0
               THEN [conf EXCEPT ![curconf] = Freed] ELSE conf
    /\ curconf' = new

-----------------------------------------------------------------------------
\* slip of TakeReference: a handle is held without being counted
TakeUncounted(c, p) ==
    /\ lock = Nobody
    /\ conn' = [conn EXCEPT ![c].pc = p, ![c].conf = curconf,
                            ![c].priv = (p = "open")]
    /\ UNCHANGED <<curconf, conf, lock, new, reload, pending, file, wanted>>

TakeReference(c, p) ==
    /\ lock = Nobody
    /\ conf' = [conf EXCEPT ![curconf].refcnt = @ + 1]
    /\ conn' = [conn EXCEPT ![c].pc = p, ![c].conf = curconf,
                            ![c].priv = (p = "open")]
    /\ UNCHANGED <<curconf, lock, new, reload, pending, file, wanted>>

\* malloc() of the connection context fails
NoMemory(c) ==
    /\ conn[c].pc \in {"acquireN", "acquireC"}
    /\ conn' = [conn EXCEPT ![c] = Gone]
    /\ UNCHANGED <<curconf, conf, lock, new, reload, pending, file, wanted>>

\* mlfi_negotiate(), lines 5576-5582
NegotiateAcquire(c) == conn[c].pc = "acquireN" /\ TakeReference(c, "check")

\* mlfi_negotiate(), its three failures: the count goes back, the handle stays
NegotiateRejects(c) ==
    /\ Rejects
    /\ conn[c].pc = "check" /\ lock = Nobody
    /\ conf' = [conf EXCEPT ![conn[c].conf].refcnt = @ - 1]
    /\ conn' = [conn EXCEPT ![c] = Gone]
    /\ UNCHANGED <<curconf, lock, new, reload, pending, file, wanted>>

NegotiateDone(c) ==
    /\ conn[c].pc = "check"
    /\ conn' = [conn EXCEPT ![c].pc = "negotiated", ![c].priv = TRUE]
    /\ UNCHANGED <<curconf, conf, lock, new, reload, pending, file, wanted>>

CallConnect(c) ==
    /\ conn[c].pc = "negotiated"
    /\ conn' = [conn EXCEPT ![c].pc = "connect"]
    /\ UNCHANGED <<curconf, conf, lock, new, reload, pending, file, wanted>>

\* mlfi_connect(), lines 5733-5740
ConnectAcquire(c) == conn[c].pc = "acquireC" /\ TakeReference(c, "open")

\* mlfi_envfrom() drops what the last message left; mlfi_eoh() makes a DKIM
\* handle on the library of the connection's configuration; mlfi_eom() and
\* mlfi_abort() clean up.
Message(c) ==
    /\ conn[c].pc = "open"
    /\ \/ conn' = [conn EXCEPT ![c].msg = "context"]
       \/ conn[c].msg = "context" /\ conn' = [conn EXCEPT ![c].msg = "handle"]
       \/ conn[c].msg # "none" /\ conn' = [conn EXCEPT ![c].msg = "none"]
    /\ UNCHANGED <<curconf, conf, lock, new, reload, pending, file, wanted>>

\* mlfi_close() begins with dkimf_cleanup() ...
Close(c) ==
    /\ conn[c].pc \in {"negotiated", "open"}
    /\ conn' = [conn EXCEPT ![c].pc = "closing", ![c].msg = "none"]
    /\ UNCHANGED <<curconf, conf, lock, new, reload, pending, file, wanted>>

\* slip of Release: the last one out frees the handle, current or not
ReleaseCurrent(c) ==
    LET f == conn[c].conf IN
    /\ conn[c].pc = "closing" /\ lock = Nobody
    /\ conf' = IF conf[f].refcnt = 1 THEN [conf EXCEPT ![f] = Freed]
               ELSE [conf EXCEPT ![f].refcnt = @ - 1]
    /\ conn' = [conn EXCEPT ![c] = Gone]
    /\ UNCHANGED <<curconf, lock, new, reload, pending, file, wanted>>

\* ... and lets go of the handle, lines 9228-9241.
Release(c) ==
    LET f == conn[c].conf IN
    /\ conn[c].pc = "closing" /\ lock = Nobody
    /\ conf' = IF conf[f].refcnt = 1 /\ f # curconf
               THEN [conf EXCEPT ![f] = Freed]
               ELSE [conf EXCEPT ![f].refcnt = @ - 1]
    /\ conn' = [conn EXCEPT ![c] = Gone]
    /\ UNCHANGED <<curconf, lock, new, reload, pending, file, wanted>>

-----------------------------------------------------------------------------
Edit ==
    /\ file < MaxEdits
    /\ file' = file + 1
    /\ UNCHANGED <<curconf, conf, conn, lock, new, reload, pending, wanted>>

Kill ==
    /\ ~pending /\ pending' = TRUE
    /\ UNCHANGED <<curconf, conf, conn, lock, new, reload, file, wanted>>

\* dkimf_reloader(): sigwait() returns
Reloader ==
    /\ pending /\ pending' = FALSE
    /\ reload' = TRUE
    /\ wanted' = IF lock # Nobody /\ conf[new].version = file
                 THEN wanted ELSE file
    /\ UNCHANGED <<curconf, conf, conn, lock, new, file>>

ConnStep(c) ==
    \/ Begin(c) \/ NoReload(c) \/ BeginReload(c)
    \/ ReloadFails(c) \/ ReloadSucceeds(c)
    \/ NoMemory(c) \/ NegotiateAcquire(c) \/ NegotiateRejects(c)
    \/ NegotiateDone(c) \/ CallConnect(c) \/ ConnectAcquire(c)
    \/ Message(c) \/ Close(c) \/ Release(c)

Next == (\E c \in Conns : ConnStep(c)) \/ Edit \/ Kill \/ Reloader

Spec == Init /\ [][Next]_vars

-----------------------------------------------------------------------------
\* the connections that count as a reference to f
Holders(f) == {c \in Conns : conn[c].conf = f}

\* Every handle's refcnt is the number of connections whose cctx_config it is:
\* no path through mlfi_negotiate(), mlfi_connect() and mlfi_close(), failing
\* ones included, takes or drops a reference twice.
RefsCounted == \A f \in Confs : conf[f].live => conf[f].refcnt = Cardinality(Holders(f))

\* dkimf_config_free() is never called on the current handle, on one a connection
\* (and so a message handle on its library) still uses, or on the one being loaded.
NoUseAfterFree ==
    /\ conf[curconf].live
    /\ \A c \in Conns : conn[c].conf # NoConf => conf[conn[c].conf].live
    /\ \A c \in Conns : conn[c].msg # "none" => conn[c].conf # NoConf
    /\ lock # Nobody => new # NoConf /\ new # curconf /\ conf[new].live
                        /\ Holders(new) = {}

\* superseded, and nobody will ever free it
Leaked(f) == conf[f].live /\ f \notin {curconf, new} /\ Holders(f) = {}

\* A superseded handle that nobody holds any more has been freed by the reload
\* that superseded it or by the mlfi_close() of its last connection; only a
\* failing mlfi_negotiate() leaves one behind.
LeaksOnlyOnReject ==
    [][\A f \in Confs :
        Leaked(f)' => \/ Leaked(f)
                      \/ \E c \in Conns : conn[c].pc = "check" /\ conn[c].conf = f
                                          /\ conn'[c].pc = "gone"]_vars

\* Reloads are serialised by conf_lock and a failed one changes nothing, so a
\* later connection never gets an older configuration than an earlier one.
NeverOlder == [][conf'[curconf'].version >= conf[curconf].version]_vars

\* A connection keeps one handle from its start to its end: mlfi_connect() does
\* not take a second one after mlfi_negotiate(), whatever was reloaded between.
OneHandle ==
    [][\A c \in Conns : conn[c].conf # NoConf
                        => conn'[c].conf \in {conn[c].conf, NoConf}]_vars

\* a SIGUSR1 that was taken, after which nothing will make anybody read the file
Forgotten == wanted # 0 /\ ~reload /\ lock = Nobody

\* opendkim.8:449: upon SIGUSR1 the file is read again.  A request that
\* dkimf_reloader() has taken is thus answered by a load that read the file of
\* that moment or a later one, or somebody will still read it; the code clears
\* the flag when a load ends, and with it a request that came during the load.
NotForgotten == ~Forgotten
=============================================================================
