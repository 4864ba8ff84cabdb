------------------------------ MODULE Restart ------------------------------
(***************************************************************************)
(* AutoRestart in main() of opendkim/opendkim.c: a parent process forks    *)
(* the filter, waits for it, and forks another one when it has died, until *)
(* a limit on the count or on the rate of restarts is reached or a signal  *)
(* (SIGHUP, SIGINT, SIGTERM) tells it to stop.                             *)
(*                                                                         *)
(* A signal runs the parent's handler at once; only one that finds the     *)
(* parent inside wait() also interrupts it.  A filter inherits the handler *)
(* and replaces it a little later.                                         *)
(***************************************************************************)
EXTENDS Integers, FiniteSets

CONSTANTS
    MaxRestarts,   \* maxrestarts; 0 is no limit
    RateN,         \* maxrestartrate_n; 0 is no limit
    RateT,         \* maxrestartrate_t, in seconds
    Start,         \* the time at the start, in seconds since the epoch
    Span,          \* bound: seconds the run may last
    MaxForks       \* bound: filters that may be started

ASSUME RestartAssumption ==
    /\ MaxRestarts \in Nat /\ RateN \in Nat /\ RateT \in Nat \ {0}
    /\ Start \in Nat /\ Start >= 2 * RateT
    /\ Span \in Nat /\ MaxForks \in Nat \ {0}

VARIABLES
    parent,    \* the parent: where it is, its exit, "restarts" and "die"
    filters,   \* every filter ever forked
    forks,     \* how many; filter number "forks" is the one in "pid"
    list,      \* dkimf_restart_check(): list, indexed from 0
    idx,       \* dkimf_restart_check(): idx
    pidfile,   \* the pid file is there
    now        \* time()

restartVars == <<parent, filters, forks, list, idx, pidfile, now>>

Pids == 1..MaxForks

RestartInit ==
    /\ parent = [pc |-> "top", exit |-> "none", restarts |-> 0, die |-> FALSE]
    /\ filters = [p \in Pids |-> [st |-> "none", die |-> FALSE]]
    /\ forks = 0
    /\ list = [i \in 0..(RateN - 1) |-> 0] /\ idx = 0
    /\ pidfile = TRUE
    /\ now = Start

Exit(code) == parent' = [parent EXCEPT !.pc = "gone", !.exit = code]

Alive(p) == filters[p].st \in {"born", "armed", "serving"}

-----------------------------------------------------------------------------
\* dkimf_socket_cleanup() or fork() fails: the parent ends; the pid file stays.
GiveUp ==
    /\ parent.pc = "top"
    /\ Exit("UNAVAILABLE") \/ Exit("OSERR")
    /\ UNCHANGED <<filters, forks, list, idx, pidfile, now>>

Fork ==
    /\ parent.pc = "top" /\ forks < MaxForks
    /\ forks' = forks + 1
    /\ filters' = [filters EXCEPT ![forks + 1] = [st |-> "born", die |-> parent.die]]
    /\ parent' = [parent EXCEPT !.pc = "forked"]
    /\ UNCHANGED <<list, idx, pidfile, now>>

EnterWait ==
    /\ parent.pc = "forked"
    /\ parent' = [parent EXCEPT !.pc = "wait"]
    /\ UNCHANGED <<filters, forks, list, idx, pidfile, now>>

\* wait() returns the filter
Reap ==
    /\ parent.pc = "wait" /\ filters[forks].st = "zombie"
    /\ filters' = [filters EXCEPT ![forks].st = "reaped"]
    /\ parent' = [parent EXCEPT !.pc = "check"]
    /\ UNCHANGED <<forks, list, idx, pidfile, now>>

\* kill(): a filter that still has the inherited handler only notes the signal
Killed(f) == CASE f.st = "born"                  -> [f EXCEPT !.die = TRUE]
               [] f.st \in {"armed", "serving"}  -> [f EXCEPT !.st = "zombie"]
               [] OTHER                          -> f

\* slips of Interrupted: EINTR is taken for the filter's end; the parent does not
\* wait for the filter it has told to stop
InterruptedRestarts ==
    /\ parent.pc = "interrupted"
    /\ parent' = [parent EXCEPT !.pc = "check"]
    /\ UNCHANGED <<filters, forks, list, idx, pidfile, now>>
InterruptedLeaves ==
    /\ parent.pc = "interrupted" /\ Exit("OK")
    /\ pidfile' = FALSE
    /\ UNCHANGED <<filters, forks, list, idx, now>>

\* wait() was interrupted, and "die" is set
Interrupted ==
    /\ parent.pc = "interrupted" /\ parent.die
    /\ filters' = [filters EXCEPT ![forks] = Killed(@)]
    /\ parent' = [parent EXCEPT !.pc = "killing"]
    /\ UNCHANGED <<forks, list, idx, pidfile, now>>

Stopped ==
    /\ parent.pc = "killing" /\ filters[forks].st = "zombie"
    /\ filters' = [filters EXCEPT ![forks].st = "reaped"]
    /\ pidfile' = FALSE
    /\ Exit("OK")
    /\ UNCHANGED <<forks, list, idx, now>>

CountReached(restarts) == MaxRestarts > 0 /\ restarts >= MaxRestarts

\* (idx - 1) % alen in C, and the correction for -1
Slot == IF idx = 0 THEN RateN - 1 ELSE (idx - 1) % RateN

\* dkimf_restart_check(0, t) refuses
RateReached == RateN > 0 /\ list[Slot] # 0 /\ list[Slot] + RateT > now

\* slip of Counted: restarts are not counted
CountedNot(restarts) == restarts

Counted(restarts) == restarts + 1

\* After the filter's end: the limits; what the rate check stores is its
\* argument, not the time.
Check ==
    /\ parent.pc = "check"
    /\ IF CountReached(parent.restarts) \/ RateReached
       THEN Exit("UNAVAILABLE") /\ UNCHANGED <<list, idx>>
       ELSE /\ parent' = [parent EXCEPT !.pc = "top", !.restarts = Counted(@)]
            /\ list' = IF RateN > 0 THEN [list EXCEPT ![Slot] = RateT] ELSE list
            /\ idx' = IF RateN > 0 THEN idx + 1 ELSE idx
    /\ UNCHANGED <<filters, forks, pidfile, now>>

\* SIGHUP, SIGINT or SIGTERM reaches the parent.
Signal ==
    /\ parent.pc # "gone" /\ (~parent.die \/ parent.pc = "wait")
    /\ parent' = [parent EXCEPT !.die = TRUE,
                    !.pc = IF @ = "wait" THEN "interrupted" ELSE @]
    /\ UNCHANGED <<filters, forks, list, idx, pidfile, now>>

-----------------------------------------------------------------------------
(* The filter.                                                             *)

FilterBecomes(p, st) ==
    /\ filters' = [filters EXCEPT ![p].st = st]
    /\ UNCHANGED <<parent, forks, list, idx, pidfile, now>>

\* the signals' default actions are restored
Arm(p) == filters[p].st = "born" /\ FilterBecomes(p, "armed")

\* A filter checks the limits too, with the numbers it inherited; the parent is
\* in its wait() and does not change them meanwhile.
Serve(p) ==
    /\ filters[p].st = "armed"
    /\ FilterBecomes(p, IF CountReached(parent.restarts) \/ RateReached
                        THEN "zombie" ELSE "serving")

Crash(p) == filters[p].st \in {"armed", "serving"} /\ FilterBecomes(p, "zombie")

Tick ==
    /\ now < Start + Span /\ now' = now + 1
    /\ UNCHANGED <<parent, filters, forks, list, idx, pidfile>>

Ended == parent.pc = "gone" /\ UNCHANGED restartVars

Parent == Fork \/ EnterWait \/ Reap \/ Interrupted \/ Stopped \/ Check

RestartNext ==
    \/ Parent \/ GiveUp \/ Signal \/ Tick \/ Ended
    \/ \E p \in Pids : Arm(p) \/ Serve(p) \/ Crash(p)

RestartSpec == RestartInit /\ [][RestartNext]_restartVars

\* Processes are scheduled; nothing makes a filter crash.
FairSpec == RestartSpec /\ WF_restartVars(Parent) /\ \A p \in Pids : WF_restartVars(Arm(p) \/ Serve(p))

-----------------------------------------------------------------------------
\* The parent never has two filters: neither a signal that interrupts its wait()
\* nor a filter's end makes it fork before the last one is dead.
OneFilter == Cardinality({p \in Pids : Alive(p)}) <= 1

\* When the parent is gone no filter is left behind, and after a stop that was
\* asked for no pid file either.
NoOrphan ==
    parent.pc = "gone" =>
        /\ \A p \in Pids : ~Alive(p)
        /\ parent.exit = "OK" => ~pidfile

\* AutoRestartCount: the filter is never restarted more often than that, though
\* parent and filter each count for themselves; the first filter is no restart.
CountRespected ==
    MaxRestarts > 0 =>
        \A p \in Pids : filters[p].st = "serving" => p <= MaxRestarts + 1

\* opendkim.conf.5:98: the filter gives up after AutoRestartCount restarts.  A
\* filter that is one of these restarts therefore passes the check of the count;
\* the code counts the filter that is checked among those that failed.
RestartsAllowed ==
    \A p \in Pids : filters[p].st = "armed" /\ p <= MaxRestarts + 1
                    => ~CountReached(parent.restarts)

\* opendkim.conf.5:104: the filter gives up if it is restarted more often than
\* RateN times in RateT seconds.  (Until then all restarts fall into that time.)
RateRespected == RateN > 0 /\ now < Start + RateT => forks <= RateN + 1

\* If filters do not serve for ever, AutoRestartCount ends the parent.
GivesUp ==
    (\A p \in Pids : filters[p].st = "serving" ~> filters[p].st # "serving")
    => <>(parent.pc = "gone")
=============================================================================
