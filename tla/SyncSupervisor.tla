--------------------------- MODULE SyncSupervisor ---------------------------
(***************************************************************************)
(* internal/bootstrap: one supervisor goroutine per vault keeps one        *)
(* `ob sync --continuous` child running, restarts it when it exits or goes *)
(* silent, and health.go records what /readyz reports.                     *)
(*                                                                         *)
(* Time is discrete.  Instead of the instants the code stores, the state   *)
(* holds how long ago they were, saturated one past the largest threshold  *)
(* an age is compared with.                                                *)
(***************************************************************************)
EXTENDS Integers, FiniteSets

CONSTANTS Vaults,         \* the configured vaults
          Poll,           \* watchdogPoll, 15 seconds
          ReadyAge,       \* syncReadyMaxAge, 2 minutes
          WatchdogAfter,  \* defaultWatchdogAfter, 5 minutes
          StableRun,      \* stableRunThreshold, 1 minute
          InitialBackoff, \* 1 second
          MaxBackoff      \* 1 minute

ASSUME TimesAssumption ==
    /\ {Poll, ReadyAge, WatchdogAfter, StableRun, InitialBackoff, MaxBackoff}
         \subseteq Nat \ {0}
    /\ StableRun <= WatchdogAfter
    /\ ReadyAge <= WatchdogAfter
    /\ InitialBackoff <= MaxBackoff

VARIABLES pc,       \* pc[v] is where the supervisor of vault v stands
          backoff,  \* its backoff
          left,     \* what is left of its sleep
          age,      \* how long ago it started the current run
          toPoll,   \* when its ticker fires next
          ticked,   \* its ticker's channel holds a tick
          sync,     \* syncStates[v]: running, and the last heartbeat's age
          child,    \* child[v][s]: the processes of the run and of the one before
          killed,   \* killed[v][s]: the context of that process is cancelled
          cur,      \* which of the two is the current run's
          ctxDone,  \* the process's own context is cancelled
          exited    \* the process has ended: its goroutines are gone

(* History.                                                                *)
VARIABLES beatBy,   \* whose heartbeat sync[v] records
          stale     \* the watchdog ended the current run

supervisor == <<pc, backoff, left, age, toPoll, ticked>>
processes == <<child, killed, cur>>
context == <<ctxDone, exited>>
history == <<beatBy, stale>>
vars == <<supervisor, sync, processes, context, history>>

-----------------------------------------------------------------------------
Cap == WatchdogAfter + 1

Older(n) == IF n < Cap THEN n + 1 ELSE n

Sooner(n) == IF n > 0 THEN n - 1 ELSE n

Slots == {0, 1}

Never == -1

(* A child is none, being started, alive, dead with its output still being *)
(* read, or reported: cmd.Run has returned and done holds its error.       *)
Live == {"starting", "alive", "draining"}

TypeOK ==
    /\ pc \in [Vaults -> {"top", "select", "reap", "returned", "sleep", "done"}]
    /\ backoff \in [Vaults -> InitialBackoff..MaxBackoff]
    /\ left \in [Vaults -> 0..MaxBackoff]
    /\ age \in [Vaults -> 0..Cap]
    /\ toPoll \in [Vaults -> 0..Poll]
    /\ ticked \in [Vaults -> BOOLEAN]
    /\ sync \in [Vaults -> [running : BOOLEAN, beat : {Never} \cup 0..Cap]]
    /\ child \in [Vaults -> [Slots -> Live \cup {"none", "reported"}]]
    /\ killed \in [Vaults -> [Slots -> BOOLEAN]]
    /\ cur \in [Vaults -> Slots]
    /\ ctxDone \in BOOLEAN
    /\ exited \in BOOLEAN
    /\ beatBy \in [Vaults -> Slots]
    /\ stale \in [Vaults -> BOOLEAN]

Init == /\ pc = [v \in Vaults |-> "top"]
        /\ backoff = [v \in Vaults |-> InitialBackoff]
        /\ left = [v \in Vaults |-> 0]
        /\ age = [v \in Vaults |-> 0]
        /\ toPoll = [v \in Vaults |-> Poll]
        /\ ticked = [v \in Vaults |-> FALSE]
        /\ sync = [v \in Vaults |-> [running |-> FALSE, beat |-> Never]]
        /\ child = [v \in Vaults |-> [s \in Slots |-> "none"]]
        /\ killed = [v \in Vaults |-> [s \in Slots |-> FALSE]]
        /\ cur = [v \in Vaults |-> 0]
        /\ ctxDone = FALSE
        /\ exited = FALSE
        /\ beatBy = [v \in Vaults |-> 0]
        /\ stale = [v \in Vaults |-> FALSE]

-----------------------------------------------------------------------------
(* health.go                                                               *)
KeepsBeat(v) == sync[v].beat    \* Broken: the last run's heartbeat is kept.

StartBeat(v) == Never

SyncReady == /\ Vaults # {}
             /\ \A v \in Vaults : /\ sync[v].running
                                  /\ sync[v].beat # Never
                                  /\ sync[v].beat <= ReadyAge

SilentSinceBeat(v) ==    \* Broken: a child that has never beaten is not looked at.
    sync[v].beat # Never /\ sync[v].beat > WatchdogAfter

(* How long the child has been silent: since its last heartbeat, or since  *)
(* its start.                                                              *)
SyncStale(v) ==
    \/ ~sync[v].running
    \/ (IF sync[v].beat = Never THEN age[v] ELSE sync[v].beat) > WatchdogAfter

-----------------------------------------------------------------------------
(* superviseVault and runContinuousSync.                                   *)
AnyContext(c) == TRUE    \* Broken: the loop does not look at the context.

Running(c) == ~c

Set(f, v, x) == f' = [f EXCEPT ![v] = x]

(* The loop's condition, and the start of a run: syncStarted, and a        *)
(* goroutine that runs the child.                                          *)
Stop(v) == /\ pc[v] = "top"
           /\ ~Running(ctxDone)
           /\ Set(pc, v, "done")
           /\ UNCHANGED <<backoff, left, age, toPoll, ticked, sync, processes,
                          context, history>>

Start(v) == /\ pc[v] = "top"
            /\ Running(ctxDone)
            /\ Set(pc, v, "select")
            /\ Set(age, v, 0)
            /\ Set(toPoll, v, Poll)
            /\ Set(ticked, v, FALSE)
            /\ Set(sync, v, [running |-> TRUE, beat |-> StartBeat(v)])
            /\ Set(cur, v, 1 - cur[v])
            /\ child' = [child EXCEPT ![v][1 - cur[v]] = "starting"]
            /\ killed' = [killed EXCEPT ![v][1 - cur[v]] = FALSE]
            /\ Set(stale, v, FALSE)
            /\ UNCHANGED <<backoff, left, context, beatBy>>

(* The select of runContinuousSync: done, the ticker, or the context.      *)
Return(v) == /\ Set(pc, v, "returned")
             /\ Set(sync, v, [sync[v] EXCEPT !.running = FALSE])
             /\ UNCHANGED <<backoff, left, age, toPoll, ticked, processes,
                            context, history>>

Reported(v) == child[v][cur[v]] = "reported"

Exited(v) == /\ pc[v] = "select"
             /\ Reported(v)
             /\ Return(v)

NoKill(v) == UNCHANGED killed    \* Broken: cancel() is missing.

Kill(v) == killed' = [killed EXCEPT ![v][cur[v]] = TRUE]

Watch(v) == /\ pc[v] = "select"
            /\ ticked[v]
            /\ Set(ticked, v, FALSE)
            /\ IF SyncStale(v)
               THEN Set(pc, v, "reap") /\ Kill(v) /\ Set(stale, v, TRUE)
               ELSE UNCHANGED <<pc, killed, stale>>
            /\ UNCHANGED <<backoff, left, age, toPoll, sync, child, cur,
                           context, beatBy>>

Abort(v) == /\ pc[v] = "select"
            /\ ctxDone
            /\ Set(pc, v, "reap")
            /\ Kill(v)
            /\ UNCHANGED <<backoff, left, age, toPoll, ticked, sync, child, cur,
                           context, history>>

(* <-done after a cancel.                                                  *)
NotAwaited(v) == TRUE    \* Broken: the killed child is not waited for.

Awaited(v) == Reported(v)

Reap(v) == /\ pc[v] = "reap"
           /\ Awaited(v)
           /\ Return(v)

(* A run that lasted resets the backoff; then sleep, and double it.        *)
NoReset(v) == backoff[v]    \* Broken: a stable run resets nothing.

NextBackoff(v) == IF age[v] >= StableRun THEN InitialBackoff ELSE backoff[v]

Sleep(v) == /\ pc[v] = "returned"
            /\ IF ~Running(ctxDone)
               THEN Set(pc, v, "done") /\ UNCHANGED <<backoff, left>>
               ELSE /\ Set(pc, v, "sleep")
                    /\ Set(backoff, v, NextBackoff(v))
                    /\ Set(left, v, NextBackoff(v))
            /\ UNCHANGED <<age, toPoll, ticked, sync, processes, context, history>>

Doubled(n) == 2 * n    \* Broken: no maximum.

Doubling(n) == IF 2 * n < MaxBackoff THEN 2 * n ELSE MaxBackoff

Wake(v) == /\ pc[v] = "sleep"
           /\ left[v] = 0 \/ ctxDone
           /\ Set(pc, v, "top")
           /\ Set(backoff, v, Doubling(backoff[v]))
           /\ Set(left, v, 0)
           /\ UNCHANGED <<age, toPoll, ticked, sync, processes, context, history>>

-----------------------------------------------------------------------------
(* The children.  cmd.Run starts nothing if the context is done already;   *)
(* cancelling it later kills the process.                                  *)
Dying(v, s) == killed[v][s] \/ ctxDone

Turn(v, s, x) == /\ child' = [child EXCEPT ![v][s] = x]
                 /\ UNCHANGED <<supervisor, sync, killed, cur, context, history>>

Launch(v, s) == /\ child[v][s] = "starting"
                /\ \/ ~Dying(v, s) /\ Turn(v, s, "alive")
                   \/ Turn(v, s, "reported")

Die(v, s) == /\ child[v][s] = "alive"
             /\ Turn(v, s, "draining")

RunReturns(v, s) == /\ child[v][s] = "draining"
                    /\ Turn(v, s, "reported")

(* The child prints "Fully synced": syncHeartbeat.  What it printed before *)
(* it died may be read later.                                              *)
Beat(v, s) == /\ child[v][s] \in {"alive", "draining"}
              /\ Set(sync, v, [sync[v] EXCEPT !.beat = 0])
              /\ Set(beatBy, v, s)
              /\ UNCHANGED <<supervisor, processes, context, stale>>

-----------------------------------------------------------------------------
(* SIGTERM or SIGINT.                                                      *)
Cancel == /\ ~ctxDone
          /\ ctxDone' = TRUE
          /\ UNCHANGED <<supervisor, sync, processes, exited, history>>

(* main returns, which it may do at any time: it waits for no supervisor.  *)
(* What is left then is the clock and the children, which may die or not.  *)
Exit == /\ ~exited
        /\ exited' = TRUE
        /\ UNCHANGED <<supervisor, sync, processes, ctxDone, history>>

Tick == /\ age' = [v \in Vaults |-> Older(age[v])]
        /\ sync' = [v \in Vaults |->
                      [sync[v] EXCEPT !.beat = IF @ = Never THEN @ ELSE Older(@)]]
        /\ left' = [v \in Vaults |-> Sooner(left[v])]
        /\ toPoll' = [v \in Vaults |-> IF toPoll[v] > 1 THEN toPoll[v] - 1 ELSE Poll]
        /\ ticked' = [v \in Vaults |-> ticked[v] \/ toPoll[v] = 1]
        /\ UNCHANGED <<pc, backoff, processes, context, history>>

Supervise(v) == Stop(v) \/ Start(v) \/ Exited(v) \/ Watch(v) \/ Abort(v)
                  \/ Reap(v) \/ Sleep(v) \/ Wake(v)

Process(v, s) == Launch(v, s) \/ RunReturns(v, s) \/ Beat(v, s)

Next == \/ /\ ~exited
           /\ \/ \E v \in Vaults : \/ Supervise(v)
                                   \/ \E s \in Slots : Process(v, s)
              \/ Cancel
        \/ \E v \in Vaults, s \in Slots : Die(v, s)
        \/ Exit
        \/ Tick

Spec == Init /\ [][Next]_vars

(* Time passes.  While the process is there, a supervisor's ready branch   *)
(* is taken sooner or later, and select starves none; a process that is    *)
(* being started starts or fails, a killed one dies, and the pipe of a     *)
(* dead one closes.  No child has to die, or to beat, of itself, and       *)
(* nothing has to happen once the process has ended.                       *)
Fairness ==
    /\ WF_vars(Tick)
    /\ \A v \in Vaults :
          /\ WF_vars(~exited /\ Stop(v))
          /\ WF_vars(~exited /\ Start(v))
          /\ WF_vars(~exited /\ Exited(v))
          /\ WF_vars(~exited /\ Watch(v))
          /\ WF_vars(~exited /\ Abort(v))
          /\ WF_vars(~exited /\ Reap(v))
          /\ WF_vars(~exited /\ Sleep(v))
          /\ WF_vars(~exited /\ Wake(v))
          /\ \A s \in Slots : /\ WF_vars(~exited /\ Launch(v, s))
                              /\ WF_vars(~exited /\ Dying(v, s) /\ Die(v, s))
                              /\ WF_vars(~exited /\ RunReturns(v, s))

FairSpec == Spec /\ Fairness

-----------------------------------------------------------------------------
(* README: "Two sync processes on the same vault copy fight over the sync  *)
(* client's lock": the supervisor never runs two, whatever ended the last. *)
OneChild == \A v \in Vaults :
               Cardinality({s \in Slots : child[v][s] \in Live}) <= 1

(* A ready vault's heartbeat is one of the child that the supervisor runs  *)
(* now, however the one before it ended, and is recent.                    *)
ReadyIsCurrent ==
    SyncReady => \A v \in Vaults : /\ pc[v] \in {"select", "reap"}
                                   /\ beatBy[v] = cur[v]
                                   /\ child[v][cur[v]] \in {"alive", "draining",
                                                            "reported"}

(* A child that the watchdog ended is replaced after the initial backoff,  *)
(* however often that has happened: a run that can go stale is a stable    *)
(* run.  src/README.md says "with exponential backoff" of these restarts;  *)
(* the code backs off only over children that exit soon.                   *)
StaleRestartsSoon ==
    \A v \in Vaults : stale[v] /\ pc[v] = "sleep" => left[v] <= InitialBackoff

(* A child that has been silent for too long, or was so from its start, is *)
(* replaced unless it speaks, or the service is stopping or has ended.     *)
Silent(v) == /\ age[v] > WatchdogAfter
             /\ sync[v].beat = Never \/ sync[v].beat > WatchdogAfter

SilentChildIsReplaced ==
    \A v \in Vaults : pc[v] = "select" /\ Silent(v)
                          ~> (pc[v] = "top" \/ ~Silent(v) \/ ctxDone \/ exited)

(* Every vault has a child again and again, unless the service is stopping *)
(* or has ended.                                                           *)
AlwaysSupervised ==
    \A v \in Vaults : []<>(pc[v] = "select" \/ ctxDone \/ exited)

(* When the service is stopped every supervisor returns, and leaves no     *)
(* child behind, if the process is there for so long: main.go returns      *)
(* without waiting for the supervisors, and may leave a child then.        *)
ShutdownStops ==
    ctxDone ~> \/ exited
               \/ \A v \in Vaults : /\ pc[v] = "done"
                                     /\ \A s \in Slots : child[v][s] \notin Live
=============================================================================
