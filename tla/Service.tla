------------------------------ MODULE Service ------------------------------
(***************************************************************************)
(* The life of the process (cmd/obsidian-mcp/main.go, run), composed with  *)
(* the supervisors of SyncSupervisor: log in, connect each vault, start    *)
(* the supervisors, find the OIDC provider, listen, serve, and drain when  *)
(* a signal comes.  Every failure on the way ends the process, and nobody  *)
(* waits for the supervisors then.                                         *)
(*                                                                         *)
(* What SyncSupervisor calls Beat is taken apart here: the child writes    *)
(* its output in pieces, and observedSyncWriter (health.go) puts the lines *)
(* together again.                                                         *)
(***************************************************************************)
EXTENDS SyncSupervisor, Sequences, SequencesExt

CONSTANTS Chunks,       \* what a child may write at once, as tokens
          Heartbeat,    \* the line "Fully synced"
          MaxOutput,    \* bound: tokens a run writes
          MaxRequests,  \* bound: requests in flight
          Grace         \* how long Shutdown waits, 5 seconds

ASSUME ServiceAssumption == /\ Chunks \subseteq Seq(STRING)
                            /\ Heartbeat \in Seq(STRING)
                            /\ {MaxOutput, MaxRequests, Grace} \subseteq Nat

VARIABLES stage,      \* how far run has come
          ob,         \* the `ob` command it waits for: none, login or a vault
          connected,  \* the vaults that are set up
          requests,   \* how many requests are being handled
          grace,      \* what is left of the shutdown's timeout
          pending,    \* pending[v][s]: the line that run's writer has so far
          deaf        \* deaf[v][s]: a write of it failed, and cmd reads no more

(* History: all that the run's writer has passed on.                       *)
VARIABLE spoken

main == <<stage, ob, connected, requests, grace>>
output == <<pending, deaf, spoken>>
serviceVars == <<vars, main, output>>

NoCommand == "none"
LoginCommand == "login"

ASSUME CommandsAssumption == {NoCommand, LoginCommand} \cap Vaults = {}

Newline == "nl"
CarriageReturn == "cr"

-----------------------------------------------------------------------------
(* Starting up.  A command or a request that waits on another process ends *)
(* with an error when the context is done, and may take for ever if not.   *)
Fail == /\ stage' = "exited"
        /\ ob' = NoCommand
        /\ UNCHANGED <<connected, requests, grace>>

LoginEnds ==
    /\ stage = "login"
    /\ \/ /\ stage' = "setup"
          /\ ob' = NoCommand
          /\ UNCHANGED <<connected, requests, grace>>
       \/ Fail

SetupBegins(v) ==
    /\ stage = "setup" /\ ob = NoCommand /\ v \notin connected
    /\ \/ /\ ~ctxDone
          /\ ob' = v
          /\ UNCHANGED <<stage, connected, requests, grace>>
       \/ Fail

SetupEnds(v) ==
    /\ stage = "setup" /\ ob = v
    /\ \/ /\ ob' = NoCommand
          /\ connected' = connected \cup {v}
          /\ UNCHANGED <<stage, requests, grace>>
       \/ Fail

(* The loop of SetupVaults has come to its end.                            *)
LoginDone == ob = NoCommand    \* Broken: syncing starts beside the set-up.

SetupDone == ob = NoCommand /\ connected = Vaults

SyncBegins ==
    /\ stage = "setup"
    /\ SetupDone
    /\ stage' = "discover"
    /\ UNCHANGED <<ob, connected, requests, grace>>

DiscoveryEnds ==
    /\ stage = "discover"
    /\ \/ /\ stage' = "listen"
          /\ UNCHANGED <<ob, connected, requests, grace>>
       \/ Fail

Listens ==
    /\ stage = "listen"
    /\ \/ /\ stage' = "serve"
          /\ UNCHANGED <<ob, connected, requests, grace>>
       \/ Fail

-----------------------------------------------------------------------------
(* Serving, until the context is done or Serve fails; then Shutdown takes  *)
(* no new requests, and returns when none is left or its time is over.     *)
RequestBegins == /\ stage = "serve"
                 /\ requests < MaxRequests
                 /\ requests' = requests + 1
                 /\ UNCHANGED <<stage, ob, connected, grace>>

RequestEnds == /\ stage \in {"serve", "drain"}
               /\ requests > 0
               /\ requests' = requests - 1
               /\ UNCHANGED <<stage, ob, connected, grace>>

ServeFails == stage = "serve" /\ Fail

LongerTimeout == Grace + requests    \* Broken: each request adds to the timeout.

ShutdownTimeout == Grace

ShutdownBegins == /\ stage = "serve"
                  /\ ctxDone
                  /\ stage' = "drain"
                  /\ grace' = ShutdownTimeout
                  /\ UNCHANGED <<ob, connected, requests>>

WaitsForAll == requests = 0    \* Broken: Shutdown without a timeout.

DrainOver == requests = 0 \/ grace = 0

ShutdownEnds == /\ stage = "drain"
                /\ DrainOver
                /\ Fail

-----------------------------------------------------------------------------
(* The supervisors run from SyncBegins on, until the process ends: then    *)
(* they, and the goroutines that start children and read their output, are *)
(* gone, and the children are left to themselves.                          *)
Syncing == stage \in {"discover", "listen", "serve", "drain"}

(* Each run has a writer of its own; the one of a run that has been        *)
(* reported is dropped.                                                    *)
SharedWriter(v, lines) ==    \* Broken: one writer serves every run.
    [lines EXCEPT ![v][1 - cur[v]] = lines[v][cur[v]]]

NewWriter(v, lines) ==
    [lines EXCEPT ![v] = [s \in Slots |->
        IF s = cur[v] /\ child[v][s] \in Live THEN lines[v][s] ELSE <<>>]]

StartsRun(v) == /\ Start(v)
                /\ pending' = NewWriter(v, pending)
                /\ deaf' = [deaf EXCEPT ![v] = [s \in Slots |-> FALSE]]
                /\ spoken' = [spoken EXCEPT ![v] = [s \in Slots |-> <<>>]]

OtherSupervision(v) ==
    /\ \/ Stop(v) \/ Exited(v) \/ Watch(v) \/ Abort(v)
       \/ Reap(v) \/ Sleep(v) \/ Wake(v)
    /\ UNCHANGED output

(* observedSyncWriter.Write: what the process's own output has taken of a  *)
(* piece, which is less if that write fails, is put to what is pending.    *)
(* Each complete line is looked at, with or without the carriage return at *)
(* its end; what follows stays pending.  After an error cmd copies no more *)
(* of the child's output to the writer, though the child may live on.      *)
IsLine(bytes, k, i) == /\ bytes[i] = Newline
                       /\ k = 1 \/ bytes[k - 1] = Newline
                       /\ \A j \in k..(i - 1) : bytes[j] # Newline

Trimmed(line) ==
    IF line # <<>> /\ Last(line) = CarriageReturn THEN Front(line) ELSE line

HasHeartbeat(bytes) ==
    \E i \in 1..Len(bytes) : \E k \in 1..i :
       IsLine(bytes, k, i) /\ Trimmed(SubSeq(bytes, k, i - 1)) = Heartbeat

EndsLines(bytes, i) == /\ i = 0 \/ bytes[i] = Newline
                       /\ \A j \in (i + 1)..Len(bytes) : bytes[j] # Newline

LastNewline(bytes) == CHOOSE i \in 0..Len(bytes) : EndsLines(bytes, i)

Rest(bytes) == SubSeq(bytes, LastNewline(bytes) + 1, Len(bytes))

Forgotten(old, chunk) == chunk    \* Broken: only this piece is looked at.

Pieced(old, chunk) == old \o chunk

ReportedToo(v, s) == child[v][s] # "none" /\ ~deaf[v][s]    \* Broken: nobody waits for the reader.

Writes(v, s) == child[v][s] \in {"alive", "draining"} /\ ~deaf[v][s]

Taken(chunk, n) == SubSeq(chunk, 1, n)

Output(v, s) ==
    /\ Writes(v, s)
    /\ \E chunk \in Chunks : \E n \in 0..Len(chunk) :
          LET bytes == Pieced(pending[v][s], Taken(chunk, n))
          IN  /\ Len(spoken[v][s]) + Len(chunk) <= MaxOutput
              /\ pending' = [pending EXCEPT ![v][s] = Rest(bytes)]
              /\ deaf' = [deaf EXCEPT ![v][s] = n < Len(chunk)]
              /\ spoken' = [spoken EXCEPT ![v][s] = @ \o Taken(chunk, n)]
              /\ IF HasHeartbeat(bytes)
                 THEN /\ Set(sync, v, [sync[v] EXCEPT !.beat = 0])
                      /\ Set(beatBy, v, s)
                      /\ UNCHANGED <<supervisor, processes, context, stale>>
                 ELSE UNCHANGED vars

-----------------------------------------------------------------------------
ServiceInit == /\ Init
               /\ stage = "login"
               /\ ob = LoginCommand
               /\ connected = {}
               /\ requests = 0
               /\ grace = 0
               /\ pending = [v \in Vaults |-> [s \in Slots |-> <<>>]]
               /\ deaf = [v \in Vaults |-> [s \in Slots |-> FALSE]]
               /\ spoken = [v \in Vaults |-> [s \in Slots |-> <<>>]]

MainStep == \/ LoginEnds
            \/ \E v \in Vaults : SetupBegins(v) \/ SetupEnds(v)
            \/ SyncBegins
            \/ DiscoveryEnds
            \/ Listens
            \/ RequestBegins
            \/ RequestEnds
            \/ ServeFails
            \/ ShutdownBegins
            \/ ShutdownEnds

(* When run returns the process ends, and its goroutines with it.          *)
MainOnly(A) == /\ A
               /\ IF stage' = "exited" THEN Exit ELSE UNCHANGED vars
               /\ UNCHANGED output

Signal == stage # "exited" /\ Cancel /\ UNCHANGED <<main, output>>

TimePasses == /\ stage # "exited"
              /\ Tick
              /\ grace' = Sooner(grace)
              /\ UNCHANGED <<stage, ob, connected, requests, output>>

InProcess(v) == \/ StartsRun(v)
                \/ OtherSupervision(v)
                \/ \E s \in Slots : \/ Launch(v, s) /\ UNCHANGED output
                                    \/ RunReturns(v, s) /\ UNCHANGED output
                                    \/ Output(v, s)

(* A child may die whether the process is there or not.                    *)
ChildDies == /\ \E v \in Vaults, s \in Slots : Die(v, s)
             /\ UNCHANGED <<main, output>>

ServiceNext == \/ MainOnly(MainStep)
               \/ Syncing /\ (\E v \in Vaults : InProcess(v)) /\ UNCHANGED main
               \/ ChildDies
               \/ Signal
               \/ TimePasses

ServiceSpec == ServiceInit /\ [][ServiceNext]_serviceVars

(* Time passes, run takes its next step, and what it waits for ends when   *)
(* the context is done.  A command that hangs need not end without that,   *)
(* nor an OIDC provider answer, nor a request ever end.                    *)
ServiceFairness ==
    /\ WF_serviceVars(TimePasses)
    /\ WF_serviceVars(MainOnly(ctxDone /\ LoginEnds))
    /\ WF_serviceVars(MainOnly(\E v \in Vaults : SetupBegins(v)))
    /\ WF_serviceVars(MainOnly(ctxDone /\ \E v \in Vaults : SetupEnds(v)))
    /\ WF_serviceVars(MainOnly(SyncBegins))
    /\ WF_serviceVars(MainOnly(ctxDone /\ DiscoveryEnds))
    /\ WF_serviceVars(MainOnly(Listens))
    /\ WF_serviceVars(MainOnly(ShutdownBegins))
    /\ WF_serviceVars(MainOnly(ShutdownEnds))

ServiceFairSpec == ServiceSpec /\ ServiceFairness

-----------------------------------------------------------------------------
ServiceTypeOK ==
    /\ stage \in {"login", "setup", "discover", "listen", "serve", "drain",
                  "exited"}
    /\ ob \in {NoCommand, LoginCommand} \cup Vaults
    /\ connected \subseteq Vaults
    /\ requests \in 0..MaxRequests
    /\ grace \in 0..Grace
    /\ exited <=> stage = "exited"
    /\ pending \in [Vaults -> [Slots -> Seq(STRING)]]
    /\ deaf \in [Vaults -> [Slots -> BOOLEAN]]
    /\ spoken \in [Vaults -> [Slots -> Seq(STRING)]]

(* Whatever run is doing, the supervisors within it behave as those that   *)
(* SyncSupervisor describes by themselves.                                 *)
SupervisorSpec == Spec

(* SetupVaults: "a misconfigured vault should stop the container".  No     *)
(* vault is synced, and no request served, until all are connected.        *)
NothingBeforeSetup ==
    \/ connected = Vaults
    \/ /\ \A v \in Vaults, s \in Slots : child[v][s] = "none"
       /\ requests = 0
       /\ stage \in {"login", "setup", "exited"}

(* A run's heartbeat is on record exactly if that run's writer, and not    *)
(* the one before it, has passed the line on, in however many pieces and   *)
(* however much of them the process's own output has taken.                *)
BeatIsALine ==
    \A v \in Vaults :
       pc[v] \in {"select", "reap"} =>
          (sync[v].beat # Never <=> HasHeartbeat(spoken[v][cur[v]]))

(* After a signal the process ends, even if a command hangs, the OIDC      *)
(* provider does not answer or a request does not end.                     *)
EndsAfterSignal == ctxDone ~> stage = "exited"
=============================================================================
