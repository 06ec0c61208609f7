------------------------ MODULE SyncSupervisor_proofs ------------------------
(***************************************************************************)
(* Proofs about SyncSupervisor, for any set of vaults and any times that   *)
(* TimesAssumption admits.                                                 *)
(***************************************************************************)
EXTENDS SyncSupervisor, FiniteSetTheorems, TLAPS

LEMMA Times == /\ Poll \in Nat /\ Poll >= 1
               /\ ReadyAge \in Nat /\ ReadyAge >= 1
               /\ WatchdogAfter \in Nat /\ WatchdogAfter >= 1
               /\ StableRun \in Nat /\ StableRun >= 1
               /\ InitialBackoff \in Nat /\ InitialBackoff >= 1
               /\ MaxBackoff \in Nat /\ MaxBackoff >= InitialBackoff
               /\ StableRun <= WatchdogAfter /\ ReadyAge <= WatchdogAfter
  BY TimesAssumption DEF TimesAssumption

LEMMA InitTypeOK == Init => TypeOK
<1> SUFFICES ASSUME Init PROVE TypeOK
    OBVIOUS
<1>1. /\ InitialBackoff \in InitialBackoff..MaxBackoff /\ 0 \in 0..MaxBackoff
      /\ 0 \in 0..Cap /\ Poll \in 0..Poll
  BY Times DEF Cap
<1>2. 0 \in Slots /\ [s \in Slots |-> "none"] \in [Slots -> Live \cup {"none", "reported"}]
  BY DEF Slots
<1> QED
  BY <1>1, <1>2 DEF Init, TypeOK

(* What a helper computes stays in range.                                  *)
LEMMA Ranges ==
  ASSUME TypeOK, NEW v \in Vaults
  PROVE  /\ NextBackoff(v) \in InitialBackoff..MaxBackoff
         /\ Doubling(backoff[v]) \in InitialBackoff..MaxBackoff
         /\ 1 - cur[v] \in Slots
<1>1. backoff[v] \in InitialBackoff..MaxBackoff /\ cur[v] \in {0, 1}
  BY DEF TypeOK, Slots
<1>2. NextBackoff(v) \in InitialBackoff..MaxBackoff
  BY <1>1, Times DEF NextBackoff
<1>3. ASSUME NEW n \in InitialBackoff..MaxBackoff
      PROVE  Doubling(n) \in InitialBackoff..MaxBackoff
  BY Times DEF Doubling
<1>4. 1 - cur[v] \in Slots
  BY <1>1 DEF Slots
<1> QED
  BY <1>1, <1>2, <1>3, <1>4

LEMMA ReturnTypeOK ==
  ASSUME TypeOK, NEW v \in Vaults, Return(v) PROVE TypeOK'
  BY DEF TypeOK, Return, Set, processes, context, history

LEMMA TurnTypeOK ==
  ASSUME TypeOK, NEW v \in Vaults, NEW s \in Slots,
         NEW x \in Live \cup {"reported"}, Turn(v, s, x)
  PROVE  TypeOK'
  BY DEF TypeOK, Turn, supervisor, context, history

LEMMA StartTypeOK ==
  ASSUME TypeOK, NEW v \in Vaults, Start(v) PROVE TypeOK'
<1>1. 1 - cur[v] \in Slots
  BY Ranges
<1>2. child' \in [Vaults -> [Slots -> Live \cup {"none", "reported"}]]
  BY <1>1 DEF TypeOK, Start, Live
<1>3. killed' \in [Vaults -> [Slots -> BOOLEAN]]
  BY <1>1 DEF TypeOK, Start
<1>4. age' \in [Vaults -> 0..Cap] /\ toPoll' \in [Vaults -> 0..Poll]
  BY Times DEF TypeOK, Start, Set, Cap
<1>5. sync' \in [Vaults -> [running : BOOLEAN, beat : {Never} \cup 0..Cap]]
  BY DEF TypeOK, Start, Set, StartBeat
<1>6. /\ pc' = [pc EXCEPT ![v] = "select"] /\ cur' = [cur EXCEPT ![v] = 1 - cur[v]]
      /\ ticked' = [ticked EXCEPT ![v] = FALSE] /\ stale' = [stale EXCEPT ![v] = FALSE]
      /\ UNCHANGED <<backoff, left, ctxDone, exited, beatBy>>
  BY DEF Start, Set, context
<1>7. /\ pc' \in [Vaults -> {"top", "select", "reap", "returned", "sleep", "done"}]
      /\ cur' \in [Vaults -> Slots]
      /\ ticked' \in [Vaults -> BOOLEAN] /\ stale' \in [Vaults -> BOOLEAN]
  BY <1>1, <1>6 DEF TypeOK
<1>8. /\ backoff' \in [Vaults -> InitialBackoff..MaxBackoff]
      /\ left' \in [Vaults -> 0..MaxBackoff]
      /\ ctxDone' \in BOOLEAN /\ exited' \in BOOLEAN /\ beatBy' \in [Vaults -> Slots]
  BY <1>6 DEF TypeOK
<1> QED
  BY <1>2, <1>3, <1>4, <1>5, <1>7, <1>8 DEF TypeOK

LEMMA SleepTypeOK ==
  ASSUME TypeOK, NEW v \in Vaults, Sleep(v) PROVE TypeOK'
<1>1. NextBackoff(v) \in InitialBackoff..MaxBackoff /\ NextBackoff(v) \in 0..MaxBackoff
  BY Ranges, Times
<1>2. /\ UNCHANGED <<age, toPoll, ticked, sync, child, killed, cur, ctxDone,
                     exited, beatBy, stale>>
      /\ pc' \in [Vaults -> {"top", "select", "reap", "returned", "sleep", "done"}]
  BY DEF TypeOK, Sleep, Set, processes, context, history
<1>3. /\ backoff' \in [Vaults -> InitialBackoff..MaxBackoff]
      /\ left' \in [Vaults -> 0..MaxBackoff]
  BY <1>1 DEF TypeOK, Sleep, Set
<1> QED
  BY <1>2, <1>3 DEF TypeOK

LEMMA WakeTypeOK ==
  ASSUME TypeOK, NEW v \in Vaults, Wake(v) PROVE TypeOK'
<1>1. Doubling(backoff[v]) \in InitialBackoff..MaxBackoff /\ 0 \in 0..MaxBackoff
  BY Ranges, Times
<1> QED
  BY <1>1 DEF TypeOK, Wake, Set, processes, context, history

LEMMA TickTypeOK == ASSUME TypeOK, Tick PROVE TypeOK'
<1>1. ASSUME NEW n \in 0..Cap PROVE Older(n) \in 0..Cap
  BY Times DEF Older, Cap
<1>2. ASSUME NEW n \in 0..MaxBackoff PROVE Sooner(n) \in 0..MaxBackoff
  BY Times DEF Sooner
<1>3. ASSUME NEW n \in 0..Poll
      PROVE  (IF n > 1 THEN n - 1 ELSE Poll) \in 0..Poll
  BY Times
<1>4. age' \in [Vaults -> 0..Cap]
  BY <1>1 DEF TypeOK, Tick
<1>5. left' \in [Vaults -> 0..MaxBackoff]
  BY <1>2 DEF TypeOK, Tick
<1>6. toPoll' \in [Vaults -> 0..Poll] /\ ticked' \in [Vaults -> BOOLEAN]
  BY <1>3 DEF TypeOK, Tick
<1>7. sync' \in [Vaults -> [running : BOOLEAN, beat : {Never} \cup 0..Cap]]
  BY <1>1 DEF TypeOK, Tick
<1> QED
  BY <1>4, <1>5, <1>6, <1>7 DEF TypeOK, Tick, processes, context, history

LEMMA NextTypeOK == TypeOK /\ [Next]_vars => TypeOK'
<1> SUFFICES ASSUME TypeOK, [Next]_vars PROVE TypeOK'
    OBVIOUS
<1>1. ASSUME NEW v \in Vaults, Stop(v) PROVE TypeOK'
  BY <1>1 DEF TypeOK, Stop, Set, processes, context, history
<1>2. ASSUME NEW v \in Vaults, Exited(v) \/ Reap(v) PROVE TypeOK'
  <2>1. Return(v)
    BY <1>2 DEF Exited, Reap
  <2> QED
    BY <2>1, ReturnTypeOK
<1>3. ASSUME NEW v \in Vaults, Watch(v) PROVE TypeOK'
  <2>1. CASE SyncStale(v)
    <3>1. killed' \in [Vaults -> [Slots -> BOOLEAN]]
      <4>1. Kill(v)
        BY <1>3, <2>1 DEF Watch
      <4> QED
        BY <4>1 DEF TypeOK, Kill
    <3>2. /\ pc' = [pc EXCEPT ![v] = "reap"] /\ stale' = [stale EXCEPT ![v] = TRUE]
          /\ ticked' = [ticked EXCEPT ![v] = FALSE]
          /\ UNCHANGED <<backoff, left, age, toPoll, sync, child, cur, ctxDone,
                         exited, beatBy>>
      BY <1>3, <2>1 DEF Watch, Set, context
    <3> QED
      BY <3>1, <3>2 DEF TypeOK
  <2>2. CASE ~SyncStale(v)
    BY <1>3, <2>2 DEF TypeOK, Watch, Set, context
  <2> QED
    BY <2>1, <2>2
<1>4. ASSUME NEW v \in Vaults, Abort(v) PROVE TypeOK'
  BY <1>4 DEF TypeOK, Abort, Kill, Set, context, history
<1>5. ASSUME NEW v \in Vaults, NEW s \in Slots,
             Launch(v, s) \/ Die(v, s) \/ RunReturns(v, s)
      PROVE  TypeOK'
  <2>1. PICK x \in Live \cup {"reported"} : Turn(v, s, x)
    BY <1>5 DEF Launch, Die, RunReturns, Live
  <2> QED
    BY <2>1, TurnTypeOK
<1>6. ASSUME NEW v \in Vaults, NEW s \in Slots, Beat(v, s) PROVE TypeOK'
  <2>1. 0 \in 0..Cap
    BY Times DEF Cap
  <2> QED
    BY <1>6, <2>1 DEF TypeOK, Beat, Set, supervisor, processes, context
<1>7. CASE Cancel \/ Exit
  BY <1>7 DEF TypeOK, Cancel, Exit, supervisor, processes, history
<1>8. CASE UNCHANGED vars
  BY <1>8 DEF TypeOK, vars, supervisor, processes, context, history
<1> QED
  BY <1>1, <1>2, <1>3, <1>4, <1>5, <1>6, <1>7, <1>8, StartTypeOK, SleepTypeOK,
     WakeTypeOK, TickTypeOK DEF Next, Supervise, Process

(* Every reachable state is well typed; in particular a backoff never      *)
(* leaves the range from InitialBackoff to MaxBackoff.                     *)
THEOREM TypeCorrect == Spec => []TypeOK
BY InitTypeOK, NextTypeOK, PTL DEF Spec

(* What makes the properties below inductive: the slot of the run before   *)
(* the current one holds nothing alive, the current one does only while    *)
(* runContinuousSync waits for it, and health.go's record is that run's.   *)
VaultInv(v) ==
    /\ child[v][1 - cur[v]] \notin Live
    /\ sync[v].running <=> pc[v] \in {"select", "reap"}
    /\ ~sync[v].running => child[v][cur[v]] \notin Live
    /\ sync[v].running => child[v][cur[v]] # "none"
    /\ sync[v].running /\ sync[v].beat # Never
           => /\ beatBy[v] = cur[v]
              /\ child[v][cur[v]] # "starting"
              /\ sync[v].beat <= age[v]
    /\ stale[v] => /\ pc[v] # "select"
                   /\ pc[v] \in {"reap", "returned"} => age[v] >= StableRun
                   /\ pc[v] = "sleep" => left[v] <= InitialBackoff

Inv == TypeOK /\ \A v \in Vaults : VaultInv(v)

LEMMA InitInv == Init => Inv
<1> SUFFICES ASSUME Init PROVE Inv
    OBVIOUS
<1>1. ASSUME NEW v \in Vaults PROVE VaultInv(v)
  BY DEF Init, VaultInv, Slots, Live, Never
<1> QED
  BY <1>1, InitTypeOK DEF Inv

(* A step of one vault's supervisor or child leaves the others as they are. *)
Same(w) == /\ pc'[w] = pc[w] /\ left'[w] = left[w] /\ age'[w] = age[w]
           /\ sync'[w] = sync[w] /\ child'[w] = child[w] /\ cur'[w] = cur[w]
           /\ beatBy'[w] = beatBy[w] /\ stale'[w] = stale[w]

LEMMA SameInv ==
  ASSUME NEW w \in Vaults, VaultInv(w), Same(w) PROVE VaultInv(w)'
  BY DEF VaultInv, Same

LEMMA StepSame ==
  ASSUME TypeOK, NEW v \in Vaults, NEW w \in Vaults, v # w,
         Supervise(v) \/ \E s \in Slots : Process(v, s) \/ Die(v, s)
  PROVE  Same(w)
<1>1. ASSUME Stop(v) \/ Start(v) PROVE Same(w)
  BY <1>1 DEF TypeOK, Stop, Start, Same, Set, processes, history
<1>2. ASSUME Exited(v) \/ Reap(v) PROVE Same(w)
  BY <1>2 DEF TypeOK, Exited, Reap, Return, Same, Set, processes, history
<1>3. ASSUME Watch(v) PROVE Same(w)
  BY <1>3 DEF TypeOK, Watch, Same, Set
<1>4. ASSUME Abort(v) PROVE Same(w)
  BY <1>4 DEF TypeOK, Abort, Same, Set, history
<1>5. ASSUME Sleep(v) \/ Wake(v) PROVE Same(w)
  BY <1>5 DEF TypeOK, Sleep, Wake, Same, Set, processes, history
<1>6. ASSUME NEW s \in Slots, Launch(v, s) \/ Die(v, s) \/ RunReturns(v, s)
      PROVE  Same(w)
  <2>1. PICK x : Turn(v, s, x)
    BY <1>6 DEF Launch, Die, RunReturns
  <2> QED
    BY <2>1 DEF TypeOK, Turn, Same, supervisor, history
<1>7. ASSUME NEW s \in Slots, Beat(v, s) PROVE Same(w)
  BY <1>7 DEF TypeOK, Beat, Same, Set, supervisor, processes
<1> QED
  BY <1>1, <1>2, <1>3, <1>4, <1>5, <1>6, <1>7 DEF Supervise, Process

LEMMA SuperviseInv ==
  ASSUME TypeOK, NEW v \in Vaults, VaultInv(v), Supervise(v)
  PROVE  VaultInv(v)'
<1> USE DEF VaultInv
<1>1. cur[v] \in {0, 1} /\ 1 - cur[v] \in {0, 1} /\ 1 - (1 - cur[v]) = cur[v]
  BY DEF TypeOK, Slots
<1>2. CASE Stop(v)
  BY <1>2 DEF TypeOK, Stop, Set, processes, history
<1>3. CASE Start(v)
  <2>1. /\ pc'[v] = "select" /\ sync'[v] = [running |-> TRUE, beat |-> Never]
        /\ cur'[v] = 1 - cur[v] /\ ~stale'[v]
    BY <1>3 DEF TypeOK, Start, StartBeat, Set
  <2>2. child'[v][1 - cur[v]] = "starting" /\ child'[v][cur[v]] = child[v][cur[v]]
    BY <1>1, <1>3 DEF TypeOK, Start, Slots
  <2>3. child[v][cur[v]] \notin Live
    BY <1>3 DEF Start
  <2> QED
    BY <1>1, <2>1, <2>2, <2>3 DEF Live
<1>4. CASE Exited(v) \/ Reap(v)
  <2>1. /\ pc'[v] = "returned" /\ ~sync'[v].running
        /\ UNCHANGED <<age, child, cur, stale>>
    BY <1>4 DEF TypeOK, Exited, Reap, Return, Set, processes, history
  <2>2. child[v][cur[v]] = "reported" /\ pc[v] \in {"select", "reap"}
    BY <1>4 DEF Exited, Reap, Reported, Awaited
  <2> QED
    BY <2>1, <2>2 DEF Live
<1>5. CASE Watch(v)
  <2>1. CASE SyncStale(v)
    <3>1. /\ pc[v] = "select" /\ pc'[v] = "reap" /\ stale'[v]
          /\ UNCHANGED <<age, sync, child, cur, beatBy>>
      BY <1>5, <2>1 DEF TypeOK, Watch, Set
    <3>2. age[v] > WatchdogAfter
      <4>1. /\ sync[v].running /\ (sync[v].beat # Never => sync[v].beat <= age[v])
            /\ age[v] \in Int /\ sync[v].beat \in Int /\ WatchdogAfter \in Int
        BY <3>1, Times DEF TypeOK, Cap, Never
      <4> QED
        BY <2>1, <4>1 DEF SyncStale
    <3>3. age[v] >= StableRun
      BY <3>2, Times DEF TypeOK, Cap
    <3> QED
      BY <3>1, <3>3
  <2>2. CASE ~SyncStale(v)
    BY <1>5, <2>2 DEF Watch
  <2> QED
    BY <2>1, <2>2
<1>6. CASE Abort(v)
  <2>1. /\ pc[v] = "select" /\ pc'[v] = "reap"
        /\ UNCHANGED <<age, sync, child, cur, beatBy, stale>>
    BY <1>6 DEF TypeOK, Abort, Set, history
  <2> QED
    BY <2>1
<1>7. CASE Sleep(v)
  <2>1. UNCHANGED <<age, sync, child, cur, beatBy, stale>> /\ pc[v] = "returned"
    BY <1>7 DEF Sleep, processes, history
  <2>2. CASE pc'[v] = "done"
    BY <2>1, <2>2
  <2>3. CASE pc'[v] = "sleep" /\ left'[v] = NextBackoff(v)
    <3>1. stale[v] => left'[v] = InitialBackoff
      BY <2>1, <2>3 DEF NextBackoff
    <3> QED
      BY <2>1, <2>3, <3>1, Times
  <2> QED
    BY <1>7, <2>2, <2>3 DEF TypeOK, Sleep, Set
<1>8. CASE Wake(v)
  <2>1. /\ pc[v] = "sleep" /\ pc'[v] = "top"
        /\ UNCHANGED <<age, sync, child, cur, beatBy, stale>>
    BY <1>8 DEF TypeOK, Wake, Set, processes, context, history
  <2> QED
    BY <2>1
<1> QED
  BY <1>2, <1>3, <1>4, <1>5, <1>6, <1>7, <1>8 DEF Supervise

LEMMA ProcessInv ==
  ASSUME TypeOK, NEW v \in Vaults, VaultInv(v), NEW s \in Slots,
         Process(v, s) \/ Die(v, s)
  PROVE  VaultInv(v)'
<1> USE DEF VaultInv
<1>1. cur[v] \in Slots /\ 1 - cur[v] \in Slots /\ (s = cur[v] \/ s = 1 - cur[v])
  BY DEF TypeOK, Slots
<1>2. child[v][s] \in Live => s = cur[v] /\ sync[v].running
  BY <1>1
<1>3. CASE Launch(v, s) \/ Die(v, s) \/ RunReturns(v, s)
  <2>1. child[v][s] \in Live /\ s = cur[v] /\ s # 1 - cur[v] /\ sync[v].running
    BY <1>2, <1>1, <1>3 DEF Launch, Die, RunReturns, Live, Slots
  <2>2. PICK x \in {"alive", "draining", "reported"} : Turn(v, s, x)
    BY <1>3 DEF Launch, Die, RunReturns
  <2>3. child'[v][cur[v]] = x /\ child'[v][1 - cur[v]] = child[v][1 - cur[v]]
    BY <1>1, <2>1, <2>2 DEF TypeOK, Turn
  <2>4. UNCHANGED <<pc, left, age, sync, cur, beatBy, stale>>
    BY <2>2 DEF Turn, supervisor, history
  <2> QED
    BY <2>1, <2>3, <2>4
<1>4. CASE Beat(v, s)
  <2>1. child[v][s] \in Live /\ s = cur[v] /\ sync[v].running /\ child[v][s] # "starting"
    BY <1>2, <1>4 DEF Beat, Live
  <2>2. /\ sync'[v] = [sync[v] EXCEPT !.beat = 0] /\ beatBy'[v] = s
        /\ UNCHANGED <<pc, left, age, child, cur, stale>>
    BY <1>4 DEF TypeOK, Beat, Set, supervisor, processes
  <2>3. sync'[v].running = sync[v].running /\ sync'[v].beat = 0 /\ age[v] >= 0
    BY <2>2 DEF TypeOK, Cap
  <2> QED
    BY <2>1, <2>2, <2>3
<1> QED
  BY <1>3, <1>4 DEF Process

LEMMA TickInv ==
  ASSUME TypeOK, NEW v \in Vaults, VaultInv(v), Tick PROVE VaultInv(v)'
<1> DEFINE b == sync[v].beat
<1>1. age'[v] = Older(age[v]) /\ left'[v] = Sooner(left[v])
  BY DEF TypeOK, Tick
<1>2. /\ sync'[v].running = sync[v].running
      /\ sync'[v].beat = IF b = Never THEN Never ELSE Older(b)
  BY DEF TypeOK, Tick
<1>3. UNCHANGED <<pc, child, cur, beatBy, stale>>
  BY DEF Tick, processes, history
<1>4. b # Never /\ b <= age[v] => Older(b) <= Older(age[v])
  BY Times DEF TypeOK, Older, Cap
<1>5. age[v] >= StableRun => Older(age[v]) >= StableRun
  BY Times DEF TypeOK, Older, Cap
<1>6. left[v] <= InitialBackoff => Sooner(left[v]) <= InitialBackoff
  BY Times DEF TypeOK, Sooner
<1> QED
  BY <1>1, <1>2, <1>3, <1>4, <1>5, <1>6 DEF VaultInv

LEMMA NextInv == Inv /\ [Next]_vars => Inv'
<1> SUFFICES ASSUME Inv, [Next]_vars PROVE Inv'
    OBVIOUS
<1>1. TypeOK /\ TypeOK'
  BY NextTypeOK DEF Inv
<1>2. ASSUME NEW w \in Vaults PROVE VaultInv(w)'
  <2>1. VaultInv(w)
    BY DEF Inv
  <2>2. ASSUME NEW v \in Vaults, Supervise(v) \/ \E s \in Slots : Process(v, s) \/ Die(v, s)
        PROVE  VaultInv(w)'
    BY <1>1, <2>1, <2>2, StepSame, SameInv, SuperviseInv, ProcessInv
  <2>3. CASE Tick
    BY <1>1, <2>1, <2>3, TickInv
  <2>4. CASE Cancel \/ Exit \/ UNCHANGED vars
    <3>1. Same(w)
      BY <2>4 DEF Same, Cancel, Exit, vars, supervisor, processes, history
    <3> QED
      BY <2>1, <3>1, SameInv
  <2> QED
    BY <2>2, <2>3, <2>4 DEF Next
<1> QED
  BY <1>1, <1>2 DEF Inv

THEOREM InvHolds == Spec => []Inv
BY InitInv, NextInv, PTL DEF Spec

(* The supervisor never runs two children on one vault's copy, whatever    *)
(* ended the last one and however late its output is read.                 *)
THEOREM NeverTwoChildren == Spec => []OneChild
<1>1. Inv => OneChild
  <2> SUFFICES ASSUME Inv, NEW v \in Vaults
               PROVE  Cardinality({s \in Slots : child[v][s] \in Live}) <= 1
      BY DEF OneChild
  <2>1. {s \in Slots : child[v][s] \in Live} \subseteq {cur[v]}
    BY DEF Inv, VaultInv, TypeOK, Slots
  <2>2. IsFiniteSet({cur[v]}) /\ Cardinality({cur[v]}) = 1
    BY FS_Singleton
  <2> QED
    BY <2>1, <2>2, FS_Subset
<1> QED
  BY <1>1, InvHolds, PTL

(* /readyz answers 200 only on a heartbeat of each vault's current child.  *)
THEOREM ReadyMeansCurrent == Spec => []ReadyIsCurrent
<1>1. Inv => ReadyIsCurrent
  BY DEF Inv, VaultInv, TypeOK, Slots, Live, ReadyIsCurrent, SyncReady
<1> QED
  BY <1>1, InvHolds, PTL

(* A child that the watchdog ended is replaced after the initial backoff.  *)
THEOREM StaleIsRestartedSoon == Spec => []StaleRestartsSoon
<1>1. Inv => StaleRestartsSoon
  BY DEF Inv, VaultInv, StaleRestartsSoon
<1> QED
  BY <1>1, InvHolds, PTL
=============================================================================
