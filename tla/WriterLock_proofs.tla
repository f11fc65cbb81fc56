-------------------------- MODULE WriterLock_proofs --------------------------
(***************************************************************************)
(* Proofs about WriterLock, for any number of processes, any budget and    *)
(* busy timeout, any back-off and any length of a transaction.             *)
(***************************************************************************)
EXTENDS WriterLock, TLAPS

-----------------------------------------------------------------------------
(* The inductive invariant *)

\* What each place in the loop says of the clocks: an attempt begins, and a
\* sleep ends, within the budget; a poll may outlast it by BusyWait.  Time
\* without the lock is time since the call began.
Windows(z) ==
  /\ pc[z] = "begin" => elapsed[z] <= Budget
  /\ pc[z] = "sleep" => elapsed[z] + wait[z] <= Budget
  /\ pc[z] = "wait" => elapsed[z] + wait[z] <= Budget + BusyWait
  /\ pc[z] = "exhausted" => elapsed[z] > Budget
  /\ waited[z] <= elapsed[z] /\ elapsed[z] <= Horizon
  /\ waited[z] <= Budget + BusyWait

\* The writes of the body are in the transaction once, and only while it is
\* open; they are applied once, and only by a call that succeeds.
Writes(z) ==
  /\ pending[z] = IF pc[z] = "work" THEN 1 ELSE 0
  /\ applied[z] = IF pc[z] = "done" THEN 1 ELSE 0

IInv ==
  /\ TypeOK
  /\ \A z \in Proc : Windows(z)
  /\ \A z \in Proc : Writes(z)

-----------------------------------------------------------------------------
(* Arithmetic *)

LEMMA LeastOfTwo ==
  ASSUME NEW a \in Int, NEW b \in Int
  PROVE  /\ Least(a, b) \in {a, b}
         /\ Least(a, b) <= a /\ Least(a, b) <= b
BY DEF Least

\* A back-off fits into what is left of the budget.
LEMMA DelayFits ==
  ASSUME TypeOK, NEW z \in Proc, ~OutOfTime(z)
  PROVE  Delay(z) \in Nat /\ elapsed[z] + Delay(z) <= Budget
<1>1. Backoff[attempt[z]] \in Nat \ {0} /\ elapsed[z] \in Nat /\ Budget \in Nat
  BY WriterLockAssumption DEF TypeOK
<1>2. elapsed[z] <= Budget
  BY <1>1 DEF OutOfTime
<1> QED BY <1>1, <1>2, LeastOfTwo DEF Delay

\* The clocks go on by one, or stay where they stop.
LEMMA LaterClocks ==
  /\ Horizon \in Nat
  /\ \A t \in Nat : Later(t) <= Horizon /\ (t <= Horizon => t <= Later(t))
  /\ \A t \in Nat : Later(t) \in Nat /\ Later(t) <= t + 1
  /\ \A s, t \in Nat : s <= t => Later(s) <= Later(t)
BY WriterLockAssumption DEF Later, Horizon, Least

-----------------------------------------------------------------------------
(* The steps *)

LEMMA InitIInv == Init => IInv
BY WriterLockAssumption, LaterClocks
DEF Init, IInv, TypeOK, Windows, Writes, Ended, Calls

\* The values of one process.
Of(z) == <<pc[z], elapsed[z], wait[z], waited[z], pending[z], applied[z]>>

\* A process that a step leaves alone keeps its windows and its writes.
LEMMA LeftAlone ==
  ASSUME NEW z \in Proc, Windows(z), Writes(z), Of(z)' = Of(z)
  PROVE  Windows(z)' /\ Writes(z)'
BY DEF Windows, Writes, Of

\* So that a step of z is right when it is right for z.
LEMMA StepOf ==
  ASSUME IInv, NEW z \in Proc, TypeOK', Windows(z)', Writes(z)',
         \A y \in Proc \ {z} : Of(y)' = Of(y)
  PROVE  IInv'
BY LeftAlone DEF IInv

\* A call begins: its clocks are at 0.
LEMMA CallIInv ==
  ASSUME IInv, NEW z \in Proc, Call(z) PROVE IInv'
<1>1. TypeOK'
  BY WriterLockAssumption DEF IInv, TypeOK, Call, Goto, Ended, Calls
<1>2. Windows(z)'
  BY WriterLockAssumption, LaterClocks DEF IInv, TypeOK, Windows, Call, Goto
<1>3. Writes(z)'
  BY DEF IInv, TypeOK, Writes, Call, Goto, Ended, Calls
<1>4. ASSUME NEW y \in Proc \ {z} PROVE Of(y)' = Of(y)
  BY <1>4 DEF IInv, TypeOK, Of, Call, Goto
<1> QED BY <1>1, <1>2, <1>3, <1>4, StepOf

\* A poll begins within the budget, so it ends within BusyWait of it.
LEMMA QueueIInv ==
  ASSUME IInv, NEW z \in Proc, Queue(z) PROVE IInv'
<1>1. TypeOK'
  BY WriterLockAssumption DEF IInv, TypeOK, Queue, Goto, Ended, Calls
<1>2. Windows(z)'
  <2>1. /\ pc'[z] = "wait" /\ wait'[z] = BusyWait
        /\ elapsed' = elapsed /\ waited' = waited /\ elapsed[z] <= Budget
    BY DEF IInv, TypeOK, Windows, Queue, Goto
  <2> QED BY <2>1, WriterLockAssumption DEF IInv, TypeOK, Windows
<1>3. Writes(z)'
  BY DEF IInv, TypeOK, Writes, Queue, Goto, Ended, Calls
<1>4. ASSUME NEW y \in Proc \ {z} PROVE Of(y)' = Of(y)
  BY <1>4 DEF IInv, TypeOK, Of, Queue, Goto
<1> QED BY <1>1, <1>2, <1>3, <1>4, StepOf

\* The lock goes to a process with no open transaction.
LEMMA BeginIInv ==
  ASSUME IInv, NEW z \in Proc, Begin(z) PROVE IInv'
<1>1. TypeOK'
  BY WriterLockAssumption DEF IInv, TypeOK, Begin, Take, Goto, Ended, Calls
<1>2. Windows(z)'
  BY WriterLockAssumption, LaterClocks DEF IInv, TypeOK, Windows, Begin, Take, Goto
<1>3. Writes(z)'
  BY DEF IInv, TypeOK, Writes, Begin, Take, Goto, Ended, Calls
<1>4. ASSUME NEW y \in Proc \ {z} PROVE Of(y)' = Of(y)
  BY <1>4 DEF IInv, TypeOK, Of, Begin, Take, Goto
<1> QED BY <1>1, <1>2, <1>3, <1>4, StepOf

\* A poll that ends in vain leaves everything else as it was.
LEMMA RefusedIInv ==
  ASSUME IInv, NEW z \in Proc, Refused(z) PROVE IInv'
<1>1. TypeOK'
  BY WriterLockAssumption DEF IInv, TypeOK, Refused, Goto, Ended, Calls
<1>2. Windows(z)'
  BY WriterLockAssumption, LaterClocks DEF IInv, TypeOK, Windows, Refused, Goto
<1>3. Writes(z)'
  BY DEF IInv, TypeOK, Writes, Refused, Goto, Ended, Calls
<1>4. ASSUME NEW y \in Proc \ {z} PROVE Of(y)' = Of(y)
  BY <1>4 DEF IInv, TypeOK, Of, Refused, Goto
<1> QED BY <1>1, <1>2, <1>3, <1>4, StepOf

\* A commit applies the one copy of the writes there is.
LEMMA CommitIInv ==
  ASSUME IInv, NEW z \in Proc, Commit(z) PROVE IInv'
<1>1. TypeOK'
  BY WriterLockAssumption DEF IInv, TypeOK, Commit, Goto, Ended, Calls
<1>2. Windows(z)'
  BY WriterLockAssumption, LaterClocks DEF IInv, TypeOK, Windows, Commit, Goto
<1>3. Writes(z)'
  BY DEF IInv, TypeOK, Writes, Commit, Goto, Ended, Calls
<1>4. ASSUME NEW y \in Proc \ {z} PROVE Of(y)' = Of(y)
  BY <1>4 DEF IInv, TypeOK, Of, Commit, Goto
<1> QED BY <1>1, <1>2, <1>3, <1>4, StepOf

\* A refused transaction leaves nothing behind.
LEMMA BusyIInv ==
  ASSUME IInv, NEW z \in Proc, Busy(z) PROVE IInv'
<1>1. TypeOK'
  BY WriterLockAssumption DEF IInv, TypeOK, Busy, RollBack, Goto, Ended, Calls
<1>2. Windows(z)'
  BY WriterLockAssumption, LaterClocks DEF IInv, TypeOK, Windows, Busy, RollBack, Goto
<1>3. Writes(z)'
  BY DEF IInv, TypeOK, Writes, Busy, RollBack, Goto, Ended, Calls
<1>4. ASSUME NEW y \in Proc \ {z} PROVE Of(y)' = Of(y)
  BY <1>4 DEF IInv, TypeOK, Of, Busy, RollBack, Goto
<1> QED BY <1>1, <1>2, <1>3, <1>4, StepOf

\* So does one whose body fails.
LEMMA BodyFailsIInv ==
  ASSUME IInv, NEW z \in Proc, BodyFails(z) PROVE IInv'
<1>1. TypeOK'
  BY WriterLockAssumption DEF IInv, TypeOK, BodyFails, RollBack, Goto, Ended, Calls
<1>2. Windows(z)'
  BY WriterLockAssumption, LaterClocks DEF IInv, TypeOK, Windows, BodyFails, RollBack, Goto
<1>3. Writes(z)'
  BY DEF IInv, TypeOK, Writes, BodyFails, RollBack, Goto, Ended, Calls
<1>4. ASSUME NEW y \in Proc \ {z} PROVE Of(y)' = Of(y)
  BY <1>4 DEF IInv, TypeOK, Of, BodyFails, RollBack, Goto
<1> QED BY <1>1, <1>2, <1>3, <1>4, StepOf

\* A sleep is cut to what is left of the budget.
LEMMA SleepIInv ==
  ASSUME IInv, NEW z \in Proc, Sleep(z) PROVE IInv'
<1>0. Delay(z) \in Nat /\ elapsed[z] + Delay(z) <= Budget
  BY DelayFits DEF IInv, Sleep
<1>1. TypeOK'
  <2>1. Least(attempt[z] + 1, Doublings) \in 0..Doublings
    BY WriterLockAssumption, LeastOfTwo DEF IInv, TypeOK, Least
  <2> QED BY <1>0, <2>1 DEF IInv, TypeOK, Sleep, Goto, Ended, Calls
<1>2. Windows(z)'
  BY <1>0 DEF IInv, TypeOK, Windows, Sleep, Goto
<1>3. Writes(z)'
  BY DEF IInv, TypeOK, Writes, Sleep, Goto
<1>4. ASSUME NEW y \in Proc \ {z} PROVE Of(y)' = Of(y)
  BY <1>4 DEF IInv, TypeOK, Of, Sleep, Goto
<1> QED BY <1>1, <1>2, <1>3, <1>4, StepOf

\* Nobody gives up before the budget is used up.
LEMMA GiveUpIInv ==
  ASSUME IInv, NEW z \in Proc, GiveUp(z) PROVE IInv'
<1>1. TypeOK'
  BY WriterLockAssumption DEF IInv, TypeOK, GiveUp, OutOfTime, Goto, Ended, Calls
<1>2. Windows(z)'
  BY WriterLockAssumption, LaterClocks DEF IInv, TypeOK, Windows, GiveUp, OutOfTime, Goto
<1>3. Writes(z)'
  BY DEF IInv, TypeOK, Writes, GiveUp, OutOfTime, Goto, Ended, Calls
<1>4. ASSUME NEW y \in Proc \ {z} PROVE Of(y)' = Of(y)
  BY <1>4 DEF IInv, TypeOK, Of, GiveUp, OutOfTime, Goto
<1> QED BY <1>1, <1>2, <1>3, <1>4, StepOf

\* A sleep that is over has ended within the budget.
LEMMA WakeIInv ==
  ASSUME IInv, NEW z \in Proc, Wake(z) PROVE IInv'
<1>1. TypeOK'
  BY WriterLockAssumption DEF IInv, TypeOK, Wake, Goto, Ended, Calls
<1>2. Windows(z)'
  BY WriterLockAssumption, LaterClocks DEF IInv, TypeOK, Windows, Wake, Goto
<1>3. Writes(z)'
  BY DEF IInv, TypeOK, Writes, Wake, Goto, Ended, Calls
<1>4. ASSUME NEW y \in Proc \ {z} PROVE Of(y)' = Of(y)
  BY <1>4 DEF IInv, TypeOK, Of, Wake, Goto
<1> QED BY <1>1, <1>2, <1>3, <1>4, StepOf

\* A killed process leaves neither lock nor writes.
LEMMA KillIInv ==
  ASSUME IInv, NEW z \in Proc, Kill(z) PROVE IInv'
<1>1. TypeOK'
  <2>1. \A y \in Proc : pc'[y] = IF y = z THEN "idle" ELSE pc[y]
    BY DEF IInv, TypeOK, Kill, Goto
  <2>2. \A y \in Proc : pc'[y] = "work" <=> holder' = y
    BY <2>1, WriterLockAssumption DEF IInv, TypeOK, Kill
  <2>3. pc' \in [Proc -> Ended \cup Calls]
    BY DEF IInv, TypeOK, Kill, Goto, Ended
  <2>4. /\ holder' \in Proc \cup {NoProc} /\ hold' \in Nat /\ faults' \in Nat
        /\ pending' \in [Proc -> Nat] /\ wait' \in [Proc -> Nat]
    BY DEF IInv, TypeOK, Kill
  <2> QED BY <2>2, <2>3, <2>4 DEF IInv, TypeOK, Kill
<1>2. Windows(z)'
  BY WriterLockAssumption, LaterClocks DEF IInv, TypeOK, Windows, Kill, Goto
<1>3. Writes(z)'
  BY DEF IInv, TypeOK, Writes, Kill, Goto, Ended, Calls
<1>4. ASSUME NEW y \in Proc \ {z} PROVE Of(y)' = Of(y)
  BY <1>4 DEF IInv, TypeOK, Of, Kill, Goto
<1> QED BY <1>1, <1>2, <1>3, <1>4, StepOf

\* Time goes on: nobody is due, so whoever sleeps or polls has time left.
LEMMA TickIInv ==
  ASSUME IInv, Tick PROVE IInv'
<1>1. ASSUME NEW z \in Proc, Waiting(z) PROVE wait[z] - 1 \in Nat
  BY <1>1 DEF IInv, TypeOK, Tick, Due, Waiting
<1>2. TypeOK'
  <2>1. /\ elapsed' \in [Proc -> Nat] /\ waited' \in [Proc -> Nat]
        /\ wait' \in [Proc -> Nat] /\ hold' \in Nat
    <3>1. wait' \in [Proc -> Nat]
      BY <1>1 DEF IInv, TypeOK, Tick
    <3> QED BY <3>1, LaterClocks DEF IInv, TypeOK, Tick
  <2> QED BY <2>1 DEF IInv, TypeOK, Tick
<1>3. ASSUME NEW z \in Proc PROVE Windows(z)'
  <2>1. /\ Budget \in Nat /\ BusyWait \in Nat
        /\ elapsed[z] \in Nat /\ waited[z] \in Nat /\ wait[z] \in Nat
        /\ Windows(z)
    BY WriterLockAssumption DEF IInv, TypeOK
  <2>2. CASE Waiting(z)
    <3>1. /\ elapsed'[z] = Later(elapsed[z]) /\ waited'[z] = Later(waited[z])
          /\ wait'[z] = wait[z] - 1 /\ pc'[z] = pc[z]
      BY <2>2 DEF IInv, TypeOK, Tick, Waiting, Calls
    <3>2. /\ elapsed'[z] \in Nat /\ waited'[z] \in Nat
          /\ elapsed'[z] <= elapsed[z] + 1 /\ waited'[z] <= waited[z] + 1
          /\ waited'[z] <= elapsed'[z] /\ elapsed'[z] <= Horizon
      BY <2>1, <3>1, LaterClocks DEF Windows
    <3>3. wait[z] >= 1
      BY <1>1, <2>1, <2>2
    <3>4. CASE pc[z] = "sleep"
      BY <2>1, <3>1, <3>2, <3>3, <3>4 DEF Windows
    <3>5. CASE pc[z] = "wait"
      BY <2>1, <3>1, <3>2, <3>3, <3>5 DEF Windows
    <3> QED BY <2>2, <3>4, <3>5 DEF Waiting
  <2>3. CASE ~Waiting(z)
    <3>1. /\ waited'[z] = waited[z] /\ pc'[z] = pc[z]
          /\ elapsed'[z] = IF pc[z] \in Calls THEN Later(elapsed[z]) ELSE elapsed[z]
      BY <2>3 DEF IInv, TypeOK, Tick
    <3>2. pc[z] \notin {"begin", "retry", "sleep", "wait"}
      BY <2>3 DEF Tick, Due, Waiting
    <3>3. CASE pc[z] = "work"
      <4>1. elapsed'[z] \in Nat /\ elapsed[z] <= elapsed'[z]
        BY <2>1, <3>1, <3>3, LaterClocks DEF Windows, Calls
      <4> QED BY <2>1, <3>1, <3>3, <4>1, LaterClocks DEF Windows, Calls
    <3>4. CASE pc[z] \in Ended
      BY <2>1, <3>1, <3>4 DEF Windows, Ended, Calls
    <3> QED BY <3>2, <3>3, <3>4 DEF IInv, TypeOK, Calls
  <2> QED BY <2>2, <2>3
<1>4. ASSUME NEW z \in Proc PROVE Writes(z)'
  BY <1>4 DEF IInv, Writes, Tick
<1> QED BY <1>2, <1>3, <1>4 DEF IInv

LEMMA NextIInv == IInv /\ [Next]_vars => IInv'
<1> SUFFICES ASSUME IInv, [Next]_vars PROVE IInv'
  OBVIOUS
<1>1. CASE Tick
  BY <1>1, TickIInv
<1>2. ASSUME NEW z \in Proc, Call(z) \/ Go(z) \/ Busy(z) \/ BodyFails(z) \/ Kill(z)
      PROVE  IInv'
  BY <1>2, CallIInv, QueueIInv, BeginIInv, RefusedIInv, CommitIInv, SleepIInv,
     GiveUpIInv, WakeIInv, BusyIInv, BodyFailsIInv, KillIInv DEF Go
<1>3. CASE UNCHANGED vars
  BY <1>3 DEF vars, IInv, TypeOK, Windows, Writes
<1> QED BY <1>1, <1>2, <1>3 DEF Next

LEMMA InvariantHolds == Spec => []IInv
BY InitIInv, NextIInv, PTL DEF Spec

-----------------------------------------------------------------------------
(* Theorems *)

\* The holder of the writer lock is the one process inside a transaction, and
\* every clock and count keeps its type (with_write_transaction_retry).
THEOREM OneWriter == Spec => []TypeOK
BY InvariantHolds, PTL DEF IInv

\* A call that returns success has applied the writes of its body exactly
\* once, although the body may have run many times; one that returns an error
\* has applied none (the commit and rollback paths of
\* with_write_transaction_retry).
THEOREM WritesApplyOnce == Spec => []AppliedOnce
<1>1. IInv => AppliedOnce
  BY DEF IInv, Writes, AppliedOnce
<1> QED BY <1>1, InvariantHolds, PTL

\* A process is without the lock for at most the budget and one busy timeout,
\* and it gives up only after the budget (retry_delay).
THEOREM WaitsAreBounded == Spec => []WaitBounded
<1>1. IInv => WaitBounded
  BY DEF IInv, Windows, WaitBounded
<1> QED BY <1>1, InvariantHolds, PTL

\* The end of a process's budget passes only while somebody else holds the
\* lock: a process that could have written is never the one that gives up.
\* A sleep ends within the budget, and a poll sees a free lock at once.
THEOREM NobodyOversleeps == Spec => LastChance
<1> DEFINE Chance == \A z \in Proc :
             (elapsed[z] = Budget /\ elapsed'[z] > Budget) => holder # NoProc
<1>1. IInv /\ [Next]_vars => [Chance]_vars
  <2> SUFFICES ASSUME IInv, Next, NEW z \in Proc, elapsed[z] = Budget,
                      elapsed'[z] > Budget, holder = NoProc
               PROVE  FALSE
    BY DEF Chance
  <2>1. CASE Tick
    <3>1. elapsed[z] \in Nat /\ wait[z] \in Nat /\ Budget \in Nat /\ pc[z] \in Calls
      BY <2>1, WriterLockAssumption DEF IInv, TypeOK, Tick
    <3>2. pc[z] = "sleep" /\ wait[z] # 0
      BY <2>1, <3>1, WriterLockAssumption DEF IInv, TypeOK, Tick, Due, Calls
    <3> QED BY <3>1, <3>2 DEF IInv, Windows
  <2>2. ASSUME NEW y \in Proc, Call(y) \/ Go(y) \/ Busy(y) \/ BodyFails(y) \/ Kill(y)
        PROVE  FALSE
    <3>1. elapsed' = elapsed \/ elapsed' = [elapsed EXCEPT ![y] = 0]
      BY <2>2 DEF Call, Go, Queue, Begin, Take, Refused, Commit, Sleep, GiveUp,
                  Wake, Busy, BodyFails, RollBack, Kill
    <3>2. elapsed'[z] \in {0, elapsed[z]}
      BY <3>1 DEF IInv, TypeOK
    <3> QED BY <3>2, WriterLockAssumption DEF IInv, TypeOK
  <2> QED BY <2>1, <2>2 DEF Next
<1>2. Spec => [][Chance]_vars
  BY <1>1, InvariantHolds, PTL DEF Spec
<1> QED BY <1>2 DEF LastChance
=============================================================================
