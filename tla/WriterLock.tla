----------------------------- MODULE WriterLock -----------------------------
(***************************************************************************)
(* with_write_transaction_retry (src/src/index/db.rs): how a zg process    *)
(* comes by the one writer lock of a root, and when it gives up.           *)
(*                                                                         *)
(* BEGIN IMMEDIATE polls for 3 s (busy_timeout); when it fails the process *)
(* sleeps and tries again, until 900 s have gone since it began.  The      *)
(* holder computes embeddings, which may take longer than that.  A commit  *)
(* or a statement that is refused as busy is rolled back and the whole     *)
(* body runs again.                                                        *)
(*                                                                         *)
(* Time is counted in units in which SQLite polls at least once; a timer   *)
(* that has run out is served before the next tick.  Only durations are    *)
(* kept, so that a run need not end.                                       *)
(***************************************************************************)
EXTENDS Integers

CONSTANTS
  Proc,       \* zg processes of one root
  NoProc,     \* nobody holds the lock
  Budget,     \* WRITE_TX_MAX_WAIT
  BusyWait,   \* busy_timeout
  Doublings,  \* the back-off doubles so often
  Backoff,    \* the back-off of each attempt
  MaxHold,    \* bound: the longest transaction
  MaxFaults   \* bound: transactions refused or failed, processes killed

ASSUME WriterLockAssumption ==
  /\ NoProc \notin Proc
  /\ Budget \in Nat /\ BusyWait \in Nat \ {0} /\ Doublings \in Nat
  /\ Backoff \in [0..Doublings -> Nat \ {0}]
  /\ MaxHold \in Nat \ {0} /\ MaxFaults \in Nat

VARIABLES
  pc,       \* where each process is in the loop
  holder,   \* who holds the lock
  hold,     \* for how long
  elapsed,  \* started_at.elapsed()
  attempt,  \* attempts so far, as far as the back-off tells them apart
  wait,     \* what is left of the current wait
  pending,  \* times the body's writes are in the open transaction
  applied,  \* times they have been committed since the call began
  waited,   \* history: time spent without the lock since the call began
  faults    \* faults so far

vars == <<pc, holder, hold, elapsed, attempt, wait, pending, applied, waited, faults>>

Ended == {"idle", "done", "exhausted", "error"}
Calls == {"begin", "wait", "work", "retry", "sleep"}

Least(a, b) == IF a < b THEN a ELSE b

\* 200 ms doubled with each attempt, at most five times and up to 5 s.
Schedule(first, cap) == [k \in 0..Doublings |-> Least(first * 2^k, cap)]

Goto(z, label) == pc' = [pc EXCEPT ![z] = label]

Init ==
  /\ pc = [z \in Proc |-> "idle"]
  /\ holder = NoProc /\ hold = 0 /\ faults = 0
  /\ elapsed = [z \in Proc |-> 0] /\ attempt = [z \in Proc |-> 0]
  /\ wait = [z \in Proc |-> 0] /\ waited = [z \in Proc |-> 0]
  /\ pending = [z \in Proc |-> 0] /\ applied = [z \in Proc |-> 0]

\* A command calls with_write_transaction_retry.
Call(z) ==
  /\ pc[z] \in Ended
  /\ Goto(z, "begin")
  /\ elapsed' = [elapsed EXCEPT ![z] = 0]
  /\ attempt' = [attempt EXCEPT ![z] = 0]
  /\ applied' = [applied EXCEPT ![z] = 0]
  /\ waited' = [waited EXCEPT ![z] = 0]
  /\ UNCHANGED <<holder, hold, wait, pending, faults>>

\* Mutation of Take: BEGIN DEFERRED, which takes no lock.
TakeDeferred(z) ==
  /\ Goto(z, "work")
  /\ pending' = [pending EXCEPT ![z] = @ + 1]
  /\ wait' = [wait EXCEPT ![z] = 0]
  /\ UNCHANGED <<holder, hold, elapsed, attempt, applied, waited, faults>>

\* The lock is taken and the body of the transaction runs.
Take(z) ==
  /\ holder = NoProc
  /\ holder' = z /\ hold' = 0
  /\ Goto(z, "work")
  /\ pending' = [pending EXCEPT ![z] = @ + 1]
  /\ wait' = [wait EXCEPT ![z] = 0]
  /\ UNCHANGED <<elapsed, attempt, applied, waited, faults>>

\* BEGIN IMMEDIATE finds the lock taken and starts to poll.
Queue(z) ==
  /\ pc[z] = "begin" /\ holder # NoProc
  /\ Goto(z, "wait")
  /\ wait' = [wait EXCEPT ![z] = BusyWait]
  /\ UNCHANGED <<holder, hold, elapsed, attempt, pending, applied, waited, faults>>

\* The lock is free, at once or at a poll.
Begin(z) == pc[z] \in {"begin", "wait"} /\ Take(z)

\* The last poll found the lock taken; it may be free again by now.
Refused(z) ==
  /\ pc[z] = "wait" /\ wait[z] = 0
  /\ Goto(z, "retry")
  /\ UNCHANGED <<holder, hold, elapsed, attempt, wait, pending, applied, waited, faults>>

Commit(z) ==
  /\ pc[z] = "work" /\ hold > 0
  /\ holder' = NoProc /\ hold' = 0
  /\ applied' = [applied EXCEPT ![z] = @ + pending[z]]
  /\ pending' = [pending EXCEPT ![z] = 0]
  /\ Goto(z, "done")
  /\ UNCHANGED <<elapsed, attempt, wait, waited, faults>>

\* Mutation of RollBack: the writes stay in the transaction.
RollBackLock(z) ==
  /\ holder' = NoProc /\ hold' = 0
  /\ faults < MaxFaults /\ faults' = faults + 1
  /\ UNCHANGED <<elapsed, attempt, wait, pending, applied, waited>>

\* The transaction is dropped.
RollBack(z) ==
  /\ holder' = NoProc /\ hold' = 0
  /\ faults < MaxFaults /\ faults' = faults + 1
  /\ pending' = [pending EXCEPT ![z] = 0]
  /\ UNCHANGED <<elapsed, attempt, wait, applied, waited>>

\* The commit, or a statement of the body, is refused as busy or locked.
Busy(z) == pc[z] = "work" /\ RollBack(z) /\ Goto(z, "retry")

\* Any other error of the body, such as the embedder's.
BodyFails(z) == pc[z] = "work" /\ RollBack(z) /\ Goto(z, "error")

\* Mutation of OutOfTime: the last attempt is not made.
OutOfTimeInclusive(z) == elapsed[z] >= Budget

\* retry_delay, first line: no time is left.
OutOfTime(z) == elapsed[z] > Budget

\* Mutation of Delay: not cut to what is left.
DelayUncut(z) == Backoff[attempt[z]]

\* retry_delay
Delay(z) == Least(Backoff[attempt[z]], Budget - elapsed[z])

Sleep(z) ==
  /\ pc[z] = "retry" /\ ~OutOfTime(z)
  /\ Goto(z, "sleep")
  /\ wait' = [wait EXCEPT ![z] = Delay(z)]
  /\ attempt' = [attempt EXCEPT ![z] = Least(@ + 1, Doublings)]
  /\ UNCHANGED <<holder, hold, elapsed, pending, applied, waited, faults>>

\* write_lock_retry_exhausted
GiveUp(z) ==
  /\ pc[z] = "retry" /\ OutOfTime(z)
  /\ Goto(z, "exhausted")
  /\ UNCHANGED <<holder, hold, elapsed, attempt, wait, pending, applied, waited, faults>>

\* Mutation of Wake: started_at is taken anew at every attempt.
WakeRestarts(z) ==
  /\ pc[z] = "sleep" /\ wait[z] = 0
  /\ Goto(z, "begin")
  /\ elapsed' = [elapsed EXCEPT ![z] = 0]
  /\ UNCHANGED <<holder, hold, attempt, wait, pending, applied, waited, faults>>

Wake(z) ==
  /\ pc[z] = "sleep" /\ wait[z] = 0
  /\ Goto(z, "begin")
  /\ UNCHANGED <<holder, hold, elapsed, attempt, wait, pending, applied, waited, faults>>

\* The process is killed; SQLite drops its transaction.
Kill(z) ==
  /\ pc[z] \in Calls /\ faults < MaxFaults
  /\ faults' = faults + 1
  /\ holder' = IF holder = z THEN NoProc ELSE holder
  /\ hold' = IF holder = z THEN 0 ELSE hold
  /\ pending' = [pending EXCEPT ![z] = 0]
  /\ wait' = [wait EXCEPT ![z] = 0]
  /\ Goto(z, "idle")
  /\ UNCHANGED <<elapsed, attempt, applied, waited>>

\* Something is due before time goes on.
Due(z) ==
  \/ pc[z] \in {"begin", "retry"}
  \/ pc[z] = "sleep" /\ wait[z] = 0
  \/ pc[z] = "wait" /\ (wait[z] = 0 \/ holder = NoProc)

Waiting(z) == pc[z] \in {"wait", "sleep"}

\* Bound: the clocks stop here; no call lasts so long.
Horizon == Budget + BusyWait + MaxHold + 1

Later(t) == Least(t + 1, Horizon)

Tick ==
  /\ \A z \in Proc : ~Due(z)
  /\ \E z \in Proc : pc[z] \in Calls
  /\ hold < MaxHold
  /\ hold' = IF holder = NoProc THEN 0 ELSE hold + 1
  /\ elapsed' = [z \in Proc |-> IF pc[z] \in Calls THEN Later(elapsed[z]) ELSE elapsed[z]]
  /\ wait' = [z \in Proc |-> IF Waiting(z) THEN wait[z] - 1 ELSE wait[z]]
  /\ waited' = [z \in Proc |-> IF Waiting(z) THEN Later(waited[z]) ELSE waited[z]]
  /\ UNCHANGED <<pc, holder, attempt, pending, applied, faults>>

Go(z) ==
  Queue(z) \/ Begin(z) \/ Refused(z) \/ Commit(z) \/ Sleep(z) \/ GiveUp(z) \/ Wake(z)

Next ==
  \/ Tick
  \/ \E z \in Proc : Call(z) \/ Go(z) \/ Busy(z) \/ BodyFails(z) \/ Kill(z)

Spec == Init /\ [][Next]_vars

\* Time passes, processes run, and a transaction comes to an end; nobody has
\* to call, to fail or to be killed.
Fairness == WF_vars(Tick) /\ \A z \in Proc : WF_vars(Go(z))

FairSpec == Spec /\ Fairness

-----------------------------------------------------------------------------
(* Properties *)

\* Every variable holds a value of its type, and the holder of the lock is
\* the one process inside a transaction.
TypeOK ==
  /\ pc \in [Proc -> Ended \cup Calls]
  /\ holder \in Proc \cup {NoProc} /\ hold \in Nat /\ faults \in Nat
  /\ elapsed \in [Proc -> Nat] /\ wait \in [Proc -> Nat] /\ waited \in [Proc -> Nat]
  /\ attempt \in [Proc -> 0..Doublings]
  /\ pending \in [Proc -> Nat] /\ applied \in [Proc -> Nat]
  /\ \A z \in Proc : pc[z] = "work" <=> holder = z

\* A call that returns success has applied its writes exactly once, however
\* often the body ran; any other call has applied nothing.
AppliedOnce ==
  \A z \in Proc : pc[z] # "idle" => applied[z] = IF pc[z] = "done" THEN 1 ELSE 0

\* "Only when the budget is exceeded an error is reported", and no process is
\* kept waiting for much longer than the budget: one more BEGIN IMMEDIATE,
\* begun at the last moment, is all there is.
WaitBounded ==
  \A z \in Proc : /\ waited[z] <= Budget + BusyWait
                  /\ pc[z] = "exhausted" => elapsed[z] > Budget

\* "Within the window the second zg goes on trying": time passes the end of a
\* process's budget only while somebody else holds the lock.  Nobody gives up
\* because it slept, or was refused, when the lock was to be had.
LastChance ==
  [][\A z \in Proc :
       (elapsed[z] = Budget /\ elapsed'[z] > Budget) => holder # NoProc]_vars

\* Every call returns, unless the process is killed.
Ends == \A z \in Proc : pc[z] = "begin" ~> pc[z] \in Ended
=============================================================================
