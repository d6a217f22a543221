-------------------------------- MODULE AsyncLock --------------------------------
(***************************************************************************)
(* asyncio.Lock, the only lock of the system (JwksClient._lock).  It is    *)
(* not the repository's code: these are the operations the source uses,    *)
(* each as one atomic step between two suspension points of its caller.    *)
(*                                                                         *)
(* The lock is fair.  release() only clears the flag and wakes the first   *)
(* waiter; that waiter takes the lock when the event loop runs it.  In     *)
(* between, locked() is False although somebody waits, and a newcomer      *)
(* cannot overtake: acquire() succeeds at once only if nobody waits.       *)
(***************************************************************************)
EXTENDS Naturals, Sequences

VARIABLES
    locked,     \* what locked() returns
    waiters     \* the callers suspended in acquire(), oldest first

Init == locked = FALSE /\ waiters = <<>>

\* acquire() would return without suspending its caller.
Free == ~locked /\ waiters = <<>>

\* The event loop can run the oldest waiter and finds the lock released.
Turn(c) == ~locked /\ waiters # <<>> /\ Head(waiters) = c

AcquireNow == /\ Free
              /\ locked' = TRUE
              /\ UNCHANGED waiters

Wait(c) == /\ ~Free
           /\ waiters' = Append(waiters, c)
           /\ UNCHANGED locked

AcquireInTurn(c) == /\ Turn(c)
                    /\ locked' = TRUE
                    /\ waiters' = Tail(waiters)

\* The waiter takes the lock and releases it again before it suspends.
PassTurn(c) == /\ Turn(c)
               /\ waiters' = Tail(waiters)
               /\ UNCHANGED locked

Release == /\ locked
           /\ locked' = FALSE
           /\ UNCHANGED waiters

\* A waiter is cancelled; if it had been woken, it wakes the next one.
Leave(c) == /\ \E i \in DOMAIN waiters :
                  /\ waiters[i] = c
                  /\ waiters' = SubSeq(waiters, 1, i - 1)
                                    \o SubSeq(waiters, i + 1, Len(waiters))
            /\ UNCHANGED locked

=============================================================================
