--------------------------------- MODULE Timer ---------------------------------
(***************************************************************************)
(* TimerImpl (time.h): a wait that another thread can cancel, made of a    *)
(* std::timed_mutex.  Init locks it; Wait tries to lock it until the       *)
(* deadline; Cancel unlocks it.  Holding the mutex means "not cancelled".  *)
(*                                                                         *)
(* Cancel may unlock a mutex that another thread locked, or that nobody    *)
(* locked.  The standard leaves both undefined; with the mutex of the      *)
(* Linux C library the first unlocks and the second changes nothing, which *)
(* is what is modelled.                                                    *)
(***************************************************************************)
VARIABLE locked

\* A plausible bug: Wait reports the deadline without trying the lock.
SleepOnly == UNCHANGED locked

\* Wait returned true: the mutex stayed locked until the deadline.  Spurious
\* wakeups before the deadline go round the loop and change nothing.
WaitTimedOut == locked /\ UNCHANGED locked

\* Wait returned false: it could lock the mutex, so it holds it again.
WaitCancelled == ~locked /\ locked' = TRUE

\* Init blocks for as long as the mutex is locked.
Init == ~locked /\ locked' = TRUE

Cancel == locked' = FALSE
================================================================================
