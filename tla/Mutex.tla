------------------------------- MODULE Mutex -------------------------------
(***************************************************************************)
(* The condition variable that every Mutex object of the program carries   *)
(* beside its lock.  The set of threads blocked in Mutex::Wait is the only *)
(* state the other modules keep of it: a critical section of the program   *)
(* (a MutexHandler scope) is one atomic action of theirs, which is sound   *)
(* because whatever is read outside the lock is one machine word, so a     *)
(* reader that runs in the middle of a section sees the word either before *)
(* or after the single write the section makes to it.                      *)
(***************************************************************************)

(***************************************************************************)
(* What pthread_cond_signal may leave of the set w of waiting threads: it  *)
(* wakes one of them, whichever the scheduler likes, and is lost when      *)
(* nobody waits.                                                           *)
(***************************************************************************)
Signal(w) == {v \in SUBSET w : \/ w = {} /\ v = {}
                               \/ \E t \in w : v = w \ {t}}

=============================================================================
