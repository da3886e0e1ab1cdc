-------------------------------- MODULE SpinLock --------------------------------
(***************************************************************************)
(* utils/SpinLock.h, an array of them.  A test_and_set that finds the flag *)
(* set leaves it set and the loop goes on: a step that changes nothing.    *)
(***************************************************************************)
CONSTANT Locks

VARIABLE flag      \* flag[l]: the std::atomic_flag of lock l

SpinTypeOK == flag \in [Locks -> BOOLEAN]

SpinInit == flag = [l \in Locks |-> FALSE]

(* Mutant: the flag is set whatever test_and_set returns. *)
lockWithoutTest(l) == flag' = [flag EXCEPT ![l] = TRUE]

lock(l) ==
    /\ ~flag[l]
    /\ flag' = [flag EXCEPT ![l] = TRUE]

unlock(l) == flag' = [flag EXCEPT ![l] = FALSE]

=================================================================================
