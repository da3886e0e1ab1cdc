--------------------------------- MODULE RWLock ---------------------------------
(***************************************************************************)
(* What the lock helper promises, whatever the representation: a table of  *)
(* reader/writer locks, stated only by who holds what.  A read lock is     *)
(* granted when nobody holds the key for writing, a write lock when nobody *)
(* holds it at all; a holder may let go at any time.  These are the        *)
(* questions TwoPLHelper.h asks in its comments "is read or write locked?" *)
(* and "is write locked?".                                                 *)
(***************************************************************************)
CONSTANTS Txns, Keys

VARIABLE holds     \* holds[t][k]: the lock transaction t has on key k

RWInit == holds = [t \in Txns |-> [k \in Keys |-> "none"]]

AcquireRead(t, k) ==
    /\ holds[t][k] = "none"
    /\ \A u \in Txns : holds[u][k] # "write"
    /\ holds' = [holds EXCEPT ![t][k] = "read"]

AcquireWrite(t, k) ==
    /\ \A u \in Txns : holds[u][k] = "none"
    /\ holds' = [holds EXCEPT ![t][k] = "write"]

Release(t, k) ==
    /\ holds[t][k] # "none"
    /\ holds' = [holds EXCEPT ![t][k] = "none"]

RWNext == \E t \in Txns, k \in Keys :
              AcquireRead(t, k) \/ AcquireWrite(t, k) \/ Release(t, k)

RWSpec == RWInit /\ [][RWNext]_holds

=================================================================================
