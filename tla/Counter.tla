--------------------------------- MODULE Counter ---------------------------------
(***************************************************************************)
(* utils/Counter.h: the atomic counter that names transactions.            *)
(* generate_unique_id is two accesses to the atomic, an increment and then *)
(* a separate load of the value to return; each is a step here, and        *)
(* callers in other threads run between them.  The counter is reset before *)
(* the first call (the constructor of TwoPL) and wraps at IdLimit.           *)
(***************************************************************************)
EXTENDS TxnIds, Sequences

CONSTANTS Callers,     \* the threads that call
          Start        \* the argument of reset_counter

ASSUME CounterAssumption == Start \in TxnId

VARIABLES
    counter,     \* _counter
    drawing,     \* drawing[c]: the number of the increment of the call c is in, or 0
    increments,  \* how often the counter was incremented since the reset
    drawn        \* the calls that returned, in the order of their loads

counterVars == <<counter, drawing, increments, drawn>>

(* from and to are the numbers of increments at the call's own increment   *)
(* and at its load.                                                        *)
Draw == [by : Callers, from : Nat \ {0}, to : Nat \ {0}, id : TxnId]

CounterTypeOK ==
    /\ counter \in TxnId
    /\ drawing \in [Callers -> Nat]
    /\ increments \in Nat
    /\ drawn \in Seq(Draw)

reset_counter ==
    /\ counter = Start
    /\ drawing = [c \in Callers |-> 0]
    /\ increments = 0
    /\ drawn = <<>>

(* Mutant: the increment is made on a copy of the counter. *)
FetchAddLost(c) ==
    /\ drawing[c] = 0
    /\ increments' = increments + 1
    /\ drawing' = [drawing EXCEPT ![c] = increments + 1]
    /\ UNCHANGED <<counter, drawn>>

(* _counter.fetch_add(1) *)
FetchAdd(c) ==
    /\ drawing[c] = 0
    /\ counter' = IF counter + 1 < IdLimit THEN counter + 1 ELSE 0
    /\ increments' = increments + 1
    /\ drawing' = [drawing EXCEPT ![c] = increments + 1]
    /\ UNCHANGED drawn

(* return _counter.load() *)
LoadId(c) ==
    /\ drawing[c] # 0
    /\ drawn' = Append(drawn, [by |-> c, from |-> drawing[c], to |-> increments,
                               id |-> counter])
    /\ drawing' = [drawing EXCEPT ![c] = 0]
    /\ UNCHANGED <<counter, increments>>

-----------------------------------------------------------------------------
(* Properties.  They speak of the identifiers drawn before the counter has *)
(* been round once.                                                        *)

NotWrapped == increments < IdLimit

(* A call that begins after another has returned gets another identifier:  *)
(* only calls that overlap can be given the same one.                      *)
SuccessiveIdsDiffer == NotWrapped =>
    \A i, j \in 1 .. Len(drawn) :
        drawn[i].to < drawn[j].from => drawn[i].id # drawn[j].id

(* No two calls overlapped. *)
DrawnInTurn == \A i, j \in 1 .. Len(drawn) : i < j => drawn[i].to < drawn[j].from

=================================================================================
