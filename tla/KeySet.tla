--------------------------------- MODULE KeySet ---------------------------------
(***************************************************************************)
(* What HashMap promises its callers about the keys it holds: a call to    *)
(* insert, remove, contain or operator[] takes effect at one moment        *)
(* between its start and its return and answers what was true then.  Two   *)
(* calls are weaker: clear removes keys at several moments and size looks  *)
(* at the keys without a moment of its own.                                *)
(***************************************************************************)
CONSTANTS Threads, Keys

VARIABLES
    members,     \* the keys in the map
    pending      \* pending[t]: the call thread t is in

keySetVars == <<members, pending>>

NotCalling == [op |-> "none"]

KeyedOps == {"insert", "remove", "contain", "subscript"}

KeySetInit ==
    /\ members = {}
    /\ pending = [t \in Threads |-> NotCalling]

Invoke(t) ==
    /\ pending[t] = NotCalling
    /\ \E o \in KeyedOps \cup {"size", "clear"}, k \in Keys :
          pending' = [pending EXCEPT ![t] = [op |-> o, key |-> k, answer |-> "open"]]
    /\ UNCHANGED members

(* What the call answers, and what it makes of the members. *)
Answer(o, k) ==
    CASE o = "insert"    -> k \notin members
      [] o = "subscript" -> TRUE
      [] OTHER           -> k \in members

MembersAfter(o, k) ==
    CASE o \in {"insert", "subscript"} -> members \cup {k}
      [] o = "remove"                  -> members \ {k}
      [] OTHER                         -> members

Effect(t) ==
    /\ pending[t].op \in KeyedOps
    /\ pending[t].answer = "open"
    /\ pending' = [pending EXCEPT ![t].answer =
                      IF Answer(pending[t].op, pending[t].key) THEN "yes" ELSE "no"]
    /\ members' = MembersAfter(pending[t].op, pending[t].key)

Sweep(t) ==
    /\ pending[t].op = "clear"
    /\ \E gone \in SUBSET members : members' = members \ gone
    /\ UNCHANGED pending

Return(t) ==
    /\ pending[t] # NotCalling
    /\ pending[t].op \in KeyedOps => pending[t].answer # "open"
    /\ pending' = [pending EXCEPT ![t] = NotCalling]
    /\ UNCHANGED members

KeySetNext == \E t \in Threads : Invoke(t) \/ Effect(t) \/ Sweep(t) \/ Return(t)

KeySetSpec == KeySetInit /\ [][KeySetNext]_keySetVars

=================================================================================
