---------------------------------- MODULE YQuery ----------------------------------
(***************************************************************************)
(* benchmark/YCSB/YQuery.h: the constructor draws the operations of a      *)
(* query one after the other, from a generator seeded with the time: first *)
(* whether it reads or updates, then keys until one comes up that the      *)
(* query has not named yet.  Every draw is a step.                         *)
(*                                                                         *)
(* A key is drawn uniformly or from utils/Zipf.h.  Zipf::value is a step   *)
(* function of its argument: Cuts are the least numbers for which it is    *)
(* 1, 2 and so on.                                                         *)
(***************************************************************************)
EXTENDS Random, Sequences, Functions

CONSTANTS Contexts,              \* the settings of YContext considered
          keys_per_transaction,
          keys_per_table,
          Percent,               \* 100
          Cuts

ASSUME QueryAssumption ==
    /\ Contexts \subseteq [skewPattern : {"BOTH", "READ", "WRITE"}, isUniform : BOOLEAN,
                           readOnlyTransaction : 0 .. Percent,
                           readWriteRatio : 0 .. Percent]
    /\ keys_per_table \in Nat /\ keys_per_transaction \in 0 .. keys_per_table
    /\ keys_per_table > 1 /\ Percent \in Nat /\ Percent > 1
    /\ Cuts \in [1 .. keys_per_table - 1 -> 1 .. 2^(UpperBits + LowerBits) - 1]
    /\ \A i, j \in DOMAIN Cuts : i < j => Cuts[i] < Cuts[j]

VARIABLES
    context,      \* _context
    readOnly,     \* the first draw, 0 before it
    UPDATE,
    Y_KEY

queryVars == <<_seed, upperFirst, context, readOnly, UPDATE, Y_KEY>>

QueryInit ==
    /\ init_seed
    /\ context \in Contexts
    /\ readOnly = 0
    /\ UPDATE = <<>>
    /\ Y_KEY = <<>>

(* Zipf::value *)
value(u) == Cardinality({k \in DOMAIN Cuts : Cuts[k] <= u})

-----------------------------------------------------------------------------
DrawReadOnly ==
    /\ readOnly = 0
    /\ readOnly' = uniform_dist(1, Percent)
    /\ Advance
    /\ UNCHANGED <<context, UPDATE, Y_KEY>>

AtOperation ==
    readOnly > 0 /\ Len(UPDATE) = Len(Y_KEY) /\ Len(Y_KEY) < keys_per_transaction

ReadsOnly == readOnly <= context.readOnlyTransaction

(* A read-only query draws nothing for its operations. *)
NextRead ==
    /\ AtOperation /\ ReadsOnly
    /\ UPDATE' = Append(UPDATE, FALSE)
    /\ UNCHANGED <<_seed, upperFirst, context, readOnly, Y_KEY>>

DrawReadOrWrite ==
    /\ AtOperation /\ ~ReadsOnly
    /\ UPDATE' = Append(UPDATE, uniform_dist(1, Percent) > context.readWriteRatio)
    /\ Advance
    /\ UNCHANGED <<context, readOnly, Y_KEY>>

(* The two skew patterns are told apart by the same test. *)
DrawsUniformly ==
    \/ context.isUniform
    \/ context.skewPattern \in {"READ", "WRITE"} /\ UPDATE[Len(UPDATE)]

Key == IF DrawsUniformly THEN uniform_dist(0, keys_per_table - 1) ELSE value(next_double)

AtKey == Len(UPDATE) > Len(Y_KEY)

(* Mutant: the key is appended before it is looked up. *)
DrawAnyKey ==
    /\ AtKey
    /\ Y_KEY' = Append(Y_KEY, Key)
    /\ Advance
    /\ UNCHANGED <<context, readOnly, UPDATE>>

DrawNewKey ==
    /\ AtKey /\ Key \notin Range(Y_KEY)
    /\ Y_KEY' = Append(Y_KEY, Key)
    /\ Advance
    /\ UNCHANGED <<context, readOnly, UPDATE>>

DrawKnownKey ==
    /\ AtKey /\ Key \in Range(Y_KEY)
    /\ Advance
    /\ UNCHANGED <<context, readOnly, UPDATE, Y_KEY>>

QueryNext ==
    \/ DrawReadOnly \/ NextRead \/ DrawReadOrWrite
    \/ DrawNewKey \/ DrawKnownKey

(* The thread that constructs the query is scheduled for ever. *)
QuerySpec == QueryInit /\ [][QueryNext]_queryVars /\ WF_queryVars(QueryNext)

-----------------------------------------------------------------------------
(* Properties. *)

(* Every query is one that TwoPLTransaction, and with it every property of *)
(* the locks, takes for granted: it names rows of the table, each once.  A *)
(* row named twice would be refused its second lock at every execution.    *)
QueryIsWorkload ==
    /\ IsInjective(Y_KEY)
    /\ Range(Y_KEY) \subseteq 0 .. keys_per_table - 1
    /\ Len(Y_KEY) <= keys_per_transaction

(* Why, as an inductive invariant: an operation is begun before its key is *)
(* drawn, and only while the query has fewer than it should.                *)
QueryInv ==
    /\ _seed \in Seed
    /\ readOnly \in Nat
    /\ UPDATE \in Seq(BOOLEAN) /\ Y_KEY \in Seq(Nat)
    /\ Len(UPDATE) \in {Len(Y_KEY), Len(Y_KEY) + 1}
    /\ Len(UPDATE) <= keys_per_transaction
    /\ QueryIsWorkload

(* The loop that draws keys until a new one comes up ends, for every seed  *)
(* and even if the query names the whole table: the generator does not     *)
(* come round before it has drawn every key.                               *)
QueryEnds == <>(Len(Y_KEY) = keys_per_transaction)

=================================================================================
