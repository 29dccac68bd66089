-------------------------------- MODULE Sum --------------------------------
(***************************************************************************)
(* DSMKeeper::sum together with DSMKeeper::barrier.  A node stores its     *)
(* value in memcached under the name of the sum and its own id, and then   *)
(* reads the values of all nodes one after the other, waiting for those    *)
(* that are not there yet.                                                 *)
(*                                                                         *)
(* The nodes sum twice under one name, with a barrier between the two:     *)
(* nothing in a key says which sum a value belongs to.  A value is         *)
(* represented by the node it is from and the round it was stored in.      *)
(***************************************************************************)
EXTENDS Barrier, Sequences

CONSTANT ServerNR  \* getServerNR(): how many nodes there are

\* One caller on each node, known by its id; the last creates the barrier.
ASSUME NodeAssumption ==
  /\ ServerNR \in Nat \ {0}
  /\ Caller = 0 .. ServerNR - 1
  /\ Creator = {ServerNR - 1}
  /\ Expected = ServerNR

VARIABLES
  spc,     \* where every node is in sum(): "out", "set" or "get"
  round,   \* sums completed
  stored,  \* the value under the key of every node, if there is one
  added    \* added[n][r]: the values node n has added up in its r-th sum

NoValue == <<ServerNR, 0>>

sumVars == <<spc, round, stored, added>>
allVars == <<barrierVars, sumVars>>

SumInit ==
  /\ Init
  /\ spc = [n \in Caller |-> "out"]
  /\ round = [n \in Caller |-> 0]
  /\ stored = [n \in Caller |-> NoValue]
  /\ added = [n \in Caller |-> [r \in {1, 2} |-> << >>]]

\* The program of a node: a sum, the barrier, a sum of the same name.
Enter(n) ==
  /\ spc[n] = "out"
  /\ \/ round[n] = 0 /\ bpc[n] = "out"
     \/ round[n] = 1 /\ bpc[n] = "left"
  /\ spc' = [spc EXCEPT ![n] = "set"]
  /\ UNCHANGED <<barrierVars, round, stored, added>>

\* Seeded fault: the key lacks the id of the node.
StoreValueOneKey(n) ==
  /\ spc[n] = "set"
  /\ stored' = [i \in Caller |-> <<n, round[n] + 1>>]
  /\ spc' = [spc EXCEPT ![n] = "get"]
  /\ UNCHANGED <<barrierVars, round, added>>

\* memSet(key of my own id, value)
StoreValue(n) ==
  /\ spc[n] = "set"
  /\ stored' = [stored EXCEPT ![n] = <<n, round[n] + 1>>]
  /\ spc' = [spc EXCEPT ![n] = "get"]
  /\ UNCHANGED <<barrierVars, round, added>>

\* One turn of the loop: memGet, which tries again while there is no such key.
AddValue(n) ==
  LET i == Len(added[n][round[n] + 1]) IN
    /\ spc[n] = "get"
    /\ i < ServerNR
    /\ stored[i] # NoValue
    /\ added' = [added EXCEPT ![n][round[n] + 1] = Append(@, stored[i])]
    /\ UNCHANGED <<barrierVars, spc, round, stored>>

\* The loop is done: sum() returns.
ReturnSum(n) ==
  /\ spc[n] = "get"
  /\ Len(added[n][round[n] + 1]) = ServerNR
  /\ round' = [round EXCEPT ![n] = @ + 1]
  /\ spc' = [spc EXCEPT ![n] = "out"]
  /\ UNCHANGED <<barrierVars, stored, added>>

InSum(n) == Enter(n) \/ StoreValue(n) \/ AddValue(n) \/ ReturnSum(n)

InBarrier(n) ==
  /\ (Call(n, n \in Creator) /\ round[n] = 1) \/ Inside(n)
  /\ UNCHANGED sumVars

SumNext == \E n \in Caller : InSum(n) \/ InBarrier(n)

\* Every node is a running thread that retries and polls without blocking.
SumFairness == \A n \in Caller : WF_allVars(InSum(n)) /\ WF_allVars(InBarrier(n))

SumSpec == SumInit /\ [][SumNext]_allVars /\ SumFairness

-----------------------------------------------------------------------------
(***************************************************************************)
(* Properties.                                                             *)
(***************************************************************************)

\* The first sum is exact on every node: it adds one value of each node and none
\* of the next sum, which a fast node may start while a slow one still adds; it
\* is the barrier that keeps it from doing so.  The second sum of the same name
\* has no such protection, not even from the barrier: it may add old values of
\* others, though never its own.
SumExact ==
  \A n \in Caller :
    /\ \A i \in DOMAIN added[n][1] : added[n][1][i] = <<i - 1, 1>>
    /\ \A i \in DOMAIN added[n][2] : added[n][2][i] \in {<<i - 1, 1>>, <<i - 1, 2>>}
    /\ Len(added[n][2]) > n => added[n][2][n + 1] = <<n, 2>>

\* Every node gets through both sums.
SumsReturn == <>(\A n \in Caller : round[n] = 2)
=============================================================================
