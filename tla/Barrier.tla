------------------------------ MODULE Barrier ------------------------------
(***************************************************************************)
(* DSMKeeper::barrier: nodes meet at a named barrier through a counter in  *)
(* memcached.  The node with the highest id creates the counter with value *)
(* 0; everybody increments it, trying again until it exists, and then      *)
(* polls it until it is equal to the number of callers expected.           *)
(*                                                                         *)
(* One use of one barrier name.  The memcached server was cleared before,  *)
(* as the README of the repository asks, and its commands are atomic.      *)
(***************************************************************************)
EXTENDS Naturals, FiniteSets

CONSTANTS
  Caller,   \* who calls barrier(): the machines, or threads of theirs
  Creator,  \* the callers that run on the node with the highest id
  Expected  \* the argument k: how many the caller believes there to be

ASSUME CallerAssumption == IsFiniteSet(Caller) /\ Creator \subseteq Caller
ASSUME ExpectedAssumption == Expected \in Nat

VARIABLES
  bpc,     \* where every caller is in barrier()
  created, \* whether the key exists in memcached
  counter  \* its value

barrierVars == <<bpc, created, counter>>

Init ==
  /\ bpc = [c \in Caller |-> "out"]
  /\ created = FALSE
  /\ counter = 0

\* Seeded fault: every node sets the counter to 0, not only the last.
CallEverybodySets(c, last) ==
  /\ bpc[c] = "out"
  /\ bpc' = [bpc EXCEPT ![c] = "set"]
  /\ UNCHANGED <<created, counter>>

\* The call; only callers on the last node go by way of the memSet.
Call(c, last) ==
  /\ bpc[c] = "out"
  /\ bpc' = [bpc EXCEPT ![c] = IF last THEN "set" ELSE "add"]
  /\ UNCHANGED <<created, counter>>

\* memSet(key, "0")
SetZero(c) ==
  /\ bpc[c] = "set"
  /\ created' = TRUE
  /\ counter' = 0
  /\ bpc' = [bpc EXCEPT ![c] = "add"]

\* memFetchAndAdd, which fails and is retried while there is no such key
FetchAndAdd(c) ==
  /\ bpc[c] = "add"
  /\ created
  /\ counter' = counter + 1
  /\ bpc' = [bpc EXCEPT ![c] = "spin"]
  /\ UNCHANGED created

\* Seeded fault: a caller does not count itself among those it waits for.
LeaveEarly(c) ==
  /\ bpc[c] = "spin"
  /\ counter >= Expected - 1
  /\ bpc' = [bpc EXCEPT ![c] = "left"]
  /\ UNCHANGED <<created, counter>>

\* The memGet that finds the expected value
Leave(c) ==
  /\ bpc[c] = "spin"
  /\ counter = Expected
  /\ bpc' = [bpc EXCEPT ![c] = "left"]
  /\ UNCHANGED <<created, counter>>

Inside(c) == SetZero(c) \/ FetchAndAdd(c) \/ Leave(c)

Next == \E c \in Caller : Call(c, c \in Creator) \/ Inside(c)

\* Every caller is a running thread that retries and polls without blocking.
Fairness == \A c \in Caller :
  WF_barrierVars(Call(c, c \in Creator)) /\ WF_barrierVars(Inside(c))

Spec     == Init /\ [][Next]_barrierVars
FairSpec == Spec /\ Fairness

-----------------------------------------------------------------------------
(***************************************************************************)
(* Properties.                                                             *)
(***************************************************************************)

\* Nobody is past the barrier before everybody has come to it.
BarrierHolds ==
  (\E c \in Caller : bpc[c] = "left") =>
    \A c \in Caller : bpc[c] \in {"spin", "left"}

\* Everybody gets past the barrier.
BarrierReleases == <>(\A c \in Caller : bpc[c] = "left")

-----------------------------------------------------------------------------
(***************************************************************************)
(* The inductive invariant, whatever is expected and however many callers  *)
(* reset the counter: it never exceeds the number of those it counted, so  *)
(* that nobody has left before as many came as are expected.               *)
(***************************************************************************)

Arrived == {c \in Caller : bpc[c] \in {"spin", "left"}}

BarrierInv ==
  /\ bpc \in [Caller -> {"out", "set", "add", "spin", "left"}]
  /\ created \in BOOLEAN
  /\ counter \in 0 .. Cardinality(Arrived)
  /\ (\E c \in Caller : bpc[c] = "left") => Cardinality(Arrived) >= Expected
=============================================================================
