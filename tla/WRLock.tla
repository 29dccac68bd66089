------------------------------- MODULE WRLock -------------------------------
(***************************************************************************)
(* The reader-writer spin lock of utility/WRLock.h: one 16-bit word that   *)
(* is LOCKED while a writer holds the lock and otherwise twice the number  *)
(* of readers.  Every operation reads the word, decides, and publishes its *)
(* decision by compare-and-swap; what it read may be stale by then.        *)
(*                                                                         *)
(* WRLockGuard is a wLock and a wUnlock.                                   *)
(***************************************************************************)
EXTENDS Integers, FiniteSets

CONSTANTS
  Thread,   \* who uses the lock
  WordSize  \* values of the word: 2 ^ 16

\* The word can count every thread as a reader.
ASSUME WordAssumption ==
  /\ IsFiniteSet(Thread)
  /\ WordSize \in Nat /\ WordSize > 1 /\ 2 * Cardinality(Thread) < WordSize

VARIABLES
  l,    \* the word
  tpc,  \* where every thread is: "out", inside an operation, or holding the lock
  try,  \* whether it called try_wLock or try_rLock
  v     \* the word as the thread read it

lockVars == <<l, tpc, try, v>>

UNLOCKED == 0
LOCKED   == 1

LockInit ==
  /\ l = UNLOCKED
  /\ tpc = [t \in Thread |-> "out"]
  /\ try = [t \in Thread |-> FALSE]
  /\ v = [t \in Thread |-> UNLOCKED]

Goto(t, from, to) == tpc[t] = from /\ tpc' = [tpc EXCEPT ![t] = to]

\* A thread enters wLock, rLock or one of their try_ variants.
CallLock(t) ==
  /\ Goto(t, "out", "wLoad") \/ Goto(t, "out", "rLoad")
  /\ \E b \in BOOLEAN : try' = [try EXCEPT ![t] = b]
  /\ UNCHANGED <<l, v>>

\* try_wLock and try_rLock return false when they read a word that is not free
\* for them, and try_wLock also when its swap fails.
ReturnFalse(t) ==
  /\ try[t]
  /\ \/ l # UNLOCKED /\ Goto(t, "wLoad", "out")
     \/ l # UNLOCKED /\ Goto(t, "wCas", "out")
     \/ l = LOCKED /\ Goto(t, "rLoad", "out")
  /\ UNCHANGED <<l, try, v>>

\* The load of wLock that finds the lock free.
WLoad(t) ==
  /\ l = UNLOCKED
  /\ Goto(t, "wLoad", "wCas")
  /\ UNCHANGED <<l, try, v>>

\* Seeded fault: the word is stored without a comparison.
WCasBlind(t) ==
  /\ Goto(t, "wCas", "wHeld") /\ l' = LOCKED
  /\ UNCHANGED <<try, v>>

WCas(t) ==
  /\ IF l = UNLOCKED
     THEN Goto(t, "wCas", "wHeld") /\ l' = LOCKED
     ELSE ~try[t] /\ Goto(t, "wCas", "wLoad") /\ UNCHANGED l
  /\ UNCHANGED <<try, v>>

\* Seeded fault: a reader does not look for a writer.
RLoadBlind(t) ==
  /\ Goto(t, "rLoad", "rCas")
  /\ v' = [v EXCEPT ![t] = l]
  /\ UNCHANGED <<l, try>>

\* The load of rLock that finds no writer.
RLoad(t) ==
  /\ l # LOCKED
  /\ Goto(t, "rLoad", "rCas")
  /\ v' = [v EXCEPT ![t] = l]
  /\ UNCHANGED <<l, try>>

RCas(t) ==
  /\ IF l = v[t]
     THEN Goto(t, "rCas", "rHeld") /\ l' = (v[t] + 2) % WordSize
     ELSE Goto(t, "rCas", "rLoad") /\ UNCHANGED l
  /\ UNCHANGED <<try, v>>

\* rUnlock: a load and a swap, again until the swap succeeds.
RUnlockLoad(t) ==
  /\ Goto(t, "rHeld", "rUnlockCas")
  /\ v' = [v EXCEPT ![t] = l]
  /\ UNCHANGED <<l, try>>

\* Seeded fault: the decremented word is stored without a comparison.
RUnlockStore(t) ==
  /\ Goto(t, "rUnlockCas", "out")
  /\ l' = (v[t] + WordSize - 2) % WordSize
  /\ UNCHANGED <<try, v>>

RUnlockCas(t) ==
  /\ IF l = v[t]
     THEN Goto(t, "rUnlockCas", "out") /\ l' = (v[t] + WordSize - 2) % WordSize
     ELSE Goto(t, "rUnlockCas", "rHeld") /\ UNCHANGED l
  /\ UNCHANGED <<try, v>>

\* Seeded fault: the word is not stored.
WUnlockForgotten(t) ==
  /\ Goto(t, "wHeld", "out")
  /\ UNCHANGED <<l, try, v>>

\* wUnlock stores without looking.
WUnlock(t) ==
  /\ Goto(t, "wHeld", "out")
  /\ l' = UNLOCKED
  /\ UNCHANGED <<try, v>>

Acquire(t) == ReturnFalse(t) \/ WLoad(t) \/ WCas(t) \/ RLoad(t) \/ RCas(t)
Release(t) == RUnlockLoad(t) \/ RUnlockCas(t) \/ WUnlock(t)

LockNext == \E t \in Thread : CallLock(t) \/ Acquire(t) \/ Release(t)

\* Threads do not block, and whoever has the lock gives it back.
LockFairness == \A t \in Thread : WF_lockVars(Acquire(t)) /\ WF_lockVars(Release(t))

LockSpec     == LockInit /\ [][LockNext]_lockVars
LockFairSpec == LockSpec /\ LockFairness

-----------------------------------------------------------------------------
(***************************************************************************)
(* Properties.                                                             *)
(***************************************************************************)

Pc == {"out", "wLoad", "wCas", "wHeld", "rLoad", "rCas", "rHeld", "rUnlockCas"}

\* Every variable has its type; the word stays within its width.
LockTypeOK ==
  /\ l \in 0 .. WordSize - 1
  /\ tpc \in [Thread -> Pc]
  /\ try \in [Thread -> BOOLEAN]
  /\ v \in [Thread -> 0 .. WordSize - 1]

Readers == {t \in Thread : tpc[t] \in {"rHeld", "rUnlockCas"}}
Writers == {t \in Thread : tpc[t] = "wHeld"}

\* A writer is alone with the lock: no other writer, no reader.
MutualExclusion ==
  \A w \in Writers : Writers = {w} /\ Readers = {}

\* No unlock is lost and none is counted twice: once everybody is out, the lock
\* is free, and is_unlock says so.
NobodyLeftBehind == (\A t \in Thread : tpc[t] = "out") => l = UNLOCKED

\* Failed swaps and stale loads do not keep everybody out: somebody who wants
\* the lock is turned away (try_), or somebody has it.
SomebodyEnters ==
  \A t \in Thread :
    tpc[t] \in {"wLoad", "wCas", "rLoad", "rCas"} ~>
      tpc[t] = "out" \/ Readers \cup Writers # {}

\* The word tells who holds the lock; a reader about to swap has read no writer.
LockInv ==
  /\ LockTypeOK
  /\ \/ Writers = {} /\ l = 2 * Cardinality(Readers)
     \/ \E w \in Thread : Writers = {w} /\ Readers = {} /\ l = LOCKED
  /\ \A t \in Thread : tpc[t] = "rCas" => v[t] # LOCKED
=============================================================================
