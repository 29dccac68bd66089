----------------------------- MODULE AppendLog -----------------------------
(***************************************************************************)
(* What Rowan promises: one log that many clients append to at once, with  *)
(* one one-sided request each and no work of the server on the way.        *)
(*                                                                         *)
(* A client hands over messages and later learns that one more of them is  *)
(* appended.  Each is appended once, as handed over, after those the same  *)
(* client handed over before, and before its completion is reported.  The  *)
(* server only ever gives up a prefix of the log, and never all of it.     *)
(***************************************************************************)
EXTENDS Naturals, Sequences

CONSTANTS Client, Message

VARIABLES
  handed,    \* messages of each client handed over and not yet appended
  appended,  \* messages of each client appended and not yet reported
  log

vars == <<handed, appended, log>>

Init ==
  /\ handed = [c \in Client |-> << >>]
  /\ appended = [c \in Client |-> 0]
  /\ log = << >>

HandOver(c) ==
  /\ \E m \in Message : handed' = [handed EXCEPT ![c] = Append(@, m)]
  /\ UNCHANGED <<appended, log>>

AppendNext(c) ==
  /\ handed[c] # << >>
  /\ log' = Append(log, Head(handed[c]))
  /\ handed' = [handed EXCEPT ![c] = Tail(@)]
  /\ appended' = [appended EXCEPT ![c] = @ + 1]

Report(c) ==
  /\ appended[c] > 0
  /\ appended' = [appended EXCEPT ![c] = @ - 1]
  /\ UNCHANGED <<handed, log>>

Recycle ==
  /\ \E n \in 1 .. Len(log) - 1 : log' = SubSeq(log, n + 1, Len(log))
  /\ UNCHANGED <<handed, appended>>

Next ==
  \/ \E c \in Client : HandOver(c) \/ AppendNext(c) \/ Report(c)
  \/ Recycle

Spec == Init /\ [][Next]_vars
=============================================================================
