----------------------------- MODULE AttendedK ------------------------------
(***************************************************************************)
(* What a decode stream promises its caller, with no arena, no packed copy *)
(* and no bookkeeping: the caller writes to the K buffers it holds, and    *)
(* every answered call has read the first rows of one of them as they      *)
(* stood when it ran.                                                      *)
(***************************************************************************)
EXTENDS Naturals

CONSTANTS Addrs, MaxLen, Vals, Blank

VARIABLES
  mem,     \* address -> K rows
  owned,   \* the addresses the caller references
  answer   \* the rows the last answered call attended to

Rows == 1..MaxLen

vars == <<mem, owned, answer>>

Init ==
  /\ mem = [a \in Addrs |-> [r \in Rows |-> Blank]]
  /\ owned = {}
  /\ answer = [r \in Rows |-> Blank]

WriteRow(a, r, v) ==
  /\ a \in owned
  /\ mem' = [mem EXCEPT ![a][r] = v]
  /\ UNCHANGED <<owned, answer>>

Drop(a) ==
  /\ owned' = owned \ {a}
  /\ mem' = [mem EXCEPT ![a] = [r \in Rows |-> Blank]]
  /\ UNCHANGED answer

Allocate(a, rows) ==
  /\ a \notin owned
  /\ owned' = owned \cup {a}
  /\ mem' = [mem EXCEPT ![a] = rows]
  /\ UNCHANGED answer

Answer(a, n) ==
  /\ a \in owned
  /\ answer' = [r \in Rows |-> IF r <= n THEN mem[a][r] ELSE Blank]
  /\ UNCHANGED <<mem, owned>>

Next ==
  \E a \in Addrs :
    \/ \E r \in Rows, v \in Vals : WriteRow(a, r, v)
    \/ Drop(a)
    \/ \E rows \in [Rows -> Vals] : Allocate(a, rows)
    \/ \E n \in Rows : Answer(a, n)

Spec == Init /\ [][Next]_vars
=============================================================================
