----------------------------- MODULE SeqService -----------------------------
(***************************************************************************)
(* What the sequence-number service of Exercise/44_3456 promises, without  *)
(* FIFOs, polling or a save file.                                          *)
(*                                                                         *)
(* The service is either up or down.  While it is up it hands out          *)
(* consecutive, disjoint ranges of numbers.  A stop may happen at any      *)
(* moment.  A start resumes from a remembered number: it repeats at most   *)
(* MaxRepeat of the ranges granted since the previous start.               *)
(***************************************************************************)
EXTENDS Integers, FiniteSets

CONSTANTS Pid,        \* who may be granted a range
          MaxLen,     \* the longest range that can be asked for
          MaxRepeat   \* how many ranges a restart may hand out again

VARIABLES up,         \* is the service running
          era,        \* how many times it was started
          next,       \* the first number not yet handed out in this era; 0 while down
          granted     \* the history of granted ranges

vars == <<up, era, next, granted>>

Grant == [pid : Pid, era : Nat, from : Nat, len : 1..MaxLen]

\* The numbers a grant stands for.
Numbers(g) == g.from .. (g.from + g.len - 1)

\* The grants of era e that would be handed out again by resuming at n.
Repeated(e, n) == {g \in granted : g.era = e /\ g.from >= n}

Init == /\ up = FALSE
        /\ era = 0
        /\ next = 0
        /\ granted = {}

Start == /\ ~up
         /\ up' = TRUE
         /\ era' = era + 1
         /\ next' \in Nat
         /\ Cardinality(Repeated(era, next')) <= MaxRepeat
         /\ UNCHANGED granted

\* A start that fails: no range is ever granted in such an era.
FailedStart == /\ ~up
               /\ era' = era + 1
               /\ UNCHANGED <<up, next, granted>>

Allocate(p, l) ==
    /\ up
    /\ granted' = granted \cup {[pid |-> p, era |-> era, from |-> next, len |-> l]}
    /\ next' = next + l
    /\ UNCHANGED <<up, era>>

\* The requester went away before its answer: its numbers are used up.
Waste(l) == /\ up
            /\ next' = next + l
            /\ UNCHANGED <<up, era, granted>>

Stop == /\ up
        /\ up' = FALSE
        /\ next' = 0
        /\ UNCHANGED <<era, granted>>

Next == \/ Start
        \/ FailedStart
        \/ Stop
        \/ \E l \in 1..MaxLen : Waste(l) \/ \E p \in Pid : Allocate(p, l)

Spec == Init /\ [][Next]_vars
=============================================================================
