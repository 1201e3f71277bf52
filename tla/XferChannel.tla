----------------------------- MODULE XferChannel -----------------------------
(***************************************************************************)
(* What the transfer programs of chapters 48, 53 and 54 promise: a file of *)
(* FileLen bytes goes from a writer to a reader, block by block, through a *)
(* place that holds one block.  A block is put only when the one before it *)
(* has been delivered, and what is delivered is exactly the file so far.   *)
(***************************************************************************)
EXTENDS Integers, Sequences

CONSTANT FileLen    \* the number of bytes in the writer's standard input

VARIABLES written,  \* how many bytes the writer has put
          output,   \* what the reader has written to its standard output
          closed,   \* the writer has put its end-of-file mark
          ended     \* the reader has taken it

vars == <<written, output, closed, ended>>

\* The first n bytes of the file; a byte stands for its own position.
Prefix(n) == [i \in 1..n |-> i]

Init == /\ written = 0
        /\ output = <<>>
        /\ closed = FALSE
        /\ ended = FALSE

Put == /\ ~closed
       /\ Len(output) = written
       /\ written' \in (written + 1) .. FileLen
       /\ UNCHANGED <<output, closed, ended>>

Deliver == /\ Len(output) < written
           /\ output' = Prefix(written)
           /\ UNCHANGED <<written, closed, ended>>

Close == /\ ~closed
         /\ Len(output) = FileLen
         /\ closed' = TRUE
         /\ UNCHANGED <<written, output, ended>>

End == /\ closed
       /\ ~ended
       /\ ended' = TRUE
       /\ UNCHANGED <<written, output, closed>>

Next == Put \/ Deliver \/ Close \/ End

Spec == Init /\ [][Next]_vars
=============================================================================
