---------------------------- MODULE AbstractStream ----------------------------
(***************************************************************************)
(* What an owned input stream passed over wRPC promises its receiver: the  *)
(* receiver is handed the sender's chunks in order, and it ends either     *)
(* cleanly, after the last chunk, or with an error.                        *)
(***************************************************************************)
EXTENDS Naturals, Sequences

CONSTANT Chunks         \* the content of the sender's stream

VARIABLES
    delivered,          \* the chunks handed to the receiving guest
    rstate              \* "reading" | "eof" | "error"

Init ==
    /\ delivered = <<>>
    /\ rstate = "reading"

Deliver ==
    /\ rstate = "reading"
    /\ Len(delivered) < Len(Chunks)
    /\ delivered' = Append(delivered, Chunks[Len(delivered) + 1])
    /\ UNCHANGED rstate

End ==
    /\ rstate = "reading"
    /\ delivered = Chunks
    /\ rstate' = "eof"
    /\ UNCHANGED delivered

Fail ==
    /\ rstate = "reading"
    /\ rstate' = "error"
    /\ UNCHANGED delivered

Spec == Init /\ [][Deliver \/ End \/ Fail]_<<delivered, rstate>>

=============================================================================
