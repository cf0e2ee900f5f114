--------------------------- MODULE MCStreamTransfer ---------------------------
(***************************************************************************)
(* Three chunks, so that the terminator can be written behind data the     *)
(* receiver has not read yet and a cancellation can fall between chunks;  *)
(* a four-frame sub-channel, so that write_all waits on the reader once    *)
(* the writer's loop of empty frames has filled it.                        *)
(***************************************************************************)
EXTENDS StreamTransfer

MCChunks == <<"c1", "c2", "c3">>

=============================================================================
