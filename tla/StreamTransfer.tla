---------------------------- MODULE StreamTransfer ----------------------------
(***************************************************************************)
(* An owned wasi:io/input-stream passed as a value (runtime-wasmtime       *)
(* lib.rs).  The sender's ValEncoder deletes the stream from its table and *)
(* leaves a deferred writer (lib.rs 480-502) that, once handed the         *)
(* sub-channel, loops: await readiness, read up to 8096 bytes, write the   *)
(* chunk as a LEB128-length-prefixed frame; on Closed it writes the        *)
(* zero-length frame 0x00.  The receiver's read_value (lib.rs 816-837)     *)
(* wraps the indexed sub-channel in FramedRead(ListDecoderU8) and          *)
(* into_async_read, which hands non-empty frames to the guest, skips empty *)
(* ones and ends only when the sub-channel itself ends.                    *)
(*                                                                         *)
(* A chunk is a model value; a frame is <<chunk>> or the empty frame <<>>. *)
(* What the transport reports when a sub-channel's writer is dropped       *)
(* without its stream being finished is not in this repository:          *)
(* DropOutcomes holds what it may be, a clean end of the sub-channel       *)
(* ("closed"), an error ("broken"), or either.                             *)
(***************************************************************************)
EXTENDS Naturals, Sequences

CONSTANTS
    Chunks,         \* the content of the host stream, a sequence of chunks
    MaxFrames,      \* frames the sub-channel buffers before write_all waits
    DropOutcomes,   \* what the reader sees when a writer is dropped
    Faults          \* the source may fail, the writer be cancelled, the reader dropped

VARIABLES
    src,            \* chunks the host stream has not yet produced
    srcFailed,      \* the host stream reports an error other than Closed
    wpc,            \* deferred writer: "ready" | "write" | "failed" | "dropped"
    frame,          \* the frame the writer is awaiting write_all for
    chan,           \* frames in flight on the sub-channel
    chanState,      \* "open" | "closed" | "broken"
    delivered,      \* chunks handed to the receiving guest
    rpc             \* receiving stream: "reading" | "eof" | "error"

vars == <<src, srcFailed, wpc, frame, chan, chanState, delivered, rpc>>

Terminator == <<>>

Init ==
    /\ src = Chunks
    /\ srcFailed = FALSE
    /\ wpc = "ready"
    /\ frame = Terminator
    /\ chan = <<>>
    /\ chanState = "open"
    /\ delivered = <<>>
    /\ rpc = "reading"

(***************************************************************************)
(* Sender: one loop iteration is stream.ready().await and stream.read,     *)
(* then w.write_all(..).await.  The Closed arm writes the terminator and   *)
(* then, like the Ok arm, goes round the loop again (lib.rs 495-497).      *)
(***************************************************************************)
\* Mutant: the chunk is read from the stream without being consumed.
ReadChunkUnconsumed ==
    /\ wpc = "ready"
    /\ ~srcFailed
    /\ src # <<>>
    /\ frame' = <<Head(src)>>
    /\ wpc' = "write"
    /\ UNCHANGED <<src, srcFailed, chan, chanState, delivered, rpc>>

ReadChunk ==
    /\ wpc = "ready"
    /\ ~srcFailed
    /\ src # <<>>
    /\ frame' = <<Head(src)>>
    /\ src' = Tail(src)
    /\ wpc' = "write"
    /\ UNCHANGED <<srcFailed, chan, chanState, delivered, rpc>>

ReadClosed ==
    /\ wpc = "ready"
    /\ ~srcFailed
    /\ src = <<>>
    /\ frame' = Terminator
    /\ wpc' = "write"
    /\ UNCHANGED <<src, srcFailed, chan, chanState, delivered, rpc>>

\* Err(err) => return Err(..): the writer ends and drops its sub-channel.
ReadFailed ==
    /\ wpc = "ready"
    /\ srcFailed
    /\ wpc' = "failed"
    /\ chanState' \in DropOutcomes
    /\ UNCHANGED <<src, srcFailed, frame, chan, delivered, rpc>>

\* Mutant: write_all never waits for the reader to make room.
WriteFrameUnbounded ==
    /\ wpc = "write"
    /\ chanState = "open"
    /\ rpc = "reading"
    /\ chan' = Append(chan, frame)
    /\ wpc' = "ready"
    /\ UNCHANGED <<src, srcFailed, frame, chanState, delivered, rpc>>

WriteFrame ==
    /\ wpc = "write"
    /\ chanState = "open"
    /\ rpc = "reading"
    /\ Len(chan) < MaxFrames
    /\ chan' = Append(chan, frame)
    /\ wpc' = "ready"
    /\ UNCHANGED <<src, srcFailed, frame, chanState, delivered, rpc>>

\* write_all fails once the receiving stream is gone; `?` returns the error.
WriteFailed ==
    /\ wpc = "write"
    /\ rpc = "error"
    /\ wpc' = "failed"
    /\ chanState' \in DropOutcomes
    /\ UNCHANGED <<src, srcFailed, frame, chan, delivered, rpc>>

\* The host stream fails (an I/O error of the pipe or file behind it).
SourceFails ==
    /\ Faults
    /\ ~srcFailed
    /\ src # <<>>
    /\ srcFailed' = TRUE
    /\ UNCHANGED <<src, wpc, frame, chan, chanState, delivered, rpc>>

\* The future running the writer is dropped, e.g. when the polyfill's
\* timeout around the parameter transfer fires (lib.rs 1085-1087).
Cancel ==
    /\ Faults
    /\ wpc \in {"ready", "write"}
    /\ wpc' = "dropped"
    /\ chanState' \in DropOutcomes
    /\ UNCHANGED <<src, srcFailed, frame, chan, delivered, rpc>>

(***************************************************************************)
(* Receiver: into_async_read over FramedRead(ListDecoderU8).               *)
(***************************************************************************)
\* A non-empty frame is handed to the guest, an empty one is skipped.
ReadFrame ==
    /\ rpc = "reading"
    /\ chan # <<>>
    /\ chan' = Tail(chan)
    /\ delivered' = IF Head(chan) = Terminator THEN delivered
                    ELSE Append(delivered, Head(chan)[1])
    /\ UNCHANGED <<src, srcFailed, wpc, frame, chanState, rpc>>

ReadEnd ==
    /\ rpc = "reading"
    /\ chan = <<>>
    /\ chanState = "closed"
    /\ rpc' = "eof"
    /\ UNCHANGED <<src, srcFailed, wpc, frame, chan, chanState, delivered>>

ReadError ==
    /\ rpc = "reading"
    /\ chanState = "broken"
    /\ rpc' = "error"
    /\ UNCHANGED <<src, srcFailed, wpc, frame, chan, chanState, delivered>>

\* The receiving guest drops the input stream before its end; the reader
\* and its sub-channel go with it.
ReceiverDrops ==
    /\ Faults
    /\ rpc = "reading"
    /\ rpc' = "error"
    /\ UNCHANGED <<src, srcFailed, wpc, frame, chan, chanState, delivered>>

Sender == ReadChunk \/ ReadClosed \/ ReadFailed \/ WriteFrame \/ WriteFailed
Receiver == ReadFrame \/ ReadEnd \/ ReadError

Next == Sender \/ Receiver \/ SourceFails \/ Cancel \/ ReceiverDrops

\* Both futures are polled by tokio whenever they can make progress.
Spec == Init /\ [][Next]_vars /\ WF_vars(Sender) /\ WF_vars(Receiver)

-----------------------------------------------------------------------------
TypeOK ==
    /\ wpc \in {"ready", "write", "failed", "dropped"}
    /\ chanState \in {"open", "closed", "broken"}
    /\ rpc \in {"reading", "eof", "error"}
    /\ Len(chan) <= MaxFrames
    /\ Len(delivered) <= Len(Chunks)

\* The guest reading the stream only ever sees a prefix of the sender's
\* content: the terminator and the empty frames the writer keeps sending
\* after Closed never reach it as data, and nothing is reordered or
\* repeated by the writer loop.
DeliveredPrefix == delivered = SubSeq(Chunks, 1, Len(delivered))

\* The receiving stream behaves as AbstractStream: in order, and a clean
\* end only once the whole content has been delivered.
Abs == INSTANCE AbstractStream WITH delivered <- delivered, rstate <- rpc
StreamRefinement == Abs!Spec

\* The deferred writer of lib.rs 480-502 eventually finishes, which is what
\* lets the polyfill's try_join_all of parameter writers complete.  The
\* loop has no Ok return, so it can only finish by failing or being dropped.
WriterTerminates == <>(wpc \in {"failed", "dropped"})

=============================================================================
