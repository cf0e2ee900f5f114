--------------------------- MODULE QuicConnHandler ---------------------------
(***************************************************************************)
(* One wRPC session over QUIC (transport-quic lib.rs).  The client opens a *)
(* bidirectional stream (Client::invoke, open_bi), the server accepts it   *)
(* (Client::accept, accept_bi).  Each of the two directions, "params"      *)
(* (client to server) and "results" (server to client), has an egress      *)
(* side at its sender and an ingress side at its receiver.  When the frame *)
(* layer (wrpc_transport::frame, not in this repository) is done with a    *)
(* side it hands the stream to ConnHandler: on_ingress logs the result and *)
(* calls rx.stop(DONE); on_egress logs the result and awaits tx.stopped(). *)
(*                                                                         *)
(* quinn is the environment: all data of a finished stream is eventually  *)
(* acknowledged; stopped() resolves with Some(code) once STOP_SENDING has  *)
(* arrived, with None once the stream is finished and acknowledged, and    *)
(* with an error once the connection is lost.  stop() on a stream that has *)
(* been read to its end may fail with ClosedStream, which on_ingress logs. *)
(***************************************************************************)
EXTENDS Integers

CONSTANT Faults     \* open_bi, egress, ingress and the connection may fail

\* const DONE: VarInt = VarInt::from_u32(1); NoCode is no STOP_SENDING yet.
DONE == 1
NoCode == -1

Dirs == {"params", "results"}
Sender(d) == IF d = "params" THEN "client" ELSE "server"
Receiver(d) == IF d = "params" THEN "server" ELSE "client"

VARIABLES
    sess,           \* "idle" | "opened" | "accepted" | "failed"
    out,            \* per direction, the egress: "sending" | "finished" | "failed"
    in,             \* per direction, the ingress: "reading" | "ok" | "err"
    eg,             \* per direction, on_egress: "none" | "waiting" | "closed" | "done" | "code" | "error"
    stopCode,       \* per direction, the STOP_SENDING code the sender got
    acked,          \* per direction, all data and the FIN acknowledged
    lost            \* the connection is lost

vars == <<sess, out, in, eg, stopCode, acked, lost>>

\* The side is present: the client once open_bi returned, the server once
\* accept_bi returned.
Present(side) ==
    IF side = "client" THEN sess \in {"opened", "accepted"} ELSE sess = "accepted"

Init ==
    /\ sess = "idle"
    /\ out = [d \in Dirs |-> "sending"]
    /\ in = [d \in Dirs |-> "reading"]
    /\ eg = [d \in Dirs |-> "none"]
    /\ stopCode = [d \in Dirs |-> NoCode]
    /\ acked = [d \in Dirs |-> FALSE]
    /\ lost = FALSE

\* Client::invoke: open_bi, failing with "failed to open parameter stream",
\* then InvokeBuilder::invoke writes the header, which may fail as well;
\* either error is returned and the stream, if any, dropped unused.
OpenBi ==
    /\ sess = "idle"
    /\ \/ sess' = "opened"
       \/ Faults /\ sess' = "failed"
    /\ UNCHANGED <<out, in, eg, stopCode, acked, lost>>

\* Client::accept: accept_bi yields the server's (tx, rx), or, once the
\* connection is lost, its error (`?`).
AcceptBi ==
    /\ sess = "opened"
    /\ \/ sess' = "accepted"
       \/ lost /\ sess' = "failed"
    /\ UNCHANGED <<out, in, eg, stopCode, acked, lost>>

\* The frame layer finishes the sender's side, with Ok once the stream is
\* finished or with Err, and calls on_egress, which logs the result and
\* awaits tx.stopped() without resetting the stream.
OnEgress(d) ==
    /\ Present(Sender(d))
    /\ out[d] = "sending"
    /\ \/ out' = [out EXCEPT ![d] = "finished"]
       \/ Faults /\ out' = [out EXCEPT ![d] = "failed"]
    /\ eg' = [eg EXCEPT ![d] = "waiting"]
    /\ UNCHANGED <<sess, in, stopCode, acked, lost>>

\* Mutant: the receiving side is stopped with code 0 instead of DONE.
OnIngressOtherCode(d) ==
    /\ Present(Receiver(d))
    /\ in[d] = "reading"
    /\ out[d] = "finished"
    /\ in' = [in EXCEPT ![d] = "ok"]
    /\ stopCode' = [stopCode EXCEPT ![d] = IF lost THEN @ ELSE 0]
    /\ UNCHANGED <<sess, out, eg, acked, lost>>

\* The frame layer is done reading, with Ok after the FIN or with Err, and
\* calls on_ingress, which logs the result and calls rx.stop(DONE) either
\* way.  Once the stream has been read to its end stop may fail with
\* ClosedStream; on a lost connection no STOP_SENDING leaves.
OnIngress(d) ==
    /\ Present(Receiver(d))
    /\ in[d] = "reading"
    /\ \/ /\ out[d] = "finished"
          /\ in' = [in EXCEPT ![d] = "ok"]
          /\ \/ stopCode' = [stopCode EXCEPT ![d] = IF lost THEN @ ELSE DONE]
             \/ UNCHANGED stopCode
       \/ /\ Faults \/ lost
          /\ in' = [in EXCEPT ![d] = "err"]
          /\ stopCode' = [stopCode EXCEPT ![d] = IF lost THEN @ ELSE DONE]
    /\ UNCHANGED <<sess, out, eg, acked, lost>>

\* quinn acknowledges the data and the FIN of a finished stream.
Ack(d) ==
    /\ out[d] = "finished"
    /\ ~acked[d]
    /\ ~lost
    /\ acked' = [acked EXCEPT ![d] = TRUE]
    /\ UNCHANGED <<sess, out, in, eg, stopCode, lost>>

\* tx.stopped() resolves and on_egress returns: Ok(Some(DONE)) and Ok(None)
\* are a successful close, another code is a warning, Err an error.
Stopped(d) ==
    /\ eg[d] = "waiting"
    /\ \/ /\ stopCode[d] # NoCode
          /\ eg' = [eg EXCEPT ![d] = IF stopCode[d] = DONE THEN "done" ELSE "code"]
       \/ /\ acked[d]
          /\ eg' = [eg EXCEPT ![d] = "closed"]
       \/ /\ lost /\ stopCode[d] = NoCode /\ ~acked[d]
          /\ eg' = [eg EXCEPT ![d] = "error"]
    /\ UNCHANGED <<sess, out, in, stopCode, acked, lost>>

\* The connection is lost, e.g. by its idle timeout.
ConnectionLost ==
    /\ Faults
    /\ ~lost
    /\ sess \in {"opened", "accepted"}
    /\ lost' = TRUE
    /\ UNCHANGED <<sess, out, in, eg, stopCode, acked>>

Next ==
    \/ OpenBi \/ AcceptBi \/ ConnectionLost
    \/ \E d \in Dirs : OnEgress(d) \/ OnIngress(d) \/ Ack(d) \/ Stopped(d)

\* Reading a finished stream to its end, acknowledging it, delivering a
\* STOP_SENDING and resolving stopped() are all eventually done by the
\* frame layer and quinn.  A failed ingress is not: the server's call()
\* reads parameters without a timeout (runtime-wasmtime lib.rs 1127-1130).
Fairness ==
    /\ WF_vars(AcceptBi)
    /\ \A d \in Dirs :
          /\ WF_vars(OnEgress(d))
          /\ WF_vars(Present(Receiver(d)) /\ in[d] = "reading" /\ out[d] = "finished" /\ OnIngress(d))
          /\ WF_vars(Ack(d))
          /\ WF_vars(Stopped(d))

Spec == Init /\ [][Next]_vars /\ WF_vars(OpenBi) /\ Fairness

-----------------------------------------------------------------------------
TypeOK ==
    /\ sess \in {"idle", "opened", "accepted", "failed"}
    /\ out \in [Dirs -> {"sending", "finished", "failed"}]
    /\ in \in [Dirs -> {"reading", "ok", "err"}]
    /\ eg \in [Dirs -> {"none", "waiting", "closed", "done", "code", "error"}]
    /\ stopCode \in [Dirs -> {DONE, NoCode}]
    /\ acked \in [Dirs -> BOOLEAN]
    /\ lost \in BOOLEAN

\* A direction whose data the receiver read to its end ends, at the
\* sender's on_egress, as a successful close, whichever of the
\* acknowledgement and the STOP_SENDING(DONE) of on_ingress reaches
\* stopped() first, unless the connection is lost.
GracefulClose ==
    \A d \in Dirs :
        (in[d] = "ok" /\ eg[d] # "none") ~> (eg[d] \in {"closed", "done"} \/ lost)

=============================================================================
