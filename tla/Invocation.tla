------------------------------ MODULE Invocation ------------------------------
(***************************************************************************)
(* The invocation orchestration of runtime-wasmtime and wasmtime-cli:      *)
(*  - the polyfill stub link_function (lib.rs 1006-1108) on the calling    *)
(*    side: encode parameters, invoke, then run the parameter writers      *)
(*    (tx) and decode the results (rx) under try_join!, each wrapped in    *)
(*    the context's timeout;                                               *)
(*  - the serving side: one task per exported function (cli lib.rs         *)
(*    352-372) that awaits each invocation before accepting the next, and  *)
(*    call() (lib.rs 1110-1167) run either on a fresh store                *)
(*    (serve_function) or under the store mutex (serve_function_shared,    *)
(*    lib.rs 1353-1365);                                                   *)
(*  - guests that call an import while serving (a nested call through the  *)
(*    polyfill, from within the store that is serving).                    *)
(* Values are abstracted to whether a call carries an owned input stream  *)
(* as parameter or result; the stream itself is StreamTransfer's writer,   *)
(* which never returns once its stream is closed (lib.rs 495-497): here a  *)
(* running writer finishes only by being dropped or by a failed write.     *)
(***************************************************************************)
EXTENDS Naturals, Sequences, FiniteSets

CONSTANTS
    Funcs,          \* the functions the served component exports
    Calls,          \* the invocations made in a behaviour
    Target,         \* Target[c]: the function c invokes
    Parent,         \* Parent[c]: the call whose guest makes c, or NoCall
    NoCall,
    StreamParam,    \* calls passing an owned input stream as parameter
    StreamResult,   \* calls whose result value carries an owned input stream
    FrameResult,    \* calls with a result read from the result frame (not
                    \* only owned streams, and not none)
    ReadsToEnd,     \* functions whose guest reads its stream parameter to the end
    HasTimeout      \* WrpcView::timeout() is Some (always so in wasmtime-cli)

VARIABLES
    cpc,            \* caller: "idle" | "transfer" | "ok" | "err"
    ptx,            \* the tx future: "params" | "done"
    prx,            \* the rx future: "wait" | "got"
    pw,             \* parameter stream writer: "none" | "running" | "dropped"
    cliOpen,        \* the caller still holds the session
    rread,          \* result stream at the caller: "none" | "held" | "dropped"
    queue,          \* queue[f]: invocations of f not yet accepted
    hpc,            \* hpc[f]: where f's handler task is
    hcall,          \* hcall[f]: the invocation f's handler is serving
    lock,           \* owner of the shared store mutex, or NoCall
    ran,            \* calls whose guest function returned successfully
    res,            \* calls whose result frame the server has written
    rw,             \* result stream writer: "none" | "running" | "failed"
    served,         \* calls whose handler has finished with them
    shared          \* the component is served on one shared store

cli == <<cpc, ptx, prx, pw, cliOpen, rread>>
srv == <<queue, hpc, hcall, lock, ran, res, rw, served, shared>>
vars == <<cli, srv>>

Serving == {"decode", "run", "nested", "write", "deferred", "post"}

Nested(c) == {n \in Calls : Parent[n] = c}

Init ==
    /\ cpc = [c \in Calls |-> "idle"]
    /\ ptx = [c \in Calls |-> "params"]
    /\ prx = [c \in Calls |-> "wait"]
    /\ pw = [c \in Calls |-> "none"]
    /\ cliOpen = [c \in Calls |-> FALSE]
    /\ rread = [c \in Calls |-> "none"]
    /\ queue = [f \in Funcs |-> <<>>]
    /\ hpc = [f \in Funcs |-> "accept"]
    /\ hcall = [f \in Funcs |-> NoCall]
    /\ lock = NoCall
    /\ ran = {}
    /\ res = {}
    /\ rw = [c \in Calls |-> "none"]
    /\ served = {}
    \* handle_serve (cli lib.rs 630-641): serve_shared when the component
    \* exports a guest resource, serve_stateless otherwise.
    /\ shared \in BOOLEAN

(***************************************************************************)
(* Caller: the polyfill stub.                                              *)
(***************************************************************************)
\* Encoding the parameters deletes an owned stream from the caller's table
\* and leaves its writer; invoke opens the session and sends the frame.
StartCall(c) ==
    /\ cpc' = [cpc EXCEPT ![c] = "transfer"]
    /\ pw' = [pw EXCEPT ![c] = IF c \in StreamParam THEN "running" ELSE "none"]
    /\ cliOpen' = [cliOpen EXCEPT ![c] = TRUE]
    /\ queue' = [queue EXCEPT ![Target[c]] = Append(@, c)]

\* Mutant: an invocation that may be sent again after it was sent.
InvokeAgain(c) ==
    /\ Parent[c] = NoCall
    /\ StartCall(c)
    /\ UNCHANGED <<ptx, prx, rread, hpc, hcall, lock, ran, res, rw, served, shared>>

Invoke(c) ==
    /\ cpc[c] = "idle"
    /\ Parent[c] = NoCall
    /\ StartCall(c)
    /\ UNCHANGED <<ptx, prx, rread, hpc, hcall, lock, ran, res, rw, served, shared>>

\* A parameter the encoder refuses, or a failed invoke: the stub returns the
\* error before any session exists (lib.rs 1034-1035, 1052-1054).
StartFails(c) ==
    /\ cpc' = [cpc EXCEPT ![c] = "err"]
    /\ UNCHANGED <<ptx, prx, pw, cliOpen, rread, queue>>

InvokeFails(c) ==
    /\ cpc[c] = "idle"
    /\ Parent[c] = NoCall
    /\ StartFails(c)
    /\ UNCHANGED srv

\* try_join_all over the parameter writers, then flush and shutdown.  A
\* running writer never completes, so tx only finishes without one.
TxDone(c) ==
    /\ cpc[c] = "transfer"
    /\ ptx[c] = "params"
    /\ pw[c] = "none"
    /\ ptx' = [ptx EXCEPT ![c] = "done"]
    /\ UNCHANGED <<cpc, prx, pw, cliOpen, rread, srv>>

\* read_value of each result: only a value outside owned streams reads the
\* result frame; a stream result is bound to its sub-channel without a
\* read, and with no results the loop reads nothing.
RxDone(c) ==
    /\ cpc[c] = "transfer"
    /\ prx[c] = "wait"
    /\ c \in FrameResult => c \in res
    /\ prx' = [prx EXCEPT ![c] = "got"]
    /\ rread' = [rread EXCEPT ![c] = IF c \in StreamResult THEN "held" ELSE "none"]
    /\ UNCHANGED <<cpc, ptx, pw, cliOpen, srv>>

\* Mutant: the call returns once either tx or rx is done.
SucceedOnFirst(c) ==
    /\ cpc[c] = "transfer"
    /\ ptx[c] = "done" \/ prx[c] = "got"
    /\ cpc' = [cpc EXCEPT ![c] = "ok"]
    /\ cliOpen' = [cliOpen EXCEPT ![c] = FALSE]
    /\ UNCHANGED <<ptx, prx, pw, rread, srv>>

Succeed(c) ==
    /\ cpc[c] = "transfer"
    /\ ptx[c] = "done"
    /\ prx[c] = "got"
    /\ cpc' = [cpc EXCEPT ![c] = "ok"]
    /\ cliOpen' = [cliOpen EXCEPT ![c] = FALSE]
    /\ UNCHANGED <<ptx, prx, pw, rread, srv>>

\* The call returns an error: try_join! drops the other future, and with it
\* the parameter writers and the session.
FailCall(c) ==
    /\ cpc' = [cpc EXCEPT ![c] = "err"]
    /\ pw' = [pw EXCEPT ![c] = IF @ = "running" THEN "dropped" ELSE @]
    /\ cliOpen' = [cliOpen EXCEPT ![c] = FALSE]
    /\ rread' = [rread EXCEPT ![c] = IF @ = "held" THEN "dropped" ELSE @]
    /\ UNCHANGED <<ptx, prx, srv>>

\* The server dropped the session before writing the results.
RxFails(c) ==
    /\ cpc[c] = "transfer"
    /\ prx[c] = "wait"
    /\ c \in FrameResult \cap (served \ res)
    /\ FailCall(c)

\* tokio::time::timeout around tx or rx fires.
Timeout(c) ==
    /\ HasTimeout
    /\ cpc[c] = "transfer"
    /\ ~(ptx[c] = "done" /\ prx[c] = "got")
    /\ FailCall(c)

\* The calling guest is done with the result stream it received.
DropResult(c) ==
    /\ cpc[c] = "ok"
    /\ rread[c] = "held"
    /\ rread' = [rread EXCEPT ![c] = "dropped"]
    /\ UNCHANGED <<cpc, ptx, prx, pw, cliOpen, srv>>

(***************************************************************************)
(* Server: the handler task of function f.                                 *)
(***************************************************************************)
\* The handler finishes with its invocation: the future's error is logged,
\* the store guard and the session are dropped, the next one is accepted.
\* Mutant: the store guard outlives the invocation.
ReleaseKeepsStore(f) ==
    /\ hpc' = [hpc EXCEPT ![f] = "accept"]
    /\ hcall' = [hcall EXCEPT ![f] = NoCall]
    /\ UNCHANGED lock
    /\ served' = served \cup {hcall[f]}

Release(f) ==
    /\ hpc' = [hpc EXCEPT ![f] = "accept"]
    /\ hcall' = [hcall EXCEPT ![f] = NoCall]
    /\ lock' = IF lock = hcall[f] THEN NoCall ELSE lock
    /\ served' = served \cup {hcall[f]}

\* serve_function moves its fresh store into the invocation future, so the
\* store, and with it every stream the guest still holds in its table (the
\* result streams of its own imports), is dropped when the future ends.  The
\* shared store outlives the invocation.
DropStore(f) ==
    rread' = IF shared THEN rread
             ELSE [c \in Calls |-> IF c \in Nested(hcall[f]) /\ rread[c] = "held"
                                  THEN "dropped" ELSE rread[c]]

EndInvocation(f) ==
    /\ Release(f)
    /\ DropStore(f)
    /\ UNCHANGED <<cpc, ptx, prx, pw, cliOpen, queue, ran, res, rw, shared>>

\* The invocation future: serve_function builds a fresh store and
\* instantiates the component in it; serve_function_shared, whose function
\* was looked up once at registration, first awaits the mutex.
CallEntry == IF shared THEN "lock" ELSE "instantiate"

\* invocations.next().await, then the future is awaited in the loop.
Accept(f) ==
    /\ hpc[f] = "accept"
    /\ queue[f] # <<>>
    /\ hcall' = [hcall EXCEPT ![f] = Head(queue[f])]
    /\ queue' = [queue EXCEPT ![f] = Tail(@)]
    /\ hpc' = [hpc EXCEPT ![f] = CallEntry]
    /\ UNCHANGED <<cli, lock, ran, res, rw, served, shared>>

\* instantiate_async and get_func on the fresh store; either may fail, and
\* the future returns the error before call().
Instantiate(f) ==
    /\ hpc[f] = "instantiate"
    /\ hpc' = [hpc EXCEPT ![f] = "decode"]
    /\ UNCHANGED <<cli, queue, hcall, lock, ran, res, rw, served, shared>>

InstantiateFails(f) ==
    /\ hpc[f] = "instantiate"
    /\ EndInvocation(f)

\* store.lock().await: the guard is held for the whole of call().
Lock(f) ==
    /\ hpc[f] = "lock"
    /\ lock = NoCall
    /\ lock' = hcall[f]
    /\ hpc' = [hpc EXCEPT ![f] = "decode"]
    /\ UNCHANGED <<cli, queue, hcall, ran, res, rw, served, shared>>

\* read_value of the parameters; the frame was sent by invoke.
Decode(f) ==
    /\ hpc[f] = "decode"
    /\ hpc' = [hpc EXCEPT ![f] = "run"]
    /\ UNCHANGED <<cli, queue, hcall, lock, ran, res, rw, served, shared>>

\* Once the caller has dropped the session the read may fail.
DecodeFails(f) ==
    /\ hpc[f] = "decode"
    /\ ~cliOpen[hcall[f]]
    /\ EndInvocation(f)

\* call_async: the guest calls an import, i.e. the polyfill stub, from
\* within the store that is serving.
CallImport(f) ==
    /\ hpc[f] = "run"
    /\ \E c \in Nested(hcall[f]) :
          /\ cpc[c] = "idle"
          /\ StartCall(c) \/ StartFails(c)
    /\ hpc' = [hpc EXCEPT ![f] = "nested"]
    /\ UNCHANGED <<ptx, prx, rread, hcall, lock, ran, res, rw, served, shared>>

ImportReturns(f) ==
    /\ hpc[f] = "nested"
    /\ \A c \in Nested(hcall[f]) : cpc[c] # "transfer"
    /\ \/ /\ \A c \in Nested(hcall[f]) : cpc[c] # "err"
          /\ hpc' = [hpc EXCEPT ![f] = "run"]
          /\ UNCHANGED <<cli, queue, hcall, lock, ran, res, rw, served, shared>>
       \/ /\ \E c \in Nested(hcall[f]) : cpc[c] = "err"
          /\ EndInvocation(f)

\* The guest function returns; one that reads its stream parameter to the
\* end can only return once the sub-channel has ended, i.e. once the
\* caller's writer has been dropped.
GuestReturns(f) ==
    /\ hpc[f] = "run"
    /\ \A c \in Nested(hcall[f]) : cpc[c] # "idle"
    /\ hcall[f] \in StreamParam /\ f \in ReadsToEnd => pw[hcall[f]] = "dropped"
    /\ hpc' = [hpc EXCEPT ![f] = "write"]
    /\ ran' = ran \cup {hcall[f]}
    /\ UNCHANGED <<cli, queue, hcall, lock, res, rw, served, shared>>

GuestTraps(f) ==
    /\ hpc[f] = "run"
    /\ EndInvocation(f)

\* Encode the results, write_all, flush, shutdown (lib.rs 1136-1153).  No
\* other task observes the session between these awaits: the caller reads
\* the frame only once it is flushed, and a failed shutdown is only traced.
WriteResults(f) ==
    /\ hpc[f] = "write"
    /\ cliOpen[hcall[f]]
    /\ res' = res \cup {hcall[f]}
    /\ rw' = [rw EXCEPT ![hcall[f]] = IF hcall[f] \in StreamResult THEN "running" ELSE "none"]
    /\ hpc' = [hpc EXCEPT ![f] = "deferred"]
    /\ UNCHANGED <<cli, queue, hcall, lock, ran, served, shared>>

WriteFails(f) ==
    /\ hpc[f] = "write"
    /\ ~cliOpen[hcall[f]]
    /\ EndInvocation(f)

\* A result value the encoder refuses (a borrowed stream, a host resource).
EncodeFails(f) ==
    /\ hpc[f] = "write"
    /\ EndInvocation(f)

\* try_join_all over the result writers (lib.rs 1154-1162).
Deferred(f) ==
    /\ hpc[f] = "deferred"
    /\ \/ /\ rw[hcall[f]] = "none"
          /\ hpc' = [hpc EXCEPT ![f] = "post"]
          /\ UNCHANGED <<cli, queue, hcall, lock, ran, res, rw, served, shared>>
       \/ /\ rw[hcall[f]] = "failed"
          /\ EndInvocation(f)

\* A result writer's write_all fails once the caller's reader is gone.
ResultWriterFails(c) ==
    /\ rw[c] = "running"
    /\ rread[c] # "held"
    /\ ~cliOpen[c] \/ rread[c] = "dropped"
    /\ rw' = [rw EXCEPT ![c] = "failed"]
    /\ UNCHANGED <<cli, queue, hpc, hcall, lock, ran, res, served, shared>>

PostReturn(f) ==
    /\ hpc[f] = "post"
    /\ EndInvocation(f)

Caller(c) ==
    Invoke(c) \/ InvokeFails(c) \/ TxDone(c) \/ RxDone(c) \/ Succeed(c) \/ RxFails(c) \/ DropResult(c)

Handler(f) ==
    \/ Accept(f) \/ Instantiate(f) \/ Decode(f) \/ DecodeFails(f) \/ CallImport(f) \/ ImportReturns(f)
    \/ GuestReturns(f) \/ WriteResults(f) \/ WriteFails(f) \/ Deferred(f) \/ PostReturn(f)

Next ==
    \/ \E c \in Calls : Caller(c) \/ Timeout(c) \/ ResultWriterFails(c)
    \/ \E f \in Funcs : Handler(f) \/ Lock(f) \/ GuestTraps(f)
                        \/ InstantiateFails(f) \/ EncodeFails(f)

\* Every task is polled when it can progress; the timer of a pending
\* deadline eventually fires; tokio's Mutex hands the store out in FIFO
\* order, so a handler that keeps asking for it gets it.  Invoke, failures
\* (a trap, a refused value, a failed instantiation) and a guest dropping a
\* stream it holds are choices of the environment and are not forced.
Fairness ==
    /\ \A c \in Calls : /\ WF_vars(TxDone(c) \/ RxDone(c) \/ Succeed(c) \/ RxFails(c))
                        /\ WF_vars(Timeout(c)) /\ WF_vars(ResultWriterFails(c))
    /\ \A f \in Funcs : /\ WF_vars(Accept(f) \/ Instantiate(f) \/ Decode(f)
                                   \/ CallImport(f) \/ ImportReturns(f)
                                   \/ GuestReturns(f) \/ WriteResults(f) \/ WriteFails(f)
                                   \/ Deferred(f) \/ PostReturn(f))
                        /\ SF_vars(Lock(f))

Spec == Init /\ [][Next]_vars /\ Fairness

-----------------------------------------------------------------------------
TypeOK ==
    /\ cpc \in [Calls -> {"idle", "transfer", "ok", "err"}]
    /\ ptx \in [Calls -> {"params", "done"}]
    /\ prx \in [Calls -> {"wait", "got"}]
    /\ pw \in [Calls -> {"none", "running", "dropped"}]
    /\ rread \in [Calls -> {"none", "held", "dropped"}]
    /\ rw \in [Calls -> {"none", "running", "failed"}]
    /\ hpc \in [Funcs -> {"accept", "instantiate", "lock"} \cup Serving]
    /\ lock \in Calls \cup {NoCall}
    /\ \A f \in Funcs : Len(queue[f]) <= Cardinality(Calls)

\* With the shared store, a handler is inside call() exactly when it holds
\* the store mutex for the invocation it serves: every exit of call(),
\* error paths included, gives the store back, and no two invocations use
\* the store at once.
StoreGuarded ==
    shared =>
        /\ \A f \in Funcs : hpc[f] \in Serving <=> (hcall[f] # NoCall /\ lock = hcall[f])
        /\ lock # NoCall => \E f \in Funcs : hcall[f] = lock

\* A caller that reads a result value from the result frame sees success
\* only for an invocation whose guest function ran to completion and whose
\* result frame the server wrote for it: neither a timeout, nor a session
\* the server dropped, nor the tx future finishing first turns into Ok.
OkImpliesServed == \A c \in FrameResult : cpc[c] = "ok" => c \in ran \cap res

\* Spec 7: a trap of the host function is fatal to the call, and errors are
\* propagated to the boundary.  Stated for every call: a caller sees success
\* only when the function it invoked returned.
OkImpliesReturned == \A c \in Calls : cpc[c] = "ok" => c \in ran

=============================================================================
