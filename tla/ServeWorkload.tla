---------------------------- MODULE ServeWorkload ----------------------------
(***************************************************************************)
(* Bringing a workload up, as wasmtime-cli does it, and the polyfill walk  *)
(* of runtime-wasmtime it relies on.                                       *)
(*                                                                         *)
(* instantiate_pre (cli lib.rs 196-260) walks the component's imports:     *)
(* interfaces the host supplies natively (an exact (package, interface)    *)
(* match with a 0.2 version of a minimum patch) are skipped, everything    *)
(* else goes through link_item (lib.rs 916-972), whose errors are logged   *)
(* and ignored; pre-instantiation then fails unless every import resolved. *)
(* link_item installs a stub for a function, descends into an instance     *)
(* (link_instance, 975-1002) with its name as namespace and stops at the   *)
(* first item it cannot polyfill (the ? of the loop).                      *)
(*                                                                         *)
(* handle_serve (612-646) serves the component on one shared store when    *)
(* collect_component_resources (1171-1214) finds an exported resource, on  *)
(* a fresh store per call otherwise.  serve_shared / serve_stateless       *)
(* (319-609) visit the root exports and the exports of each root instance, *)
(* register each function with the transport (serve_function(_shared),     *)
(* 1217-1255, 1298-1341) and spawn its handler into a JoinSet; the first   *)
(* failed registration returns Err, and handle_serve returning drops the   *)
(* JoinSet, which aborts the handlers already spawned.  Otherwise          *)
(* handle_serve joins the handlers, which end when their invocation        *)
(* stream ends.                                                            *)
(*                                                                         *)
(* A second host (the client, e.g. `wrpc-wasmtime run`) pre-instantiates a *)
(* component that imports what the server exports; its stubs invoke       *)
(* (namespace, rpc_func_name(name)) (link_function, 1043-1050).            *)
(*                                                                         *)
(* A component item is a record: kind ("func", "instance", "component",    *)
(* "resource", "type", "core", "module"), name (for a function, the name   *)
(* without its [constructor]/[method]/[static] prefix, which is fn),       *)
(* iface (for a root interface, its parsed package, interface and version, *)
(* <<>> when the name has no '/'), imports and exports (of an instance or  *)
(* a component type).                                                      *)
(***************************************************************************)
EXTENDS Naturals, Sequences, SequencesExt

CONSTANTS
    Exports,        \* the served component's exports
    ServerImports,  \* the served component's imports
    ClientImports,  \* the client component's imports
    Faults          \* instantiation and transport registration may fail

VARIABLES
    pc,             \* handle_serve: "start" | "instantiate" | "register" | "join" | "done" | "failed"
    mode,           \* "none" | "shared" | "stateless"
    k,              \* the export the registration loop is at, in Visits
    handlers,       \* JoinSet: endpoint -> "serving" | "ended" | "aborted"
    cpc,            \* client host: "start" | "ready" | "failed"
    cstubs,         \* the client's polyfill stubs: <<namespace, rpc name>>
    lock            \* the shared store's mutex: NoHolder or the endpoint whose call holds it

vars == <<pc, mode, k, handlers, cpc, cstubs, lock>>

\* rpc_func_name (lib.rs 42-52): strips [constructor], [static], [method].
RpcFuncName(it) == it.name

(***************************************************************************)
(* The host's native interfaces (cli lib.rs 215-241).                      *)
(***************************************************************************)
Is02(v, minPatch) == v # <<>> /\ v[1] = 0 /\ v[2] = 2 /\ v[3] >= minPatch /\ ~v[4]

NativeWasi == {
    [pkg |-> "wasi:cli", names |-> {"environment", "exit", "stderr", "stdin", "stdout",
        "terminal-input", "terminal-output", "terminal-stderr", "terminal-stdin",
        "terminal-stdout"}, minPatch |-> 0],
    [pkg |-> "wasi:clocks", names |-> {"monotonic-clock", "wall-clock"}, minPatch |-> 0],
    [pkg |-> "wasi:clocks", names |-> {"timezone"}, minPatch |-> 1],
    [pkg |-> "wasi:filesystem", names |-> {"preopens", "types"}, minPatch |-> 0],
    [pkg |-> "wasi:http", names |-> {"incoming-handler", "outgoing-handler", "types"}, minPatch |-> 0],
    [pkg |-> "wasi:io", names |-> {"error", "poll", "streams"}, minPatch |-> 0],
    [pkg |-> "wasi:random", names |-> {"insecure-seed", "insecure", "random"}, minPatch |-> 0],
    [pkg |-> "wasi:sockets", names |-> {"instance-network", "ip-name-lookup", "network",
        "tcp-create-socket", "tcp", "udp-create-socket", "udp"}, minPatch |-> 0]}

Native(it) ==
    LET n == it.iface IN
    /\ n # <<>>
    /\ \/ /\ n.pkg = "wrpc:rpc" /\ n.name \in {"transport", "error", "context", "invoker"}
          /\ n.version = <<0, 1, 0, FALSE>>
       \/ \E w \in NativeWasi : n.pkg = w.pkg /\ n.name \in w.names /\ Is02(n.version, w.minPatch)

(***************************************************************************)
(* The polyfill walk: the stubs it installs, and whether it got through.   *)
(***************************************************************************)
RECURSIVE LinkItem(_, _), LinkSeq(_, _)

\* Mutant: an instance's items are linked in the enclosing namespace.
LinkItemOuterNamespace(it, ns) ==
    CASE it.kind = "func"                -> [stubs |-> {<<ns, RpcFuncName(it)>>}, ok |-> TRUE]
      [] it.kind \in {"core", "module"}  -> [stubs |-> {}, ok |-> FALSE]
      [] it.kind = "component"           -> LinkSeq(it.imports, "")
      [] it.kind = "instance"            -> LinkSeq(it.exports, ns)
      [] OTHER                           -> [stubs |-> {}, ok |-> TRUE]

\* link_item: a function gets a stub invoking (instance, rpc name); core
\* functions and modules bail; a component's imports are linked at the
\* root namespace ""; an instance is entered under its own name; a resource
\* is defined as RemoteResource and a type needs nothing.
LinkItem(it, ns) ==
    CASE it.kind = "func"                -> [stubs |-> {<<ns, RpcFuncName(it)>>}, ok |-> TRUE]
      [] it.kind \in {"core", "module"}  -> [stubs |-> {}, ok |-> FALSE]
      [] it.kind = "component"           -> LinkSeq(it.imports, "")
      [] it.kind = "instance"            -> LinkSeq(it.exports, it.name)
      [] OTHER                           -> [stubs |-> {}, ok |-> TRUE]

\* The loops of link_instance and of the component arm: the first error
\* returns, and what was linked before it stays in the linker.
LinkSeq(items, ns) ==
    IF items = <<>> THEN [stubs |-> {}, ok |-> TRUE]
    ELSE LET first == LinkItem(Head(items), ns)
             rest == LinkSeq(Tail(items), ns)
         IN IF first.ok THEN [stubs |-> first.stubs \cup rest.stubs, ok |-> rest.ok]
            ELSE first

\* instantiate_pre: every import the host does not supply is polyfilled at
\* the root, a failure only logged; pre-instantiation needs all of them.
InstantiatePre(imports) ==
    LET linked == {LinkItem(imports[i], "") : i \in {i \in DOMAIN imports : ~Native(imports[i])}}
    IN [stubs |-> UNION {r.stubs : r \in linked}, ok |-> \A r \in linked : r.ok]

(***************************************************************************)
(* collect_component_resources: the exported resource types, at any depth. *)
(***************************************************************************)
RECURSIVE CollectItem(_), CollectSeq(_)

\* Mutant: resources inside an exported instance are not collected.
CollectItemShallow(it) ==
    CASE it.kind = "component" -> CollectSeq(it.exports)
      [] it.kind = "resource"  -> {it.name}
      [] OTHER                 -> {}

CollectItem(it) ==
    CASE it.kind \in {"component", "instance"} -> CollectSeq(it.exports)
      [] it.kind = "resource"                  -> {it.name}
      [] OTHER                                 -> {}

CollectSeq(items) == UNION {CollectItem(items[i]) : i \in DOMAIN items}

(***************************************************************************)
(* The export visits of serve_shared / serve_stateless: every root export  *)
(* and every export of a root instance, as <<instance name, item>>.        *)
(***************************************************************************)
Visits ==
    FlattenSeq([i \in DOMAIN Exports |->
        IF Exports[i].kind = "instance"
        THEN [j \in DOMAIN Exports[i].exports |-> <<Exports[i].name, Exports[i].exports[j]>>]
        ELSE <<<<"", Exports[i]>>>>])

Endpoint(v) == <<v[1], RpcFuncName(v[2])>>

\* The store mutex held by no call.
NoHolder == <<>>

\* Every endpoint the export loop may register.
Endpoints == {Endpoint(Visits[i]) : i \in DOMAIN Visits}

Init ==
    /\ pc = "start"
    /\ mode = "none"
    /\ k = 1
    /\ handlers = <<>>
    /\ cpc = "start"
    /\ cstubs = {}
    /\ lock = NoHolder

\* handle_serve: instantiate_pre, then the mode from the exported resources.
Start ==
    /\ pc = "start"
    /\ \/ /\ InstantiatePre(ServerImports).ok
          /\ mode' = IF CollectSeq(Exports) = {} THEN "stateless" ELSE "shared"
          /\ pc' = IF mode' = "shared" THEN "instantiate" ELSE "register"
       \/ /\ ~InstantiatePre(ServerImports).ok \/ Faults
          /\ pc' = "failed"
          /\ UNCHANGED mode
    /\ UNCHANGED <<k, handlers, cpc, cstubs, lock>>

\* serve_shared: the one instance, in the new store, before any export.
Instantiate ==
    /\ pc = "instantiate"
    /\ \/ pc' = "register"
       \/ Faults /\ pc' = "failed"
    /\ UNCHANGED <<mode, k, handlers, cpc, cstubs, lock>>

\* serve_function_shared takes the store mutex to look the function up
\* (1323-1337) and releases it before serve(); serve_function takes none.
StoreFree == mode = "stateless" \/ lock = NoHolder

\* Mutant: the handler is registered under the function's full name.
RegisterFullName ==
    /\ pc = "register"
    /\ k <= Len(Visits)
    /\ Visits[k][2].kind = "func"
    /\ StoreFree
    /\ handlers' = (<<Visits[k][1], <<Visits[k][2].fn, Visits[k][2].name>>>> :> "serving") @@ handlers
    /\ k' = k + 1
    /\ UNCHANGED <<pc, mode, cpc, cstubs, lock>>

\* A function export: serve_function(_shared) subscribes (instance, rpc
\* name) and its invocation stream's handler is spawned into the JoinSet.
Register ==
    /\ pc = "register"
    /\ k <= Len(Visits)
    /\ Visits[k][2].kind = "func"
    /\ StoreFree
    /\ handlers' = (Endpoint(Visits[k]) :> "serving") @@ handlers
    /\ k' = k + 1
    /\ UNCHANGED <<pc, mode, cpc, cstubs, lock>>

\* Mutant: the handlers were spawned detached, outliving the error.
RegisterFailsDetached ==
    /\ pc = "register"
    /\ k <= Len(Visits)
    /\ Visits[k][2].kind = "func"
    /\ StoreFree
    /\ Faults
    /\ pc' = "failed"
    /\ UNCHANGED <<mode, k, handlers, cpc, cstubs, lock>>

\* serve(...).await? fails: serve_* and handle_serve return Err, and the
\* dropped JoinSet aborts every handler spawned so far.
RegisterFails ==
    /\ pc = "register"
    /\ k <= Len(Visits)
    /\ Visits[k][2].kind = "func"
    /\ StoreFree
    /\ Faults
    /\ pc' = "failed"
    /\ handlers' = [e \in DOMAIN handlers |-> IF handlers[e] = "serving" THEN "aborted" ELSE handlers[e]]
    /\ UNCHANGED <<mode, k, cpc, cstubs, lock>>

\* Any other export is passed over, with a warning where it is a core
\* function, module, component or nested instance.
Skip ==
    /\ pc = "register"
    /\ k <= Len(Visits)
    /\ Visits[k][2].kind # "func"
    /\ k' = k + 1
    /\ UNCHANGED <<pc, mode, handlers, cpc, cstubs, lock>>

\* serve_* returns Ok; handle_serve awaits handlers.join_next().
Registered ==
    /\ pc = "register"
    /\ k > Len(Visits)
    /\ pc' = "join"
    /\ UNCHANGED <<mode, k, handlers, cpc, cstubs, lock>>

\* A shared-mode handler accepts an invocation: its future awaits the
\* store mutex (1354) and call() runs under it.
Call(e) ==
    /\ mode = "shared"
    /\ handlers[e] = "serving"
    /\ lock = NoHolder
    /\ lock' = e
    /\ UNCHANGED <<pc, mode, k, handlers, cpc, cstubs>>

\* call() has read the parameters and written the results; the future's
\* guard is dropped (1355-1366), and the handler loop awaits the next
\* invocation (cli 355-365).
CallReturns(e) ==
    /\ lock = e
    /\ lock' = NoHolder
    /\ UNCHANGED <<pc, mode, k, handlers, cpc, cstubs>>

\* A handler's invocation stream ends between two calls and its task
\* completes.
StreamEnds(e) ==
    /\ handlers[e] = "serving"
    /\ lock # e
    /\ handlers' = [handlers EXCEPT ![e] = "ended"]
    /\ UNCHANGED <<pc, mode, k, cpc, cstubs, lock>>

\* join_next() returns None: handle_serve returns Ok.
Join ==
    /\ pc = "join"
    /\ \A e \in DOMAIN handlers : handlers[e] # "serving"
    /\ pc' = "done"
    /\ UNCHANGED <<mode, k, handlers, cpc, cstubs, lock>>

\* The client host pre-instantiates its component.
ClientStart ==
    /\ cpc = "start"
    /\ cstubs' = InstantiatePre(ClientImports).stubs
    /\ cpc' = IF InstantiatePre(ClientImports).ok THEN "ready" ELSE "failed"
    /\ UNCHANGED <<pc, mode, k, handlers, lock>>

Next ==
    \/ Start \/ Instantiate \/ Register \/ RegisterFails \/ Skip \/ Registered \/ Join
    \/ \E e \in DOMAIN handlers : Call(e) \/ StreamEnds(e)
    \/ \E e \in Endpoints : CallReturns(e)
    \/ ClientStart

Spec == Init /\ [][Next]_vars

-----------------------------------------------------------------------------
\* The (instance, function) pairs a transport endpoint can be keyed by.
Namespaces == {""} \cup {Exports[i].name : i \in DOMAIN Exports}
RpcNames == {RpcFuncName(v[2]) : v \in ToSet(Visits)}

TypeOK ==
    /\ pc \in {"start", "instantiate", "register", "join", "done", "failed"}
    /\ mode \in {"none", "shared", "stateless"}
    /\ k \in 1..Len(Visits) + 1
    /\ DOMAIN handlers \subseteq Namespaces \X RpcNames
    /\ \A e \in DOMAIN handlers : handlers[e] \in {"serving", "ended", "aborted"}
    /\ cpc \in {"start", "ready", "failed"}
    /\ lock \in {NoHolder} \cup Endpoints

\* Every item of the export tree, at any depth.
RECURSIVE Items(_)
Items(items) == UNION {{items[i]} \cup Items(items[i].exports) : i \in DOMAIN items}

\* Spec 4.5: the shared store is required whenever the component exports a
\* resource, and the per-call store only suits one that exports none:
\* handle_serve's choice from collect_component_resources matches the
\* resources anywhere in the exported instances.
ModeAsRequired ==
    mode # "none" => (mode = "shared" <=> \E it \in Items(Exports) : it.kind = "resource")

\* The functions a served component offers: its root functions and the
\* functions of its root instances, keyed by (instance, rpc name).
Declared ==
    {<<"", RpcFuncName(Exports[i])>> : i \in {i \in DOMAIN Exports : Exports[i].kind = "func"}}
    \cup UNION {{<<Exports[i].name, RpcFuncName(f)>> : f \in {f \in ToSet(Exports[i].exports) : f.kind = "func"}}
                : i \in {i \in DOMAIN Exports : Exports[i].kind = "instance"}}

\* When handle_serve has finished registering it has a handler for every
\* declared function; when it has returned an error, a registration having
\* failed after others went through, none of its handlers still serves.
ServedAsDeclared ==
    /\ pc \in {"join", "done"} => DOMAIN handlers = Declared
    /\ pc = "failed" => \A e \in DOMAIN handlers : handlers[e] # "serving"

\* Composition: once the server has registered its exports and the client
\* is pre-instantiated, every stub the client's polyfill installed for a
\* namespace the server exports invokes an endpoint the server registered.
StubsServed ==
    (pc \in {"join", "done"} /\ cpc = "ready") =>
        \A s \in cstubs : s[1] \in Namespaces => s \in DOMAIN handlers

=============================================================================
