--------------------------- MODULE SharedResources ---------------------------
(***************************************************************************)
(* Guest-exported resources served in shared-store mode, as the example    *)
(* resources-component-server exercises them: a client guest calls the     *)
(* server's [constructor]foo, then passes the handle back owned to foo     *)
(* (which consumes it) or borrowed to bar and [method]foo.bar.             *)
(*                                                                         *)
(* Server (runtime-wasmtime lib.rs): call() decodes an own/borrow<foo> by  *)
(* looking its uuid up in the SharedResourceTable (838-872) and encodes an *)
(* own<foo> result by minting a uuid and inserting it (535-550).  Nothing  *)
(* ever removes an entry.  Every served call runs under the store mutex    *)
(* (serve_function_shared), so each is one atomic step here.               *)
(*                                                                         *)
(* Client (the importing host): read_value pushes the uuid bytes as a      *)
(* RemoteResource into its table (873-889); the encoder deletes an owned   *)
(* RemoteResource from the table and only reads a borrowed one (515-534);  *)
(* the destructor linked for imported resource types does nothing (967).   *)
(***************************************************************************)
EXTENDS Naturals, FiniteSets, TLC

CONSTANTS
    MaxResources,   \* constructor calls the client makes
    Faults          \* transport and decode failures may happen

VARIABLES
    live,           \* reps of Foo alive in the serving guest
    nextRep,        \* the rep the next Foo::new gets
    shared,         \* the SharedResourceTable: uuid -> rep
    nextId,         \* the next uuid Uuid::now_v7 mints
    ctable,         \* client's host ResourceTable: handle -> uuid (RemoteResource)
    held,           \* handles the client guest owns
    nextHandle,     \* the next client table slot
    stale           \* a borrow was lowered for a Foo the guest has dropped

vars == <<live, nextRep, shared, nextId, ctable, held, nextHandle, stale>>

Init ==
    /\ live = {}
    /\ nextRep = 1
    /\ shared = <<>>
    /\ nextId = 1
    /\ ctable = <<>>
    /\ held = {}
    /\ nextHandle = 1
    /\ stale = FALSE

\* table.delete of a RemoteResource.
Delete(t, h) == [k \in DOMAIN t \ {h} |-> t[k]]

\* The serving guest (resources-component-server): Foo::new makes a fresh
\* Foo; foo(_: Foo) takes its argument by value and drops it on return;
\* bar(&self) and bar(v: FooBorrow) only need the Foo to exist.
FooNew == live \cup {nextRep}
FooConsumed(u) == live \ {shared[u]}
FooBorrowed(u) == shared[u] \in live

(***************************************************************************)
(* [constructor]foo: call_async runs Foo::new (example lines 20-22); the   *)
(* own<foo> result is encoded by minting a uuid and inserting it, an       *)
(* existing entry being overwritten (546).  The result frame then reaches  *)
(* the client, whose read_value pushes a RemoteResource, or transmission   *)
(* or decoding fails and the call errors after the entry was inserted.     *)
(***************************************************************************)
New ==
    /\ nextRep <= MaxResources
    /\ live' = FooNew
    /\ nextRep' = nextRep + 1
    /\ shared' = (nextId :> nextRep) @@ shared
    /\ nextId' = nextId + 1
    /\ \/ /\ ctable' = (nextHandle :> nextId) @@ ctable
          /\ held' = held \cup {nextHandle}
          /\ nextHandle' = nextHandle + 1
       \/ /\ Faults
          /\ UNCHANGED <<ctable, held, nextHandle>>
    /\ UNCHANGED stale

(***************************************************************************)
(* [static]foo.foo(own<foo>): the client's encoder deletes the handle from *)
(* its table before invoking (520-523, 1030-1036).  If the invocation goes *)
(* through, the server looks the uuid up and lowers the Foo into the       *)
(* guest, which drops it when foo returns (example 24-26); the table entry *)
(* stays.  If invoke, transmission or the lookup fails, the error comes    *)
(* after the delete.                                                       *)
(***************************************************************************)
\* Mutant: the owned RemoteResource is read from the table, not deleted.
ConsumeKeepsHandle(h) ==
    /\ h \in held
    /\ held' = held \ {h}
    /\ UNCHANGED ctable
    /\ live' = IF ctable[h] \in DOMAIN shared THEN FooConsumed(ctable[h]) ELSE live
    /\ UNCHANGED <<nextRep, shared, nextId, nextHandle, stale>>

Consume(h) ==
    /\ h \in held
    /\ held' = held \ {h}
    /\ ctable' = Delete(ctable, h)
    /\ \/ /\ ctable[h] \in DOMAIN shared
          /\ live' = FooConsumed(ctable[h])
       \/ /\ Faults
          /\ UNCHANGED live
    /\ UNCHANGED <<nextRep, shared, nextId, nextHandle, stale>>

\* bar(borrow<foo>) and [method]foo.bar: the client reads its handle, the
\* server looks the uuid up and lowers a borrow of the Foo it names
\* (example 28-30, 36-39).  Lowering a Foo the guest already dropped fails.
\* Mutant: the borrowed RemoteResource is taken out of the table.
BorrowDeletes(h) ==
    /\ h \in held
    /\ ctable[h] \in DOMAIN shared
    /\ ctable' = Delete(ctable, h)
    /\ stale' = (stale \/ ~FooBorrowed(ctable[h]))
    /\ UNCHANGED <<live, nextRep, shared, nextId, held, nextHandle>>

Borrow(h) ==
    /\ h \in held
    /\ ctable[h] \in DOMAIN shared
    /\ stale' = (stale \/ ~FooBorrowed(ctable[h]))
    /\ UNCHANGED <<live, nextRep, shared, nextId, ctable, held, nextHandle>>

\* The client guest drops its handle: the destructor linked for imported
\* resource types returns Ok(()) and does nothing else (964-968).
ClientDrops(h) ==
    /\ h \in held
    /\ held' = held \ {h}
    /\ UNCHANGED <<live, nextRep, shared, nextId, ctable, nextHandle, stale>>

Next ==
    \/ New
    \/ \E h \in DOMAIN ctable : Consume(h)
    \/ \E h \in DOMAIN ctable : Borrow(h)
    \/ \E h \in DOMAIN ctable : ClientDrops(h)

Spec == Init /\ [][Next]_vars

-----------------------------------------------------------------------------
TypeOK ==
    /\ live \subseteq 1..MaxResources
    /\ shared \in [DOMAIN shared -> 1..MaxResources]
    /\ DOMAIN shared \subseteq 1..MaxResources
    /\ held \subseteq DOMAIN ctable
    /\ stale \in BOOLEAN

\* Every handle still in the client's table names, through the server's
\* SharedResourceTable, a Foo the serving guest still has: the client
\* deletes an owned handle before the server consumes it, and uuids are
\* never reused, so the entries the table keeps for consumed Foos are
\* unreachable and no borrow is ever lowered for a dropped Foo.
RemoteHandlesLive ==
    /\ \A h \in DOMAIN ctable :
          ctable[h] \in DOMAIN shared /\ shared[ctable[h]] \in live
    /\ ~stale

=============================================================================
