---------------------------- MODULE MCServeWorkload ----------------------------
(***************************************************************************)
(* The resources example served next to a root function: the server       *)
(* exports hello() and the interface wrpc-examples:resources/resources     *)
(* (resource foo, its constructor, static and method, and bar), so it is   *)
(* served on a shared store.  It imports wasi:io/streams@0.2.0, which the  *)
(* host supplies, and wasi:clocks/timezone@0.2.0, below timezone's minimum *)
(* patch, which is polyfilled.  The client imports the same interface and *)
(* function, wasi:cli/environment@0.2.3 and wasi:clocks/timezone@0.2.1.    *)
(***************************************************************************)
EXTENDS ServeWorkload

Item(kind, fn, name, iface, exports) ==
    [kind |-> kind, fn |-> fn, name |-> name, iface |-> iface, imports |-> <<>>, exports |-> exports]

Func(fn, name) == Item("func", fn, name, <<>>, <<>>)

Interface(full, pkg, name, version, exports) ==
    Item("instance", "", full, [pkg |-> pkg, name |-> name, version |-> version], exports)

ResourcesIface ==
    Interface("wrpc-examples:resources/resources", "wrpc-examples:resources", "resources", <<>>,
        << Item("resource", "", "foo", <<>>, <<>>),
           Func("[constructor]", "foo"),
           Func("[static]", "foo.foo"),
           Func("[method]", "foo.bar"),
           Func("", "bar") >>)

MCExports == << Func("", "hello"), ResourcesIface >>

MCServerImports ==
    << Interface("wasi:io/streams@0.2.0", "wasi:io", "streams", <<0, 2, 0, FALSE>>,
           << Item("resource", "", "output-stream", <<>>, <<>>) >>),
       Interface("wasi:clocks/timezone@0.2.0", "wasi:clocks", "timezone", <<0, 2, 0, FALSE>>,
           << Item("type", "", "timezone-display", <<>>, <<>>), Func("", "display") >>) >>

MCClientImports ==
    << Interface("wasi:cli/environment@0.2.3", "wasi:cli", "environment", <<0, 2, 3, FALSE>>,
           << Func("", "get-environment") >>),
       Interface("wasi:clocks/timezone@0.2.1", "wasi:clocks", "timezone", <<0, 2, 1, FALSE>>,
           << Func("", "display") >>),
       ResourcesIface,
       Func("", "hello") >>

=============================================================================
