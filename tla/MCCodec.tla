------------------------------- MODULE MCCodec -------------------------------
(***************************************************************************)
(* Bounded inputs for Codec: a catalogue of types covering every arm of    *)
(* encode and read_value, each paired with every value of a small value    *)
(* set, and a host store holding two input streams and two remote          *)
(* resources.  Guest resources of identity "G" are held by the guest (not  *)
(* in the host table); "H" is a host resource of some other type.          *)
(***************************************************************************)
EXTENDS Codec

\* The host resource table the call starts from.
InitStore ==
    [res |-> (1 :> [rty |-> "stream", data |-> <<"hi">>])
             @@ (2 :> [rty |-> "stream", data |-> <<"world">>])
             @@ (3 :> [rty |-> "remote", data |-> <<7, 7>>])
             @@ (4 :> [rty |-> "remote", data |-> <<9>>]),
     shared |-> <<>>, nextId |-> 1, nextHandle |-> 10]

Sc(k) == [k |-> k]
Res(r, o) == [k |-> "res", rty |-> r, own |-> o]
Opt(t) == [k |-> "option", some |-> t]
Lst(t) == [k |-> "list", elem |-> t]
Tup(ts) == [k |-> "tuple", elems |-> ts]
Rec(ns, ts) == [k |-> "record", names |-> ns, fields |-> ts]
Rslt(o, e) == [k |-> "result", ok |-> o, err |-> e]
Flg(n) == [k |-> "flags", n |-> n]
Var(cs) == [k |-> "variant", cases |-> cs]

Stream == Res("stream", TRUE)

\* Types whose encoding places nothing after a RemoteResource.
CoreTypes ==
    { Sc("bool"), Sc("u8"), Sc("s8"), Sc("u32"), Sc("s32"), Sc("char"), Sc("string"),
      Lst(Sc("u32")), Lst(Stream), Lst(Lst(Stream)),
      Rec(<<"a", "b">>, <<Sc("u32"), Stream>>),
      Tup(<<Sc("s32"), Sc("string")>>), Tup(<<Stream, Opt(Stream)>>),
      Var(<<[name |-> "a", ty |-> NoVal], [name |-> "b", ty |-> Sc("u8")],
            [name |-> "c", ty |-> Stream]>>),
      [k |-> "enum", names |-> <<"x", "y", "z">>],
      Opt(Sc("u32")), Opt(Stream),
      Rslt(Sc("u8"), NoVal), Rslt(NoVal, Sc("string")), Rslt(NoVal, NoVal), Rslt(Stream, Sc("u8")),
      Flg(3), Flg(5), Flg(9), Flg(17), Flg(129),
      Stream, Res("stream", FALSE), Res("G", TRUE), Res("G", FALSE),
      Tup(<<Res("G", TRUE), Res("G", FALSE)>>), Lst(Res("G", TRUE)), Res("H", TRUE),
      Res("remote", TRUE), Res("remote", FALSE), Tup(<<Sc("u8"), Res("remote", TRUE)>>) }

\* Types with a value after a RemoteResource.
RemoteFirstTypes ==
    { Tup(<<Res("remote", TRUE), Sc("u8")>>), Lst(Res("remote", FALSE)) }

FlagSets(n) == {{}, {0}, {n - 1}, {0, n - 1}, {i \in 0..(n - 1) : i % 2 = 0}, {0, 64, 128} \cap 0..(n - 1)}

Handles(r) == CASE r = "stream" -> {1, 2} [] r = "remote" -> {3, 4} [] r = "G" -> {5, 6} [] OTHER -> {7}

RECURSIVE ValsOf(_)
ValsOf(t) ==
    LET Seqs(ts) == { [i \in DOMAIN ts |-> f[i]] : f \in {g \in [DOMAIN ts -> UNION {ValsOf(x) : x \in Range(ts)}] :
                                                            \A i \in DOMAIN ts : g[i] \in ValsOf(ts[i])} }
        W(k, xs) == {[k |-> k, v |-> x] : x \in xs}
    IN CASE t.k = "bool"   -> W("bool", BOOLEAN)
         [] t.k = "u8"     -> W("u8", {0, 200, 255})
         [] t.k = "s8"     -> W("s8", {-128, -1, 5})
         [] t.k = "u32"    -> W("u32", {0, 127, 128, 300, 16384})
         [] t.k = "s32"    -> W("s32", {-65, -64, -1, 0, 63, 64, 300})
         [] t.k = "char"   -> W("char", {97, 233, 8364, 128512})
         [] t.k = "string" -> W("string", {<<>>, <<111, 107>>, <<195, 169>>})
         [] t.k = "list"   -> W("list", BoundedSeq(ValsOf(t.elem), 2))
         [] t.k = "tuple"  -> W("tuple", Seqs(t.elems))
         [] t.k = "record" ->
               W("record", {[i \in DOMAIN s |-> [name |-> t.names[i], val |-> s[i]]] : s \in Seqs(t.fields)})
         [] t.k = "variant" ->
               UNION {IF c.ty = NoVal THEN {[k |-> "variant", case |-> c.name, v |-> NoVal]}
                      ELSE {[k |-> "variant", case |-> c.name, v |-> x] : x \in ValsOf(c.ty)}
                      : c \in Range(t.cases)}
         [] t.k = "enum"   -> W("enum", Range(t.names))
         [] t.k = "option" -> W("option", {NoVal} \cup ValsOf(t.some))
         [] t.k = "result" ->
               LET Side(p) == IF p = NoVal THEN {NoVal} ELSE ValsOf(p)
               IN {[k |-> "result", isOk |-> TRUE, v |-> x] : x \in Side(t.ok)}
                  \cup {[k |-> "result", isOk |-> FALSE, v |-> x] : x \in Side(t.err)}
         [] t.k = "flags"  -> W("flags", FlagSets(t.n))
         [] t.k = "res"    ->
               {[k |-> "res", rty |-> t.rty, h |-> h, own |-> t.own] : h \in Handles(t.rty)}

\* The owned handles a value carries, in order; wasmtime never hands the
\* same owned handle out twice.
RECURSIVE Owned(_)
Owned(v) ==
    CASE v = NoVal -> <<>>
      [] v.k \in {"list", "tuple"} -> FoldSeq(LAMBDA x, acc : acc \o Owned(x), <<>>, v.v)
      [] v.k = "record" -> FoldSeq(LAMBDA x, acc : acc \o Owned(x.val), <<>>, v.v)
      [] v.k \in {"variant", "option", "result"} -> Owned(v.v)
      [] v.k = "res" /\ v.own -> <<v.h>>
      [] OTHER -> <<>>

InputsOf(types) ==
    UNION {{[ty |-> t, val |-> v, st |-> InitStore] :
              v \in {x \in ValsOf(t) : Cardinality(Range(Owned(x))) = Len(Owned(x))}}
           : t \in types}

\* A host with 16 GiB of memory and swap: Linux's default overcommit
\* heuristic refuses a single allocation beyond that.
MCAllocLimitKiB == 2^24

\* Frames a peer may send: a list announcing more u32s than it carries
\* (spec 4.1, the loop fails on the short input), a list carrying what it
\* announces, and an opaque host resource.
MCFrames ==
    { [ty |-> Lst(Sc("u32")), bytes |-> <<3, 5>>],
      [ty |-> Lst(Sc("u32")), bytes |-> <<2, 1, 2>>],
      [ty |-> Res("H", TRUE), bytes |-> <<2, 7, 7>>] }

\* Five bytes announcing 2^31 - 1 list elements (the largest count TLC's
\* 32-bit integers hold; the wire allows 2^32 - 1), and no element.
MCHostileFrames == MCFrames \cup { [ty |-> Lst(Sc("u32")), bytes |-> <<255, 255, 255, 255, 7>>] }

\* One input: the violation needs nothing of the encoder.
MCOneInput == {[ty |-> Sc("bool"), val |-> [k |-> "bool", v |-> TRUE], st |-> InitStore]}

MCInputs == InputsOf(CoreTypes)
MCRemoteInputs == InputsOf(RemoteFirstTypes)

=============================================================================
