-------------------------------- MODULE Codec --------------------------------
(***************************************************************************)
(* The schema-directed value codec of runtime-wasmtime (C1): ValEncoder's  *)
(* encode (lib.rs 146-559) and read_value (lib.rs 568-892).                *)
(*                                                                         *)
(* Types and values are records.  A type is [k |-> kind, ...]; a value is  *)
(* [k |-> kind, v |-> payload].  A resource value is [k |-> "res",         *)
(* rty |-> identity, h |-> handle, own |-> BOOLEAN]; a host handle indexes *)
(* the host resource table st.res, which maps it to [rty, data].  The      *)
(* identity rty is "stream" (wasi input-stream), "remote"                  *)
(* (RemoteResource), a member of Resources (guest-exported) or any other   *)
(* name (a host resource).                                                 *)
(*                                                                         *)
(* The store record st = [res, shared, nextId, nextHandle] is threaded     *)
(* through both directions: res is the host resource table, shared the     *)
(* SharedResourceTable (uuid -> resource), nextId the next v7 uuid, and    *)
(* nextHandle the next free slot of the host table.                        *)
(*                                                                         *)
(* Encode returns [ok, bytes, def, st]: def is the set of sub-channel      *)
(* paths (relative to the value's own channel) on which deferred writers   *)
(* will run; {} is "no deferred writer".  Decode returns [ok, val, rest,   *)
(* st] where rest is the unread input and path the value's channel path.   *)
(***************************************************************************)
EXTENDS Integers, Sequences, FiniteSets, SequencesExt

CONSTANTS
    NoVal,      \* absent payload / absent type (Option::None)
    Resources,  \* guest-exported resource identities (the `resources` slice)
    Inputs,     \* the (type, value, store) triples the codec is run on
    Frames,     \* [ty, bytes]: parameter frames a peer sends, well-formed or not
    ValSize,    \* size_of::<Val>() in bytes
    AllocLimitKiB   \* the largest allocation the host's allocator grants, in KiB

VARIABLES
    pc,     \* "init" | "encoded" | "encodeFailed" | "decoded" | "decodeFailed"
            \* | "received" | "receiveFailed" | "aborted"
    ty,     \* the type descriptor
    val,    \* the value handed to the encoder
    st0,    \* the store before encoding (to interpret val's handles)
    st,     \* the store now
    wire,   \* the main-frame bytes produced by the encoder
    def,    \* the encoder's deferred-writer paths
    out,    \* the value produced by the decoder
    rest    \* the bytes the decoder left unread

vars == <<pc, ty, val, st0, st, wire, def, out, rest>>

-----------------------------------------------------------------------------
(* LEB128 (Leb128Encoder and the AsyncReadLeb128 readers of wasm-tokio).   *)

RECURSIVE ULeb128(_)
ULeb128(n) == IF n < 128 THEN <<n>> ELSE <<128 + (n % 128)>> \o ULeb128(n \div 128)

\* Mutant: stops as soon as the remaining bits are zero, ignoring the sign
\* bit of the last byte.
RECURSIVE SLeb128NoSignBit(_)
SLeb128NoSignBit(n) ==
    LET low == n % 128
        hi  == (n - low) \div 128
    IN IF hi = 0 \/ hi = -1
       THEN <<low>>
       ELSE <<128 + low>> \o SLeb128NoSignBit(hi)

RECURSIVE SLeb128(_)
SLeb128(n) ==
    LET low == n % 128
        hi  == (n - low) \div 128
    IN IF (hi = 0 /\ low < 64) \/ (hi = -1 /\ low >= 64)
       THEN <<low>>
       ELSE <<128 + low>> \o SLeb128(hi)

\* Number of bytes of the LEB128 group at the head of bs, 0 if it never ends.
LebLen(bs) ==
    LET ends == {i \in 1..Len(bs) : bs[i] < 128}
    IN IF ends = {} THEN 0 ELSE CHOOSE i \in ends : \A j \in ends : i <= j

RECURSIVE LebValue(_, _)
LebValue(bs, k) == IF k = 0 THEN 0 ELSE (bs[k] % 128) * 2^(7 * (k - 1)) + LebValue(bs, k - 1)

DecOk(v, r, s)  == [ok |-> TRUE, abort |-> FALSE, val |-> v, rest |-> r, st |-> s]
DecFail(s)      == [ok |-> FALSE, abort |-> FALSE, val |-> NoVal, rest |-> <<>>, st |-> s]

\* Vec::with_capacity(n) of elements of `size` bytes asks the allocator for
\* n * size bytes at once; when the allocator refuses, handle_alloc_error
\* aborts the process instead of returning an error (no unwinding).
Refused(n, size) == (n \div 1024) * size > AllocLimitKiB
DecAbort(s)     == [ok |-> FALSE, abort |-> TRUE, val |-> NoVal, rest |-> <<>>, st |-> s]

\* read_uN_leb128: at most ceil(w/7) bytes; a short read is an error.
ReadULeb(bs, w) ==
    LET k == LebLen(bs)
    IN IF k = 0 \/ k > (w + 6) \div 7 THEN [ok |-> FALSE]
       ELSE [ok |-> TRUE, n |-> LebValue(bs, k), rest |-> SubSeq(bs, k + 1, Len(bs))]

\* read_iN_leb128: sign-extended from bit 6 of the last byte.
ReadSLeb(bs, w) ==
    LET k == LebLen(bs)
    IN IF k = 0 \/ k > (w + 6) \div 7 THEN [ok |-> FALSE]
       ELSE [ok |-> TRUE,
             n |-> LebValue(bs, k) - (IF (bs[k] \div 64) % 2 = 1 THEN 2^(7 * k) ELSE 0),
             rest |-> SubSeq(bs, k + 1, Len(bs))]

(* UTF-8 (Utf8Codec and read_char_utf8 of wasm-tokio).                     *)
Utf8(c) ==
    CASE c < 128   -> <<c>>
      [] c < 2048  -> <<192 + (c \div 64), 128 + (c % 64)>>
      [] c < 65536 -> <<224 + (c \div 4096), 128 + ((c \div 64) % 64), 128 + (c % 64)>>
      [] OTHER     -> <<240 + (c \div 262144), 128 + ((c \div 4096) % 64),
                        128 + ((c \div 64) % 64), 128 + (c % 64)>>

ReadUtf8(bs) ==
    LET n == IF bs = <<>> THEN 0
             ELSE CASE bs[1] < 128 -> 1 [] bs[1] \in 192..223 -> 2
                    [] bs[1] \in 224..239 -> 3 [] bs[1] \in 240..247 -> 4 [] OTHER -> 0
        lead == IF n = 1 THEN bs[1] ELSE bs[1] % 2^(7 - n)
        RECURSIVE Acc(_)
        Acc(i) == IF i = 1 THEN lead ELSE Acc(i - 1) * 64 + (bs[i] % 64)
    IN IF n = 0 \/ Len(bs) < n \/ \E i \in 2..n : bs[i] \notin 128..191 THEN [ok |-> FALSE]
       ELSE [ok |-> TRUE, n |-> Acc(n), rest |-> SubSeq(bs, n + 1, Len(bs))]

-----------------------------------------------------------------------------
(* Helpers of lib.rs.                                                      *)

\* find_variant_discriminant / find_enum_discriminant: position of the
\* case with the given name, 0-based; -1 when no case has it.
Discriminant(names, name) ==
    IF \E i \in DOMAIN names : names[i] = name
    THEN (CHOOSE i \in DOMAIN names : names[i] = name) - 1
    ELSE -1

\* flag_bits and the 129.. branch: byte j carries the flags 8j..8j+7.
FlagByte(F, j) == FoldSet(LAMBDA i, acc : acc + 2^(i % 8), 0, {i \in F : i \div 8 = j})

\* Mutant: the 129.. branch drops the last, partial byte.
FlagLenFloor(n) == IF n <= 8 THEN 1 ELSE IF n <= 128 THEN (n - 1) \div 8 + 1 ELSE n \div 8

\* The number of bytes the flags branch writes and reads for n names.
FlagLen(n) ==
    IF n <= 8 THEN 1
    ELSE IF n <= 128 THEN (n - 1) \div 8 + 1
    ELSE n \div 8 + (IF n % 8 # 0 THEN 1 ELSE 0)

\* Mutant: sub-channels numbered from 1.
WriteDeferredFromOne(defs) == UNION {{<<i>> \o p : p \in defs[i]} : i \in DOMAIN defs}

\* write_deferred: child i's writers run on sub-channel [i].
WriteDeferred(defs) == UNION {{<<i - 1>> \o p : p \in defs[i]} : i \in DOMAIN defs}

\* A v7 uuid as its 16 little-endian bytes (to_bytes_le / from_bytes_le).
IdBytes(id) == [i \in 1..16 |-> CASE i = 1 -> id % 256 [] i = 2 -> id \div 256 [] OTHER -> 0]

Delete(s, h) == [s EXCEPT !.res = [x \in DOMAIN s.res \ {h} |-> s.res[x]]]
Push(s, r)   == [s EXCEPT !.res = s.res @@ (s.nextHandle :> r), !.nextHandle = @ + 1]

EncOk(b, d, s) == [ok |-> TRUE, bytes |-> b, def |-> d, st |-> s]
EncFail(s)     == [ok |-> FALSE, bytes |-> <<>>, def |-> {}, st |-> s]

-----------------------------------------------------------------------------
(* ValEncoder::encode.                                                     *)

\* Mutant: s8 written as its value rather than as its byte.
\* CoreNameEncoder: the LEB128 byte length, then the UTF-8 bytes.
EncodeString(str) == ULeb128(Len(str)) \o str

EncodeScalarRawS8(t, v) ==
    CASE t.k = "bool"   -> <<IF v.v THEN 1 ELSE 0>>
      [] t.k = "u8"     -> <<v.v>>
      [] t.k = "s8"     -> <<v.v>>
      [] t.k = "u32"    -> ULeb128(v.v)
      [] t.k = "s32"    -> SLeb128(v.v)
      [] t.k = "char"   -> Utf8(v.v)
      [] t.k = "string" -> EncodeString(v.v)

EncodeScalar(t, v) ==
    CASE t.k = "bool"   -> <<IF v.v THEN 1 ELSE 0>>
      [] t.k = "u8"     -> <<v.v>>
      [] t.k = "s8"     -> <<v.v % 256>>
      [] t.k = "u32"    -> ULeb128(v.v)
      [] t.k = "s32"    -> SLeb128(v.v)
      [] t.k = "char"   -> Utf8(v.v)
      [] t.k = "string" -> EncodeString(v.v)

EncodeEnum(t, v) ==
    LET d == Discriminant(t.names, v.v)
    IN IF d < 0 THEN [ok |-> FALSE] ELSE [ok |-> TRUE, bytes |-> ULeb128(d)]

EncodeFlags(t, v) == [j \in 1..FlagLen(t.n) |-> FlagByte(v.v, j - 1)]

\* The resource arm, in the code's order: an input-stream type (owned is
\* moved out of the host table into a deferred writer, borrowed is refused),
\* a RemoteResource value (its bytes), a guest-exported type (a fresh uuid
\* bound in the shared table), anything else refused.
EncodeResource(t, v, s) ==
    IF t.rty = "stream"
    THEN IF v.rty # "stream" \/ v.h \notin DOMAIN s.res \/ ~v.own
         THEN EncFail(s)
         ELSE EncOk(<<>>, {<<>>}, Delete(s, v.h))
    ELSE IF v.rty = "remote"
    THEN IF v.h \notin DOMAIN s.res
         THEN EncFail(s)
         ELSE EncOk(ULeb128(Len(s.res[v.h].data)) \o s.res[v.h].data, {},
                    IF v.own THEN Delete(s, v.h) ELSE s)
    ELSE IF t.rty \in Resources
    THEN EncOk(ULeb128(16) \o IdBytes(s.nextId), {},
               [s EXCEPT !.shared = (s.nextId :> v) @@ @, !.nextId = @ + 1])
    ELSE EncFail(s)

RECURSIVE Encode(_, _, _), EncodeSeq(_, _, _)

\* zip(values, types): stops at the shorter; child deferreds kept in order.
EncodeSeq(ts, vs, s) ==
    IF ts = <<>> \/ vs = <<>> THEN [ok |-> TRUE, bytes |-> <<>>, defs |-> <<>>, st |-> s]
    ELSE LET h == Encode(Head(ts), Head(vs), s)
             t == IF h.ok THEN EncodeSeq(Tail(ts), Tail(vs), h.st) ELSE h
         IN IF ~h.ok THEN [ok |-> FALSE, bytes |-> <<>>, defs |-> <<>>, st |-> h.st]
            ELSE [ok |-> t.ok, bytes |-> h.bytes \o t.bytes, defs |-> <<h.def>> \o t.defs,
                  st |-> t.st]

\* A payload encoded after a tag; its deferred writer is passed up as is.
EncodeAfter(tag, t, v, s) ==
    LET e == Encode(t, v, s)
    IN IF e.ok THEN EncOk(tag \o e.bytes, e.def, e.st) ELSE e

EncodeSeqAfter(prefix, ts, vs, s) ==
    LET e == EncodeSeq(ts, vs, s)
    IN IF e.ok THEN EncOk(prefix \o e.bytes, WriteDeferred(e.defs), e.st) ELSE EncFail(e.st)

EncodeVariant(t, v, s) ==
    LET d == Discriminant([i \in DOMAIN t.cases |-> t.cases[i].name], v.case)
        cty == t.cases[d + 1].ty
    IN IF d < 0 THEN EncFail(s)
       ELSE IF v.v = NoVal THEN EncOk(ULeb128(d), {}, s)
       ELSE IF cty = NoVal THEN EncFail(s)
       ELSE EncodeAfter(ULeb128(d), cty, v.v, s)

EncodeResult(t, v, s) ==
    LET tag == IF v.isOk THEN <<0>> ELSE <<1>>
        pty == IF v.isOk THEN t.ok ELSE t.err
    IN CASE v.v # NoVal /\ pty # NoVal -> EncodeAfter(tag, pty, v.v, s)
         [] v.v = NoVal /\ pty = NoVal -> EncOk(tag, {}, s)
         [] OTHER -> EncFail(s)

Encode(t, v, s) ==
    IF t.k # v.k THEN EncFail(s) ELSE
    CASE t.k \in {"bool", "u8", "s8", "u32", "s32", "char", "string"} ->
            EncOk(EncodeScalar(t, v), {}, s)
      [] t.k = "list" ->
            EncodeSeqAfter(ULeb128(Len(v.v)), [i \in DOMAIN v.v |-> t.elem], v.v, s)
      [] t.k = "record" ->
            EncodeSeqAfter(<<>>, t.fields, [i \in DOMAIN v.v |-> v.v[i].val], s)
      [] t.k = "tuple" -> EncodeSeqAfter(<<>>, t.elems, v.v, s)
      [] t.k = "variant" -> EncodeVariant(t, v, s)
      [] t.k = "enum" ->
            LET e == EncodeEnum(t, v) IN IF e.ok THEN EncOk(e.bytes, {}, s) ELSE EncFail(s)
      [] t.k = "option" /\ v.v = NoVal -> EncOk(<<0>>, {}, s)
      [] t.k = "option" -> EncodeAfter(<<1>>, t.some, v.v, s)
      [] t.k = "result" -> EncodeResult(t, v, s)
      [] t.k = "flags" -> EncOk(EncodeFlags(t, v), {}, s)
      [] t.k = "res" -> EncodeResource(t, v, s)

-----------------------------------------------------------------------------
(* read_value.                                                             *)

\* The bytes of a string are valid UTF-8 when they split into characters.
RECURSIVE Utf8Valid(_)
Utf8Valid(bs) ==
    \/ bs = <<>>
    \/ LET c == ReadUtf8(bs) IN c.ok /\ Utf8Valid(c.rest)

\* read_core_name: a LEB128 length, that many bytes, and an error unless
\* they are UTF-8.
ReadString(bs) ==
    LET l == ReadULeb(bs, 32)
        str == SubSeq(l.rest, 1, l.n)
    IN IF ~l.ok \/ Len(l.rest) < l.n \/ ~Utf8Valid(str) THEN [ok |-> FALSE]
       ELSE [ok |-> TRUE, n |-> str, rest |-> SubSeq(l.rest, l.n + 1, Len(l.rest))]

ReadScalar(t, bs) ==
    CASE t.k = "bool" ->
            IF bs = <<>> \/ bs[1] > 1 THEN [ok |-> FALSE]
            ELSE [ok |-> TRUE, n |-> bs[1] = 1, rest |-> Tail(bs)]
      [] t.k \in {"u8", "s8"} ->
            IF bs = <<>> THEN [ok |-> FALSE]
            ELSE [ok |-> TRUE, n |-> IF t.k = "s8" /\ bs[1] >= 128 THEN bs[1] - 256 ELSE bs[1],
                  rest |-> Tail(bs)]
      [] t.k = "u32" -> ReadULeb(bs, 32)
      [] t.k = "s32" -> ReadSLeb(bs, 32)
      [] t.k = "char" -> ReadUtf8(bs)
      [] t.k = "string" -> ReadString(bs)

\* read_flags / the 129.. branch: FlagLen(n) bytes; name i is set iff its bit is.
ReadFlags(t, bs) ==
    IF Len(bs) < FlagLen(t.n) THEN [ok |-> FALSE]
    ELSE [ok |-> TRUE,
          n |-> {i \in 0..(t.n - 1) : (bs[i \div 8 + 1] \div 2^(i % 8)) % 2 = 1},
          rest |-> SubSeq(bs, FlagLen(t.n) + 1, Len(bs))]

\* The resource arm: a stream is bound to sub-channel `path` and reads no
\* main-frame byte; a guest resource is a 16-byte uuid looked up in the
\* shared table; anything else is a RemoteResource holding the bytes read by
\* read_to_end after the length prefix.
DecodeResource(t, bs, path, s) ==
    IF t.rty = "stream"
    THEN DecOk([k |-> "res", rty |-> "stream", h |-> s.nextHandle, own |-> TRUE], bs,
               Push(s, [rty |-> "stream", data |-> path]))
    ELSE IF t.rty \in Resources
    THEN LET l  == ReadULeb(bs, 8)
             id == SubSeq(l.rest, 1, 16)
             ids == {i \in DOMAIN s.shared : IdBytes(i) = id}
         IN IF ~l.ok \/ l.n # 16 \/ Len(l.rest) < 16 \/ ids = {} THEN DecFail(s)
            ELSE LET i == CHOOSE i \in ids : TRUE
                 IN DecOk(s.shared[i], SubSeq(l.rest, 17, Len(l.rest)), s)
    ELSE LET l == ReadULeb(bs, 32)
         IN IF ~l.ok THEN DecFail(s)
            ELSE IF Refused(l.n, 1) THEN DecAbort(s)
            ELSE DecOk([k |-> "res", rty |-> "remote", h |-> s.nextHandle, own |-> TRUE], <<>>,
                       Push(s, [rty |-> "remote", data |-> l.rest]))

RECURSIVE Decode(_, _, _, _), DecodeSeq(_, _, _, _, _)

\* Elements i.. of a list, record or tuple; element i is read at path \o <<i>>.
DecodeSeq(ts, i, bs, path, s) ==
    IF i > Len(ts) THEN DecOk(<<>>, bs, s)
    ELSE LET h == Decode(ts[i], bs, Append(path, i - 1), s)
             t == IF h.ok THEN DecodeSeq(ts, i + 1, h.rest, path, h.st) ELSE h
         IN IF h.ok /\ t.ok THEN DecOk(<<h.val>> \o t.val, t.rest, t.st)
            ELSE t

\* A payload read on the parent's own path, placed in the v field of w.
DecodeInto(w, t, bs, path, s) ==
    LET d == Decode(t, bs, path, s) IN IF d.ok THEN DecOk([w EXCEPT !.v = d.val], d.rest, d.st) ELSE d

DecodeVariant(t, bs, path, s) ==
    LET l == ReadULeb(bs, 32)
        c == t.cases[l.n + 1]
        w == [k |-> "variant", case |-> c.name, v |-> NoVal]
    IN IF ~l.ok \/ l.n >= Len(t.cases) THEN DecFail(s)
       ELSE IF c.ty = NoVal THEN DecOk(w, l.rest, s)
       ELSE DecodeInto(w, c.ty, l.rest, path, s)

DecodeResult(t, bs, path, s) ==
    LET isOk == bs[1] = 0
        pty  == IF isOk THEN t.ok ELSE t.err
        w == [k |-> "result", isOk |-> isOk, v |-> NoVal]
    IN IF bs = <<>> \/ bs[1] > 1 THEN DecFail(s)
       ELSE IF pty = NoVal THEN DecOk(w, Tail(bs), s)
       ELSE DecodeInto(w, pty, Tail(bs), path, s)

Decode(t, bs, path, s) ==
    CASE t.k \in {"bool", "u8", "s8", "u32", "s32", "char", "string"} ->
            LET r == ReadScalar(t, bs)
            IN IF r.ok THEN DecOk([k |-> t.k, v |-> r.n], r.rest, s) ELSE DecFail(s)
      [] t.k = "list" ->
            LET l == ReadULeb(bs, 32)
                d == DecodeSeq([i \in 1..l.n |-> t.elem], 1, l.rest, path, s)
            IN IF ~l.ok THEN DecFail(s)
               ELSE IF Refused(l.n, ValSize) THEN DecAbort(s)
               ELSE IF d.ok THEN DecOk([k |-> "list", v |-> d.val], d.rest, d.st) ELSE d
      [] t.k = "record" ->
            LET d == DecodeSeq(t.fields, 1, bs, path, s)
            IN IF d.ok
               THEN DecOk([k |-> "record",
                           v |-> [i \in DOMAIN d.val |-> [name |-> t.names[i], val |-> d.val[i]]]],
                          d.rest, d.st)
               ELSE d
      [] t.k = "tuple" ->
            LET d == DecodeSeq(t.elems, 1, bs, path, s)
            IN IF d.ok THEN DecOk([k |-> "tuple", v |-> d.val], d.rest, d.st) ELSE d
      [] t.k = "variant" -> DecodeVariant(t, bs, path, s)
      [] t.k = "enum" ->
            LET l == ReadULeb(bs, 32)
            IN IF ~l.ok \/ l.n >= Len(t.names) THEN DecFail(s)
               ELSE DecOk([k |-> "enum", v |-> t.names[l.n + 1]], l.rest, s)
      [] t.k = "option" ->
            IF bs = <<>> \/ bs[1] > 1 THEN DecFail(s)
            ELSE IF bs[1] = 0 THEN DecOk([k |-> "option", v |-> NoVal], Tail(bs), s)
            ELSE DecodeInto([k |-> "option", v |-> NoVal], t.some, Tail(bs), path, s)
      [] t.k = "result" -> DecodeResult(t, bs, path, s)
      [] t.k = "flags" ->
            LET r == ReadFlags(t, bs)
            IN IF r.ok THEN DecOk([k |-> "flags", v |-> r.n], r.rest, s) ELSE DecFail(s)
      [] t.k = "res" -> DecodeResource(t, bs, path, s)

-----------------------------------------------------------------------------
(* The codec run on one parameter: the polyfill encodes it as parameter 0  *)
(* (link_function, lib.rs 1032-1037) and the server decodes it as          *)
(* parameter 0 at path [0] (call, lib.rs 1127-1131).                       *)

Init ==
    /\ \E in \in Inputs :
         /\ ty = in.ty
         /\ val = in.val
         /\ st0 = in.st
         /\ st = in.st
    /\ pc = "init"
    /\ wire = <<>>
    /\ def = {}
    /\ out = NoVal
    /\ rest = <<>>

EncodeParam ==
    /\ pc = "init"
    /\ LET e == Encode(ty, val, st)
       IN /\ pc' = IF e.ok THEN "encoded" ELSE "encodeFailed"
          /\ wire' = e.bytes
          /\ def' = e.def
          /\ st' = e.st
    /\ UNCHANGED <<ty, val, st0, out, rest>>

DecodeParam ==
    /\ pc = "encoded"
    /\ LET d == Decode(ty, wire, <<0>>, st)
       IN /\ pc' = IF d.ok THEN "decoded" ELSE "decodeFailed"
          /\ out' = d.val
          /\ rest' = d.rest
          /\ st' = d.st
    /\ UNCHANGED <<ty, val, st0, wire, def>>

\* The server's call() decodes parameter 0 of a frame any peer may have
\* sent (lib.rs 1124-1131): the bytes need not be an encoding of a value.
ReceiveParam ==
    /\ pc = "init"
    /\ \E f \in Frames :
         LET d == Decode(f.ty, f.bytes, <<0>>, st)
         IN /\ pc' = CASE d.ok -> "received" [] d.abort -> "aborted" [] OTHER -> "receiveFailed"
            /\ ty' = f.ty
            /\ wire' = f.bytes
            /\ out' = d.val
            /\ rest' = d.rest
            /\ st' = d.st
    /\ UNCHANGED <<val, st0, def>>

Next == EncodeParam \/ DecodeParam \/ ReceiveParam

Spec == Init /\ [][Next]_vars

-----------------------------------------------------------------------------
(* Properties.                                                             *)

TypeOK ==
    /\ pc \in {"init", "encoded", "encodeFailed", "decoded", "decodeFailed",
              "received", "receiveFailed", "aborted"}
    /\ wire \in Seq(0..255)
    /\ rest \in Seq(0..255)
    /\ def \subseteq Seq(Nat)
    /\ DOMAIN st0.shared \subseteq DOMAIN st.shared
    /\ st.nextHandle >= st0.nextHandle

\* A value as the peer can tell it apart: streams are erased (their content
\* travels on sub-channels), a RemoteResource is its bytes, a guest resource
\* is the resource itself.
RECURSIVE Canon(_, _)
Canon(v, s) ==
    LET Each(xs) == [i \in DOMAIN xs |-> Canon(xs[i], s)]
    IN CASE v = NoVal -> NoVal
         [] v.k \in {"list", "tuple"} -> [v EXCEPT !.v = Each(v.v)]
         [] v.k = "record" ->
               [v EXCEPT !.v = [i \in DOMAIN v.v |-> [name |-> v.v[i].name,
                                                      val |-> Canon(v.v[i].val, s)]]]
         [] v.k \in {"variant", "option", "result"} -> [v EXCEPT !.v = Canon(v.v, s)]
         [] v.k = "res" /\ v.rty = "stream" -> [k |-> "res", rty |-> "stream"]
         [] v.k = "res" /\ v.rty = "remote" -> [k |-> "res", rty |-> "remote", data |-> s.res[v.h].data]
         [] OTHER -> v

\* The sub-channel paths of the input streams a decoded value holds.
RECURSIVE StreamPaths(_, _)
StreamPaths(v, s) ==
    CASE v = NoVal -> {}
      [] v.k \in {"list", "tuple"} -> UNION {StreamPaths(v.v[i], s) : i \in DOMAIN v.v}
      [] v.k = "record" -> UNION {StreamPaths(v.v[i].val, s) : i \in DOMAIN v.v}
      [] v.k \in {"variant", "option", "result"} -> StreamPaths(v.v, s)
      [] v.k = "res" /\ v.rty = "stream" -> {s.res[v.h].data}
      [] OTHER -> {}

(* Round trip (spec section 8): whatever the encoder accepts, read_value   *)
(* decodes without error, consumes exactly the main frame, and yields the  *)
(* value that was encoded - the same scalars, case names and flag sets,    *)
(* the same RemoteResource bytes and the same guest resource, looked up    *)
(* through the uuid the encoder bound in the SharedResourceTable.          *)
RoundTrip ==
    pc \in {"decoded", "decodeFailed"} =>
        /\ pc = "decoded"
        /\ rest = <<>>
        /\ Canon(out, st) = Canon(val, st0)

(* Sub-channel agreement (spec 4.1 "deferred propagation"): the paths at   *)
(* which the encoder's nested write_deferred closures open sub-channels    *)
(* for owned input streams, under parameter index 0, are exactly the paths *)
(* at which read_value binds the decoded input streams.  A stream written  *)
(* on one path and read on another hangs the call.                         *)
PathAgreement ==
    pc = "decoded" => StreamPaths(out, st) = {<<0>> \o p : p \in def}

(* Flag bijection (spec section 8): the flags main frame is ceil(N/8)      *)
(* bytes and bit i of it is set iff the i-th declared flag is in the set,  *)
(* in every width bucket of the encoder, including the 129.. byte vector.  *)
FlagBijection ==
    pc = "encoded" /\ ty.k = "flags" =>
        /\ Len(wire) = (ty.n + 7) \div 8
        /\ \A i \in 0..(ty.n - 1) : ((wire[i \div 8 + 1] \div 2^(i % 8)) % 2 = 1) <=> i \in val.v

(* Spec 4.1 (a count beyond what can be allocated "fails naturally on     *)
(* short input"), 6 (allocation failure is a decoder error surfaced to     *)
(* callers) and 7 (a decode error is fatal to the call): read_value on a   *)
(* frame a peer sent ends in a value or in an error for this call, never   *)
(* in an abort of the serving process.                                     *)
DecodeFailsCall == pc # "aborted"

=============================================================================
