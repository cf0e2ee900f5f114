----------------------------- MODULE MCInvocation -----------------------------
(***************************************************************************)
(* A served component with two exports: f, whose guest reads its stream   *)
(* parameter to the end and, while serving, calls g through an import;    *)
(* and g.  c1 invokes f with a stream; c2 invokes g from outside and gets  *)
(* a plain result; c3 is the call f's guest makes to g while serving c1,   *)
(* and its result carries an owned input stream.                           *)
(***************************************************************************)
EXTENDS Invocation

MCTarget == [c \in Calls |-> IF c = "c1" THEN "f" ELSE "g"]
MCParent == [c \in Calls |-> IF c = "c3" THEN "c1" ELSE NoCall]

=============================================================================
