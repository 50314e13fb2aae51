------------------------------ MODULE MCClient ------------------------------
(***************************************************************************)
(* Client with two files: what the command line can ask for, and the types *)
(* the library knows but does not support.                                 *)
(***************************************************************************)
EXTENDS Client

Call(type, paths) == [type |-> type, paths |-> paths]

CommandLine == {
  Call(Person, <<"a">>), Call(Person, <<"a", "b">>), Call(Person, <<"b", "b">>),
  Call(History, <<>>) }

AnyCall == CommandLine \cup {Call("Vehicle", <<"a">>), Call(Person, <<>>)}
=============================================================================
