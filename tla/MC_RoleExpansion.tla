-------------------------- MODULE MC_RoleExpansion --------------------------
(***************************************************************************)
(* A small instance of RoleExpansion.  Of two roles and three names some   *)
(* collide: `room_go` of the role Chat with `go` of ChatRoom, and `go`     *)
(* with `Go`.  A pair is taken as two parameters or as one.                *)
(***************************************************************************)
EXTENDS RoleExpansion

A == Atom("A")
B == Atom("B")
Pair == Tuple(<<A, B>>)
Static == [name |-> "&'static", args |-> <<A>>]
Unit == Tuple(<<>>)

MCParams == {<<>>, <<A, B>>, <<Pair>>, <<Static, A>>}
MCReturns == {Unit, A}

TwoRoles == {<<"chat">>, <<"chat", "room">>}
ThreeIdents ==
  {Ident(<<"go">>), Ident(<<"room", "go">>), [Ident(<<"go">>) EXCEPT !.style = "camel"]}

\* fn f(&self, p: (A, B)), fn g(&self, a: A, b: B) and fn h(&self, a: A, b: B):
\* the role accepts (A, B), which three of its methods take.
Takes(name, types) == [name |-> Ident(<<name>>), params |-> types, ret |-> Unit]

ASSUME ThreeTakersAreAccepted ==
  [types |-> <<Pair>>, variant |-> <<"f">>]
    \in AcceptsOf(<<Takes("f", <<Pair>>), Takes("g", <<A, B>>), Takes("h", <<A, B>>)>>)
=============================================================================
