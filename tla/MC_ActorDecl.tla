---------------------------- MODULE MC_ActorDecl ----------------------------
(***************************************************************************)
(* All modules of up to three items out of thirteen, and of four out of      *)
(* those a module can be accepted with, next to blocks outside.            *)
(***************************************************************************)
EXTENDS ActorDecl

Block(tagged, canonical, trait, methods) ==
  [tagged |-> tagged, canonical |-> canonical, trait |-> trait, methods |-> methods,
   extended |-> FALSE, selfpath |-> TRUE]

Plain(r) == Block(TRUE, FALSE, r, <<"plain">>)
Empty(r) == Block(TRUE, FALSE, r, <<>>)
Canonical == Block(TRUE, TRUE, "R", <<"plain", "plain">>)
Generic == Block(TRUE, FALSE, "R", <<"plain", "generic">>)
Static == Block(TRUE, TRUE, "S", <<"no receiver">>)
Mut(r) == Block(TRUE, FALSE, r, <<"plain", "pattern">>)

MCRoleNames == {"R", "S"}

ModuleImpls ==
  {Plain("R"), Empty("R"), Canonical, [Canonical EXCEPT !.extended = TRUE], Generic, Static,
   Mut("R"), Block(TRUE, FALSE, "none", <<"plain">>), Block(FALSE, FALSE, "none", <<>>)}

MCImpls ==
  ModuleImpls \cup {Plain("S"), Empty("S"), Mut("S"), [Plain("S") EXCEPT !.selfpath = FALSE]}

ModuleItems ==
  {[sort |-> "impl", impl |-> b] : b \in ModuleImpls}
    \cup [sort : {"stop", "catch", "data", "other"}]

GoodItems ==
  {[sort |-> "impl", impl |-> b] : b \in {Empty("R"), Canonical, Mut("R"), Block(FALSE, FALSE, "none", <<>>)}}
    \cup [sort : {"stop", "catch", "data"}]

MCModules == UNION {[1..n -> ModuleItems] : n \in 0..3} \cup [1..4 -> GoodItems]

MCOutsides ==
  {{}, {Plain("R")}, {Plain("S"), Empty("R")}, {Mut("S"), Generic, [Plain("S") EXCEPT !.selfpath = FALSE]}}
=============================================================================
