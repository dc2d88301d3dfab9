--------------------------- MODULE MC_ActorSystem ---------------------------
(***************************************************************************)
(* Two actors, the task that started them, and five programs.              *)
(***************************************************************************)
EXTENDS ActorSystem

CONSTANTS a, b, t

Holding(ha, hb) == [x \in Actors |-> IF x = a THEN ha ELSE hb]
Nothing == Holding({}, {})
ACall(p, x, w, r) == [by |-> p, to |-> x, way |-> w, back |-> r]

\* Two actors that know each other, and await each other when they are called.
Mutual ==
  [held |-> Holding({b}, {a}), watcher |-> Nothing, stops |-> {},
   calls |-> {ACall(t, a, "await", a), ACall(t, b, "ignore_return", b),
              ACall(a, b, "await", b), ACall(b, a, "await", a)}]

\* The same without an await: the answer is sent on to the caller.
Answering ==
  [held |-> Holding({b}, {}), watcher |-> Nothing, stops |-> {},
   calls |-> {ACall(t, a, "ignore_return", a), ACall(a, b, "forward_to", a)}]

\* A pipe from one actor into another that only the pipe knows.
Pipe ==
  [held |-> Nothing, watcher |-> Nothing, stops |-> {b},
   calls |-> {ACall(t, a, "forward_to", b)}]

\* One actor watches the other and calls it when it hears of it.
Supervisor ==
  [held |-> Holding({}, {a}), watcher |-> Holding({b}, {}), stops |-> {a},
   calls |-> {ACall(t, a, "drop", a), ACall(b, a, "await", a)}]

\* An actor that calls itself through its Context, one way or the other.
Selfish ==
  [held |-> Nothing, watcher |-> Nothing, stops |-> {a},
   calls |-> {ACall(t, a, "await", a), ACall(a, a, "forward_to", a), ACall(a, a, "await", a)}]

MCPrograms == {Mutual, Answering, Pipe, Supervisor, Selfish}
=============================================================================
