---------------------------- MODULE ActorSystem ----------------------------
(***************************************************************************)
(* Several actors that call each other.  Each is what ActorContract says   *)
(* of one actor, with a single mailbox; this module adds what joins them:  *)
(* handlers that make calls and await them, `forward_to`, which has the    *)
(* callee's loop put the value into a third mailbox, exit handles sent as  *)
(* messages, and the handles that actors keep in their state.              *)
(*                                                                         *)
(* Of the life of an envelope, the matter of Envelopes, only two steps are *)
(* left: the call, and the sending of its message, by the caller's poll or *)
(* by a task of its own.                                                   *)
(***************************************************************************)
EXTENDS Naturals, Sequences, Functions

CONSTANTS
  Actors,
  Tasks,      \* the tasks of the program that are not actors
  Programs,   \* how the actors may be wired, and the calls in the code
  MaxCalls    \* bound: calls made in all

Parties == Actors \cup Tasks
Ways == {"await", "ignore_return", "forward_to", "drop"}
CallRecords == [by : Parties, to : Actors, way : Ways, back : Actors]

ASSUME ActorsAreNotTasks == Actors \cap Tasks = {}
ASSUME MaxCallsIsNat == MaxCalls \in Nat

\* A program: the handles it puts into the actors' states, the actors it sends
\* exit handles to, of which there is one each, the calls that its tasks and handlers
\* may make, and the actors whose handlers may call Context::stop.  Every handler
\* may panic.
ASSUME ProgramsJoinActors ==
  Programs \subseteq [held : [Actors -> SUBSET Actors],
                      watcher : [Actors -> SUBSET Actors],
                      calls : SUBSET CallRecords,
                      stops : SUBSET Actors]

ASSUME OneExitHandle ==
  \A prog \in Programs, a, b, c \in Actors :
    b \in prog.watcher[a] /\ c \in prog.watcher[a] => b = c

VARIABLES
  program,   \* the program that runs, never changed
  calls,     \* the calls in the order they were made
  fate,      \* message -> what became of it
  mailbox,   \* actor -> the messages it has not taken yet
  phase,     \* actor -> "serving", "ending", then "ended"
  stopped,   \* the actors of which a handler called Context::stop
  backlog,   \* history: actor -> what was in its mailbox when it did
  held,      \* task or actor's state -> the actors it keeps a handle of
  waits,     \* task or actor's handler -> the call it awaits, 0 if none
  watcher    \* actor -> where its exit handle was sent, a set of at most one

callVars == <<calls, fate, waits>>
lifeVars == <<phase, stopped, backlog>>
linkVars == <<program, held, watcher>>
vars == <<calls, fate, waits, mailbox, phase, stopped, backlog, program, held, watcher>>

Made == DOMAIN calls

(***************************************************************************)
(* A call is one message, or two if its value is forwarded.  The outcome   *)
(* of an actor is one when its exit handle was sent to another.            *)
(***************************************************************************)
Asks == (1..MaxCalls) \X {"ask"}
Values == (1..MaxCalls) \X {"value"}
Outcomes == Actors \X {"outcome"}
Messages == Asks \cup Values \cup Outcomes

\* The messages to b that own an Arc of b until they are sent: calls, exit
\* handles that were sent to b, and calls whose value is to be forwarded to b.
Asking(b) == {<<c, "ask">> : c \in {d \in Made : calls[d].to = b}}

Watching(b) == {<<a, "outcome">> : a \in {d \in Actors : b \in watcher[d]}}

Forwarding(b) ==
  {<<c, "value">> : c \in {d \in Made :
     /\ calls[d].back = b /\ calls[d].way = "forward_to"
     /\ fate[<<d, "ask">>] \in {"unsent", "queued", "handling"}}}

\* Mutant: the closure of a forwarded call owns no Arc of its recipient.
Owners_Weak(b) ==
  {p \in Parties : b \in held[p]}
    \cup {m \in Asking(b) \cup Watching(b) : fate[m] = "unsent"}

\* Who owns an Arc of b, that of b's own Context left out.
Owners(b) ==
  {p \in Parties : b \in held[p]}
    \cup {m \in Asking(b) \cup Watching(b) \cup Forwarding(b) :
            fate[m] = "unsent"}

\* Where a message goes.
IsFor(m, b) ==
  \/ m \in Asks /\ m[1] \in Made /\ calls[m[1]].to = b
  \/ m \in Values /\ m[1] \in Made /\ calls[m[1]].back = b
  \/ m \in Outcomes /\ b \in watcher[m[1]]

Handling(a, m) == IsFor(m, a) /\ fate[m] = "handling"
Busy(a) == \E m \in Messages : Handling(a, m)
Waiting(a) == {m \in Messages : IsFor(m, a) /\ fate[m] = "queued"}

\* The handler is done and its value is on its way to another mailbox.
Forwarded(m) == m \in Asks /\ fate[<<m[1], "value">>] # "unsent"

\* A handler that runs, or a task that does not await anything.
Acts(p) ==
  /\ waits[p] = 0
  /\ p \in Tasks \/ \E m \in Messages : Handling(p, m) /\ ~Forwarded(m)

TypeOK ==
  /\ program \in Programs
  /\ calls \in Seq(CallRecords) /\ Len(calls) <= MaxCalls
  /\ fate \in [Messages -> {"unsent", "queued", "handling", "done", "failed",
                            "lost", "rejected"}]
  /\ mailbox \in [Actors -> Seq(Messages)]
  /\ \A a \in Actors : Range(mailbox[a]) = Waiting(a)
  /\ phase \in [Actors -> {"serving", "ending", "ended"}]
  /\ stopped \subseteq Actors
  /\ backlog \in [Actors -> SUBSET Messages]
  /\ held \in [Parties -> SUBSET Actors]
  /\ waits \in [Parties -> 0..MaxCalls]
  /\ watcher \in [Actors -> SUBSET Actors]

\* One task has started all actors and wired them, with the handles it passed to
\* `start` or in messages and with join_handle.send_when_ready(b).
Init ==
  /\ calls = <<>>
  /\ fate = [m \in Messages |-> "unsent"]
  /\ mailbox = [a \in Actors |-> <<>>]
  /\ phase = [a \in Actors |-> "serving"]
  /\ stopped = {}
  /\ backlog = [a \in Actors |-> {}]
  /\ program \in Programs
  /\ \E t \in Tasks :
       held = [p \in Parties |->
                 IF p \in Actors THEN program.held[p] ELSE IF p = t THEN Actors ELSE {}]
  /\ watcher = program.watcher
  /\ waits = [p \in Parties |-> 0]

-----------------------------------------------------------------------------
(* Calls                                                                   *)

\* A handle is dropped.
Release(p, a) ==
  /\ Acts(p) /\ a \in held[p]
  /\ held' = [held EXCEPT ![p] = @ \ {a}]
  /\ UNCHANGED <<callVars, mailbox, lifeVars, program, watcher>>

\* Mutant: a message overtakes those before it.
Post_InFront(m, b) ==
  IF phase[b] = "ended"
  THEN /\ fate' = [fate EXCEPT ![m] = "rejected"]
       /\ UNCHANGED mailbox
  ELSE /\ fate' = [fate EXCEPT ![m] = "queued"]
       /\ mailbox' = [mailbox EXCEPT ![b] = <<m>> \o @]

\* b.enqueue(m).await, which never waits.
Post(m, b) ==
  IF phase[b] = "ended"
  THEN /\ fate' = [fate EXCEPT ![m] = "rejected"]
       /\ UNCHANGED mailbox
  ELSE /\ fate' = [fate EXCEPT ![m] = "queued"]
       /\ mailbox' = [mailbox EXCEPT ![b] = Append(@, m)]

\* An actor a party can name: a handler has its own shell, too.
Knows(p) == held[p] \cup (Actors \cap {p})

\* A role method is called.  A dropped envelope leaves its message to a task of
\* its own; the futures of the other ways send theirs in their first poll, which
\* is part of the call here, and only an await waits for more.
Call(c) ==
  /\ Acts(c.by) /\ {c.to, c.back} \subseteq Knows(c.by) /\ Len(calls) < MaxCalls
  /\ calls' = Append(calls, c)
  /\ waits' = [waits EXCEPT ![c.by] = IF c.way = "await" THEN Len(calls) + 1 ELSE 0]
  /\ IF c.way = "drop"
     THEN UNCHANGED <<fate, mailbox>>
     ELSE Post(<<Len(calls) + 1, "ask">>, c.to)
  /\ UNCHANGED <<lifeVars, linkVars>>

\* The task that the drop of an envelope spawned.
Send(c) ==
  /\ c \in Made /\ fate[<<c, "ask">>] = "unsent"
  /\ Post(<<c, "ask">>, calls[c].to)
  /\ UNCHANGED <<calls, waits, lifeVars, linkVars>>

\* The task that awaits the exit handle of a sends what it got.
SendOutcome(a, b) ==
  /\ b \in watcher[a] /\ fate[<<a, "outcome">>] = "unsent" /\ phase[a] = "ended"
  /\ Post(<<a, "outcome">>, b)
  /\ UNCHANGED <<calls, waits, lifeVars, linkVars>>

\* The await ends: the value is there, or the message was refused or dropped.
Resume(p) ==
  /\ waits[p] # 0
  /\ fate[<<waits[p], "ask">>] \notin {"queued", "handling"}
  /\ waits' = [waits EXCEPT ![p] = 0]
  /\ UNCHANGED <<calls, fate, mailbox, lifeVars, linkVars>>

-----------------------------------------------------------------------------
(* The loop of an actor                                                    *)

\* A message is taken only when the handler before it has ended, awaits
\* included.
Take(a) ==
  /\ phase[a] = "serving" /\ ~Busy(a) /\ mailbox[a] # <<>>
  /\ mailbox' = [mailbox EXCEPT ![a] = Tail(@)]
  /\ fate' = [fate EXCEPT ![Head(mailbox[a])] = "handling"]
  /\ UNCHANGED <<calls, waits, lifeVars, linkVars>>

\* ReturnPath::Mailbox: the callee's loop runs the closure with the value.
Forward(a, c) ==
  /\ c \in Made /\ Handling(a, <<c, "ask">>) /\ waits[a] = 0
  /\ calls[c].way = "forward_to" /\ fate[<<c, "value">>] = "unsent"
  /\ Post(<<c, "value">>, calls[c].back)
  /\ UNCHANGED <<calls, waits, lifeVars, linkVars>>

HandlerReturns(a, m) ==
  /\ Handling(a, m) /\ waits[a] = 0
  /\ m \in Asks /\ calls[m[1]].way = "forward_to" => Forwarded(m)
  /\ fate' = [fate EXCEPT ![m] = "done"]
  /\ UNCHANGED <<calls, waits, mailbox, lifeVars, linkVars>>

HandlerPanics(a, m) ==
  /\ Handling(a, m) /\ waits[a] = 0 /\ ~Forwarded(m)
  /\ fate' = [fate EXCEPT ![m] = "failed"]
  /\ phase' = [phase EXCEPT ![a] = "ending"]
  /\ UNCHANGED <<calls, waits, mailbox, stopped, backlog, linkVars>>

ContextStop(a) ==
  /\ a \in program.stops \ stopped /\ Acts(a)
  /\ stopped' = stopped \cup {a}
  /\ backlog' = [backlog EXCEPT ![a] = Waiting(a)]
  /\ UNCHANGED <<callVars, mailbox, phase, linkVars>>

\* Mutant: a stop request cancels the handler that runs.
Leave_Cancels(a) ==
  /\ phase[a] = "serving" /\ a \notin stopped => ~Busy(a) /\ Owners(a) = {}
  /\ backlog[a] \cap Waiting(a) = {}
  /\ phase' = [phase EXCEPT ![a] = "ending"]
  /\ UNCHANGED <<callVars, mailbox, stopped, backlog, linkVars>>

\* The loop is left for want of handles or because of the stop request.
Leave(a) ==
  /\ phase[a] = "serving" /\ ~Busy(a)
  /\ Owners(a) = {} \/ a \in stopped
  /\ backlog[a] \cap Waiting(a) = {}
  /\ phase' = [phase EXCEPT ![a] = "ending"]
  /\ UNCHANGED <<callVars, mailbox, stopped, backlog, linkVars>>

\* The hook consumes the state, and the handles in it go.
DropState(a) ==
  /\ phase[a] = "ending" /\ held[a] # {}
  /\ held' = [held EXCEPT ![a] = {}]
  /\ UNCHANGED <<callVars, mailbox, lifeVars, program, watcher>>

\* Mutant: those who wait for the messages dropped here are not woken.
End_ForgetsCallers(a) ==
  /\ phase[a] = "ending" /\ held[a] = {}
  /\ mailbox' = [mailbox EXCEPT ![a] = <<>>]
  /\ phase' = [phase EXCEPT ![a] = "ended"]
  /\ UNCHANGED <<callVars, stopped, backlog, linkVars>>

\* The receiver is dropped with what is in it, and the task is over.
End(a) ==
  /\ phase[a] = "ending" /\ held[a] = {}
  /\ mailbox' = [mailbox EXCEPT ![a] = <<>>]
  /\ fate' = [m \in Messages |-> IF m \in Waiting(a) THEN "lost" ELSE fate[m]]
  /\ phase' = [phase EXCEPT ![a] = "ended"]
  /\ UNCHANGED <<calls, waits, stopped, backlog, linkVars>>

-----------------------------------------------------------------------------
HandlerEnds(a) ==
  \/ \E c \in Made : Forward(a, c)
  \/ \E m \in Messages : HandlerReturns(a, m) \/ HandlerPanics(a, m)

Next ==
  \/ \E p \in Parties, b \in Actors : Release(p, b)
  \/ \E c \in program.calls : Call(c)
  \/ \E c \in Made : Send(c)
  \/ \E a, b \in Actors : SendOutcome(a, b)
  \/ \E p \in Parties : Resume(p)
  \/ \E a \in Actors :
       Take(a) \/ HandlerEnds(a) \/ ContextStop(a) \/ Leave(a) \/ DropState(a) \/ End(a)

Spec == Init /\ [][Next]_vars

(***************************************************************************)
(* Spawned tasks run and those that are woken go on; handlers that do not  *)
(* await end.  Of the loops nothing is assumed but what the liveness       *)
(* properties of ActorLoop say of one: an actor that somebody holds takes  *)
(* its messages, one that was stopped ends, and so does one whose loop was *)
(* left.  An actor nobody holds may stay for ever and handle nothing.      *)
(***************************************************************************)
Fairness ==
  /\ \A a \in Actors :
       /\ WF_vars(Owners(a) # {} /\ Take(a))
       /\ WF_vars(a \in stopped /\ (Take(a) \/ Leave(a)))
       /\ WF_vars(HandlerEnds(a))
       /\ WF_vars(DropState(a) \/ End(a))
  /\ \A c \in 1..MaxCalls : WF_vars(Send(c))
  /\ \A a, b \in Actors : WF_vars(SendOutcome(a, b))
  /\ \A p \in Parties : WF_vars(Resume(p))

FairSpec == Spec /\ Fairness

-----------------------------------------------------------------------------
(* Properties                                                              *)

Panicked(a) == \E m \in Messages : IsFor(m, a) /\ fate[m] = "failed"

\* src/core/returnval.rs:124, src/sendable.rs:17: a message whose sender holds the
\* actor, a forwarded value and an outcome too, is refused only by an actor that a
\* handler stopped or that panicked, however many ended around it.
OnlyFailedActorsRefuse ==
  \A a \in Actors, m \in Messages :
    IsFor(m, a) /\ fate[m] = "rejected" => a \in stopped \/ Panicked(a)

\* The message of a call that was not made yet has no history.
CallsInv ==
  /\ watcher = program.watcher
  /\ \A c \in 1..MaxCalls, kind \in {"ask", "value"} :
       c \notin Made => fate[<<c, kind>>] = "unsent"
  /\ \A p \in Parties : waits[p] # 0 => waits[p] \in Made

\* An actor handles one message at a time, while it serves; whoever awaits is in a
\* handler, a mailbox holds a message once, and only a stop makes a backlog.
HandlersInv ==
  \A a \in Actors :
    /\ \A m, n \in Messages : Handling(a, m) /\ Handling(a, n) => m = n
    /\ Busy(a) => phase[a] = "serving"
    /\ waits[a] # 0 => Busy(a)
    /\ a \notin stopped => backlog[a] = {}
    /\ IsInjective(mailbox[a])

\* An actor that neither stopped nor panicked left its loop for want of handles, and
\* nobody can come by one again.
AbandonedInv ==
  \A a \in Actors :
    phase[a] # "serving" => a \in stopped \/ Panicked(a) \/ Owners(a) = {}

\* A failure ends the loop, only an actor that is over drops or refuses messages, and
\* then it drops all it has.
FailuresInv ==
  \A a \in Actors, m \in Messages : IsFor(m, a) =>
    /\ fate[m] = "failed" => phase[a] # "serving"
    /\ fate[m] \in {"lost", "rejected"} => phase[a] = "ended"
    /\ phase[a] = "ended" => fate[m] # "queued"

\* A call to be forwarded is sent when it is made, its value before its handler is
\* over, unless that panicked.
ForwardInv ==
  \A c \in Made : calls[c].way = "forward_to" =>
    LET ask   == fate[<<c, "ask">>]
        value == fate[<<c, "value">>]
    IN  /\ ask # "unsent"
        /\ value # "unsent" => ask \in {"handling", "done"}
        /\ ask = "done" => value # "unsent"

\* m stands before n in a mailbox.
Before(box, m, n) ==
  \E i, j \in DOMAIN box : i < j /\ box[i] = m /\ box[j] = n

\* m was sent to a before n, and is ahead of it.
Ahead(a, m, n) ==
  /\ fate[n] \in {"handling", "done", "failed"} => fate[m] = "done"
  /\ fate[n] = "queued" =>
       /\ fate[m] \in {"queued", "handling", "done", "failed"}
       /\ fate[m] = "queued" => Before(mailbox[a], m, n)

\* Equal calls stay in order on both of their ways.
OrderInv ==
  \A d \in Made : \A c \in 1..(d - 1) :
    calls[c] = calls[d] /\ calls[d].way = "forward_to" =>
      /\ Ahead(calls[d].to, <<c, "ask">>, <<d, "ask">>)
      /\ Ahead(calls[d].back, <<c, "value">>, <<d, "value">>)

\* The inductive invariant: calls, handlers and handles of several actors fit, and
\* what is forwarded keeps its order.
IInv ==
  /\ TypeOK /\ CallsInv /\ HandlersInv /\ AbandonedInv /\ OnlyFailedActorsRefuse
  /\ FailuresInv /\ ForwardInv /\ OrderInv

\* p awaits a call that was not answered.
Blocked(p) ==
  /\ waits[p] # 0
  /\ fate[<<waits[p], "ask">>] \in {"queued", "handling"}

\* Nobody awaits an actor that has ended: a call it never handled was refused, or
\* dropped with its mailbox, and the await learns of it.
NobodyAwaitsTheEnded ==
  \A p \in Parties : Blocked(p) => phase[calls[waits[p]].to] # "ended"

\* Actors that all await actors of the set.
Deadlocked(S) ==
  \A a \in S : Blocked(a) /\ calls[waits[a]].to \in S

Stuck(a) == \E S \in SUBSET Actors : a \in S /\ Deadlocked(S)

\* src/lib.rs:87 and shakespeare-macro/src/lib.rs:118: awaits in a circle are a
\* deadlock, and for good: no panic, stop or lost handle elsewhere breaks it.
DeadlockIsForEver == [][\A a \in Actors : Stuck(a) => Stuck(a)']_vars

\* Values forwarded by one actor to another come in the order in which one
\* caller made the calls.
ForwardsKeepOrder ==
  \A d \in Made : \A c \in 1..(d - 1) :
    /\ calls[c] = calls[d] /\ calls[d].way = "forward_to"
    /\ fate[<<d, "value">>] \in {"handling", "done", "failed"}
    => fate[<<c, "value">>] \in {"done", "failed"}

\* Every await ends unless it leads to actors that await each other in a circle.
AwaitResolvesUnlessStuck ==
  \A c \in 1..MaxCalls :
    (\E p \in Parties : waits[p] = c)
      ~> \/ \A p \in Parties : waits[p] # c
         \/ Stuck(calls[c].to)

\* What is in the mailbox of an actor somebody holds, a forwarded value or an
\* outcome too, is handled unless the actor ends or its handler leads to such a
\* circle: forwarding to oneself instead of awaiting blocks nobody.
ServedUnlessStuck ==
  \A m \in Messages :
    fate[m] = "queued" /\ (\E a \in Actors : IsFor(m, a) /\ Owners(a) # {})
      ~> \/ fate[m] \in {"done", "failed"}
         \/ \E a \in Actors :
              /\ IsFor(m, a)
              /\ \/ Owners(a) = {} \/ phase[a] # "serving"
                 \/ Blocked(a) /\ Stuck(calls[waits[a]].to)

\* Each actor is an actor of ActorContract.
Contract(a) ==
  INSTANCE ActorContract WITH
    Roles   <- {a},
    Msgs    <- Messages,
    Holders <- Parties \cup Messages,
    mailbox <- [r \in {a} |-> mailbox[a]],
    handles <- Owners(a),
    stopped <- a \in stopped,
    backlog <- backlog[a],
    phase   <- IF phase[a] = "serving" THEN "serving" ELSE "ending",
    fate    <- [m \in Messages |-> IF IsFor(m, a) THEN fate[m] ELSE "unsent"],
    verdict <- "pending"

\* What its neighbours do to it, a forwarded value, a handle that goes with the
\* state of another actor, is all within the contract of an actor.
EachKeepsItsContract ==
  /\ \A a \in Actors : Contract(a)!Init
  /\ [][\A a \in Actors : [Contract(a)!Next]_(Contract(a)!vars)]_vars
=============================================================================
