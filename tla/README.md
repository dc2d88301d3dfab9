# Shakespeare, verified

TLA+ models of [shakespeare](../src/README.md), an actor framework for tokio in
which the `#[actor]`, `#[role]` and `#[performance]` macros generate an actor's
shell, its message types and its event loop.  This directory holds the modules,
the configurations that TLC checks on small instances, and the proofs that the
TLA+ proof system checks for instances of every size.

Paths below are relative to `src/`; `macro` stands for `shakespeare-macro/src`.

## 1. The system

### 1.1 Components

| component | code | state it keeps | operations |
|---|---|---|---|
| event loop | `macro/outputs/actor/spawning_function.rs`, `src/core/context.rs`, `src/tokio.rs`, `src/lib.rs` (`catch_future`) | the round of `select!` it is in, the idle timer, `Context.running`, one unbounded channel per role | evaluate preconditions, take a message, run its handler, fire the timer, break, run a hook, drop the receivers, finish |
| shell and handles | `macro/outputs/actor/{actor_struct,self_getter}.rs`, `src/core/actor.rs` | the reference count of `Arc<Shell>`, one sender per role, the `ExitHandle` | `start`, clone, drop, `get_shell`, `enqueue`, await or drop the exit handle |
| envelopes and return paths | `src/core/returnval.rs` | the prepared message and the Arc it holds; the oneshot of an awaited call | drop, await, `ignore_return`, `forward_to`, cancel |
| futures and streams as messages | `src/sendable.rs` | a background task owning a future or a stream and an Arc | `send_when_ready`, `feed_to` |
| role expansion | `macro/outputs/role`, `macro/interfacerewriter.rs`, `macro/declarations/role.rs`, `src/core/role.rs` | none at run time: payload and return enums, `Accepts`, `Emits` | expand a trait |
| performance expansion | `macro/outputs/performance`, `macro/declarations/performance.rs` | none at run time: sending methods, renamed handlers, dispatch | expand an impl |
| actor module parsing | `macro/declarations/actor.rs`, `macro/data/{data_item,handler_functions}.rs`, `macro/outputs/actor/mod.rs` | the items sorted so far | sort one item, report an error, put the parts of the output together |
| systems of actors | what the parts above become together: handlers that call, forward to, watch and hold other actors | who holds whom, who awaits whom | call, forward, resume, let go, end |
| macro entry points | `macro/lib.rs`, `macro/macros.rs` | none | `make_actor`, `make_role`, `make_performance` |
| chat example | `examples/chat.rs` | the server's map of users, the broadcasts in progress, the clients' mailboxes, sockets and streams | join, relay a line, broadcast, remove a client, stop |
| supervisor test | `shakespeare-macro/tests/successes/supervisor.rs` | three flags | workers report their outcome |
| developer tooling | `xtask` | none | run cargo, expand macros |

### 1.2 How they interact

A client calls a role method on the shell.  That only makes an `Envelope`, which
owns a clone of the `Arc<Shell>`; what the client does with the envelope decides
when the message is pushed into the role's channel and where the handler's
return value goes.  The event loop's task owns the receiving ends and one more
Arc, inside its `Context`.  The reference count of that Arc is the protocol by
which clients and loop agree on when to end: `Context::is_running` is
`strong_count > 1 && running`.  It is read without any lock while clients clone
and drop, several times in one round of `select!`.  When the loop is left, the
`stop` or `catch` hook runs with the receivers still alive, then the future is
dropped with everything in the queues, and then the `ExitHandle` becomes ready.

The macros meet the run time in the enums: a payload variant is made from a
signature by the role's expansion and matched by the performance's expansion,
which sees another copy of the signature, one that may have a `Context` in it.

An actor's state may own handles of other actors, and its handlers may make calls
and await them.  Awaiting stalls the loop: nothing else is taken until the callee
has answered.  `forward_to` has the *callee's* loop put the value into a third
mailbox, so its closure must own a handle of the recipient until then.  An exit
handle can be sent to another actor by a task that awaits it.  So actors keep each
other alive, wait for each other and learn of each other's end.

### 1.3 What is hard

* A round reads a queue and then the reference count, branch after branch, while
  other threads send and drop; each decision may be stale when it is acted on.
* The end of an actor is a race between the last handle, the messages that came
  through it, the timer, `Context::stop` and panics.
* Dropping things does work: a dropped envelope sends from a new task, a dropped
  receiver loses its messages and wakes their callers, a cancelled await may or
  may not have sent.
* Handlers that await each other in a circle never come back, and what else then
  stands still depends on who awaits whom.
* The chat server removes a dead client within a broadcast to others, which may
  find further dead ones and removes them within that, while the exit handles of
  all of them report the same departures again.
* The macros' expansions are made apart and must agree.

`PROJECT.json` lists every hazard at its line with the properties that cover it,
and says of the rest why none does yet.

### 1.4 What makes each component correct

* Event loop: it is left only for a reason (no handles, a stop request, a
  panic); while it sleeps it listens to everything a live client may use; what a
  stop request found waiting is handled; one handler at a time, in order per
  mailbox; a message of a client that holds a handle is handled; it does end, once
  stopped unless clients go on sending, or abandoned while it listens to its timer.
* Shell and handles: the exit handle tells how the actor ended, once, when no
  message can be accepted any more.
* Envelopes: an error means the actor is over; awaited calls of one task are
  handled in order; an awaited call is answered.
* Futures and streams: the actor lives while they are pending; they go when it
  has stopped.
* Expansions: whatever compiles apart fits together; a message reaches its
  method with its arguments in place and its value goes back to its caller; a value
  that one method alone takes is accepted, and names or tuples that collide are
  refused by rustc.
* Actor modules: each item ends up in the expansion once; a malformed module gets
  the error it calls for, however its items are ordered.
* Systems: an actor refuses what a handle's owner sends only if it failed; nothing
  but a circle of awaits blocks an actor that somebody holds; whatever the others
  do, each actor keeps its contract.
* Chat: each departure is announced once to all who remain, everybody hears the
  same in the same order, and a broadcast ends.

## 2. The plan

| order | module | what | state |
|---|---|---|---|
| 1 | `ActorLoop`, `ActorLoopInv`, `ActorContract` | the event loop, its channels, the handles and the exit handle; the inductive invariant; what an actor promises | done |
| 2 | `ActorLoop_proofs` | the invariant, the safety properties and the refinement, for every size | done |
| 3 | `Envelopes` (composes `ActorLoop` with callers) | envelopes dropped, awaited, forwarded, cancelled | done |
| 4 | `Subscriptions` (composes `ActorLoop` with sources) | `send_when_ready`, `feed_to` | done |
| 5 | `RoleExpansion` | both macro expansions of a role and the calls through them | done |
| 6 | `ActorSystem` (composes several actors, each a copy of `ActorContract`) | handlers that call other actors: awaiting in a cycle, `forward_to` as the remedy, exit handles sent as messages, who keeps whom alive | done |
| 7 | `ActorSystem_proofs` | its invariant, the deadlock that is for ever, the contract of each actor, for every size and program | done |
| 8 | `Chat` | the chat server's mark-and-sweep over awaited broadcasts | done |
| 9 | `ActorDecl`, `ActorDecl_proofs` | sorting the items of an actor module, its errors, against the requirements the documentation lists; proved for modules of any length | done |
| 10 | `Envelopes_proofs`, `Subscriptions_proofs` | what was checked of calls, futures and streams, for any number of them | done |
| 11 | `RoleExpansion_proofs` | the way of a call through the expansions, for any names and types | done |
| 12 | `Chat_proofs` | who is announced when and what each client hears, for any number of connections | done |
| 13 | `ChatEnds_proofs` | the measure by which a broadcast ends, for any number of connections | done |

Liveness is left to TLC throughout, but what it rests on is stated as safety and
proved where the code has it: `StoppedNeverSleeps` (loop), `NoCallStranded` (calls),
`NobodyAwaitsTheEnded` (systems), `BroadcastWearsOut` (chat).

The supervisor of the test is one of the programs of `ActorSystem`.

The abstract specification worth stating is `ActorContract`: it has no rounds, no
timer and no reference counts, and modules about several actors should rest on
it rather than on the loop.

## 3. The modules

### 3.1 ActorLoop

One actor.  `Spec` has a variable for each piece of state:

| variable | code |
|---|---|
| `queue`, `open` | the unbounded channels, and the receivers not dropped yet |
| `handles` | who owns an `Arc<Shell>`, the context's own one excluded: `strong_count - 1` |
| `running` | `Context.running` |
| `pc`, `guard`, `sawEmpty`, `enabled` | where the task is; in a round of `select!`, the branch whose precondition is next, whether its `is_empty()` was true, the branches left enabled |
| `elapsed` | the deadline of `timeout_sleep` has passed |
| `fate` | message: unsent, queued, handling, done, failed (its handler panicked), lost (dropped with its queue), rejected (the send failed) |
| `ended`, `result`, `exit` | how `loop_lambda` completed, what the task returned, what the `ExitHandle` yielded |
| `atStop` | history: what was queued at `Context::stop` |

Each read of shared state is a step: `CheckQueue` is `is_empty()` in a role's
precondition, `CheckRunning` the `is_running()` of a role or of the timer,
`EnterSelect` the decision between polling and `else`.  `TakeMessage` is a role's
branch with the timer's reset in it, `WatchdogFires` the timer's branch with its
own read of `is_running()`.  `HandlerReturns` and `HandlerPanics` end a handler,
`ContextStop` and `GetShell` are what it may do meanwhile.  `RunHook`,
`DropReceiver`, `TaskCompletes`, `PollExitHandle` are the end.  `Send`,
`CloneHandle`, `ReleaseHandle` are steps of the holders, which this module leaves
free to do what they like.

`recv()` yielding `None` has no action: the context owns an Arc of the shell and
with it a sender of every channel, so no channel closes from the other side.

`StoppedNeverSleeps` (in `ActorLoopInv`, with the invariant) is about the wake-up after
`Context::stop`: the request is only a flag, which wakes nothing, so every round of a
stopped actor that gets as far as `select!` must already have a message to take.

### 3.2 ActorContract

The same actor seen by the owners of handles: mailboxes, handles, a stop request
with its backlog, and three phases.  `ActorLoop` implements it under the mapping
written in its `Contract` instance (`ImplementsContract`, checked and proved), and
so does each actor of `ActorSystem` (`EachKeepsItsContract`, checked and proved).
What may come with a step is as wide as its users need: `Init` has any non-empty
set of handles, whoever sends may clone or drop a handle as it does, and several
handles may go at once, when the state that owned them does.

### 3.3 Envelopes

Extends `ActorLoop`: a call is one of the holders while its Arc lives, from
`MakeCall` (the shell's role method) to the release after the send.  The steps
are those of `returnval.rs`: `Envelope::drop` hands the message to a background
task, `IntoFuture`, `ignore_return` and `forward_to` unpack it, `PollSend` is the
first poll up to the channel's send, `FinishSend` the release of the Arc and the
result, `PollReply` the oneshot, `Cancel` a caller that drops its future.
`forward_to` is modelled here up to the delivery of the call itself; the way of its
value into the second mailbox is in `ActorSystem`.  The exit handle is kept here: what
its loss changes is what `ActorLoop` says of it, and nothing in a call looks at it.

The module extends `ActorLoopInv`, so that its inductive invariant `EnvInv` is the
loop's with the calls' added: `CallInv` (a call, its message and its Arc agree),
`RefusedInv`, `AfterInv` (who was told of an end), `LineInv` (the order of calls
that wait in one mailbox).  `NoCallStranded` says that a caller awaits an answer that
can still come: as long as somebody holds the actor, or after a stop, it never sleeps
on what it owes.

### 3.4 Subscriptions

Extends `ActorLoop` too: the task of `send_when_ready` or `feed_to` is a holder
from `Subscribe` on.  `Yield` is the source, `Enqueue` the send, `Continue` what
follows it (`break` after an error), `StreamEnds` the end of the stream.
`SubInv` is the loop's invariant with the tasks': `SentInv` and `ApartInv` say which
items were sent and by whom, `LineInv` that a stream's items stand in its mailbox
in their order, `GapInv` that none was handled after one that was not.

### 3.5 RoleExpansion

An actor with up to `MaxMethods` methods is declared method by method
(`AddMethod`), each with or without a `Context` in its performance and, if its
role is not canonical, in its trait; `Compile` expands everything and asks
whether rustc accepts it.  Then one call runs through the generated code:
`CallMethod` (a shell method) or `SendValue` (a bare value through `Accepts`),
`Dispatch` (the generated match), `TakeAnswer` (`Emits`).  The operators are the
functions of the macro crate under their names.  What rustc would say is
modelled as far as the expansions depend on each other: names, conflicting
impls, trait methods implemented, match arms that fit their variants.  `RequestInv`
says at each stage of the call what it stands for, `NamedOnce` that no performance has
two methods of one name; `IInv` is the invariant.

`ExpansionsFit` ties rustc's verdict to the declaration alone: an actor is rejected
exactly if two of its names meet when the macros join them and change their case
(`NamesApart`), or two parameter lists that are not shared have one tuple
(`TuplesApart`).  `AcceptsOf` groups methods by their parameter *lists*, as the macro
does, while each impl is of the list's *tuple*.  `Takers(r, t)` are therefore the
methods that take a value of type t in either form, and `AcceptsTellsTheMethod` says
how the two notions relate in what compiles.

### 3.6 ActorSystem

Any number of actors, with one mailbox each, and of tasks that are not actors.  A
*program*, chosen in `Init` and never changed, says which handles are put into the
actors' states, which exit handles are sent to whom, which calls the code may make
and which actors call `Context::stop`.

| variable | code |
|---|---|
| `calls`, `fate` | the calls in the order made; what became of each one's message (`ask`), of the value it forwards (`value`) and of each exit handle that was sent (`outcome`) |
| `mailbox`, `phase`, `stopped`, `backlog` | the state `ActorContract` gives an actor |
| `held`, `watcher` | the handles in tasks and actors' states; where exit handles were sent |
| `waits` | the call a handler or task awaits |

`Owners(b)` is derived: the parties that hold b, and the messages that own an Arc of
b until they are sent, which are calls to b, outcomes addressed to b, and calls
whose value is to be forwarded to b.

`Call` is a role method and the first poll of its envelope, `Send` the task that a
dropped envelope spawns, `SendOutcome` `send_when_ready` on an exit handle,
`Forward` the closure of `ReturnPath::Mailbox` that the callee's loop runs,
`Resume` the end of an await.  `Take`, `HandlerReturns`, `HandlerPanics`,
`ContextStop`, `Leave`, `DropState` and `End` are the loop as the contract allows
it; `Release` drops a handle.

`OnlyFailedActorsRefuse` carries `returnval.rs`' "actor has panicked or stopped"
over to values and outcomes.  `DeadlockIsForEver` says that a circle of awaits is
not broken from outside, and `AwaitResolvesUnlessStuck` and `ServedUnlessStuck`
that nothing but such a circle blocks anyone: the remedy of the documentation,
forwarding to oneself, does work.  `NobodyAwaitsTheEnded` is its counterpart for the
dead: an actor's end leaves nobody waiting.  `ForwardsKeepOrder` is about two hops.

### 3.7 Chat

`examples/chat.rs` as it is: the Server with its two roles, the clients, the tasks
of `feed_to`, of dropped envelopes and of exit handles.  `frames` is the stack of
`broadcast` calls, since `remove_client` broadcasts from within `broadcast`;
`SendOut` is one turn of its first loop and `Sweep` one of its second.  `Listen`,
`Relay` are the Server's handlers up to the first await.  `OnReadLine`,
`OnReadError` and `OnSendOut` are the Client's; `End` leaves its loop, drops its
mailbox, which gives the Server an error if it awaits what was in there, and makes
its exit handle ready.  `Break` is the far end that goes away.

`IInv` has a part for each thing that could come apart: `StackInv` (the broadcasts in
progress), `AskedInv` (the one `send_out` there is and who waits for it), `LostInv` (who
is taken for dead), `LineInv` (where a line is), `LogInv` and `SeenInv` (what was said
and who got it).

Why a broadcast ends is stated apart, as three properties of safety.  `AskedCanAnswer`:
whom the Server awaits is on the list, has not left its loop, and has the `send_out` in
its mailbox.  `DepthBounded`: broadcasts nest no deeper than users were taken off.
`BroadcastWearsOut`: `Rank` is what is left of the broadcasts in progress, the users,
the open calls of `broadcast`, who is left in the innermost one's two loops, whether it
awaits, and how far the `send_out` is from the head of its mailbox; no step of anybody
adds to it, and each step of the Server and of the client that it awaits takes from it.

### 3.8 ActorDecl

`ActorDecl::new` reads one item of a module per step, one action per arm of its
`match`; `Declare` is what follows the loop and `Expand` is `ActorOutput`.
`ExpandPerformance` is the macro on a block outside of a module.  The actions say
what the macros look at: attributes, the names of functions, the trait's path, the
methods a performance does not support, the parameter patterns its sending methods
cannot be made of.
`Answer` is what a module as a whole calls for, by the requirements that `macro/lib.rs`
lists and the order in which the macro's phases look at them; `VerdictFitsModule` says
that the reader, item by item and phase by phase, arrives there.
`SplitPerformancesFit` relates an empty block inside to its body outside.

## 4. The runs

| run | shows | bounds |
|---|---|---|
| `loop` | safety: `IInv`, `NoPrematureExit`, `ListensWhileHeld`, `StopDrains`, `ExitHandleTruthful`; refinement: `ImplementsContract`; liveness: `StopEndsUnlessSentTo`, `WatchdogStops`, `QueuedMessagesAreServed` | 2 roles, 3 messages, 2 handles, hooks that may panic |
| `envelopes` | `EnvInv`, `RefusedMeansStopOrPanic`, `ErrorIsFinal`, `HappensBefore`, `AwaitResolvesWhileHeld` | 2 calls, 1 client, 2 roles |
| `subscriptions` | `SubInv`, `StreamHasNoGap`, `SourcesAreNotRefused`, `SourcesAreServed` | a future, a stream, 2 messages, 2 roles |
| `roles` | `IInv`, `ExpansionsFit`, `MessageReachesItsMethod`, `CallerGetsItsReturn`, `AcceptsTellsTheMethod` | 2 roles, 2 methods or 3 in one canonical role, 3 names, 4 parameter lists, 2 return types |
| `system` | `IInv`, `OnlyFailedActorsRefuse`, `ForwardsKeepOrder`, `DeadlockIsForEver`, `EachKeepsItsContract`; liveness: `AwaitResolvesUnlessStuck`, `ServedUnlessStuck` | 2 actors, 1 task, 5 programs, 3 calls |
| `chat` | `IInv`, `AnnouncedOnce`, `EveryoneHearsTheSame`; liveness: `BroadcastsEnd`, `LinesAreRelayed`, `TheDeadAreRemoved` | 2 connections, 1 line each, 1 socket that may break (`Fragile`) |
| `decl` | `IInv`, `VerdictFitsModule`, `NothingIsLost`, `SplitPerformancesFit` | modules of up to 3 of 12 items and of 4 of 6, 4 sets of blocks outside |

`IInv`, `EnvInv` and `SubInv` have the type invariant as their first conjunct.  No
symmetry is declared
in these runs, since most of them check liveness; the `_doc` runs on safety use
it.

Why these bounds are enough.  Two roles are needed, and suffice, for a branch
checked before and a branch checked after the one that matters, with the timer
as a third.  Three messages give a queue with a head, a middle and a tail, or a
message in a handler and one in each queue.  Two handles give a sender that goes
while another stays.  What the bounds leave open for the loop is closed by the
proofs.  In `RoleExpansion` every property is about one method, or about two that
may be confused, but for `AcceptsTellsTheMethod`, which needs a value's method and two
more that share a list (`MaxOfOneRole`).  The names collide in both ways they can: across
roles (`room_go` of Chat, `go` of ChatRoom) and by case (`go`, `Go`).  The parameter lists
are the empty one, a pair as two parameters and as one, and a `'static` reference, which
must not be taken for a `Context`.
Illegal declarations (a reference that is not `'static` among the parameters) are
excluded by `ParamsAssumption`.

The five programs of `system` are the ways two actors can be joined: they know each
other and await each other (`Mutual`), one answers by forwarding (`Answering`), one
feeds another that only this pipe knows (`Pipe`), one watches the other and calls
it when it hears of its end (`Supervisor`), one calls itself (`Selfish`).  Three
calls are one that starts things and two that meet; two in a row of each kind show
their order.  In `chat` two connections suffice for a broadcast that finds a dead
client while another joins, speaks or dies, and for a sweep within a sweep.  Either
connection may end with its stream, one of them with its socket as well (`Fragile`): that
is enough for three broadcasts within each other, and leaves out only the runs in which
both are cut off in the same way.  The proofs hold for every `Fragile`.  In
`decl` a fourth item is a second data item, hook or performance after everything a
module needs.

Messages are sent once each, so every behaviour is finite up to cloning and
dropping handles.  The end of a stopped loop must not be a matter of that:
`StopEndsUnlessSentTo` names the way out that traffic leaves it, a message which was
sent after the stop and waits, and the run has both ways.  The deadlock check is off because an actor, once joined, and
its clients may really stop.

### Disagreements with the documentation

Five runs end in a counterexample: each states a sentence of the documentation
that the code does not live up to, quoted in `PROJECT.json` under `findings`.

* `loop_drop_doc`, `loop_lastdrop_doc`: the preconditions of a round are read one
  after the other while clients send and drop.  A client that sends and drops its
  handle between `is_empty()` and `is_running()` leaves a message behind in a
  disabled branch, and it is lost when all branches are disabled.  A last drop
  between a role's precondition and the timer's leaves the loop asleep without its
  timer, for ever.
* `loop_stop_doc`: messages are still handled after `Context::stop`.
* `envelope_mustuse_doc`: an unpolled future does send its message.
* `subscription_shutdown_doc`: a quiet stream outlives its actor.

Others follow from the same models and have no run of their own.

* With two roles the races of the first item meet: a message sits in the disabled
  branch, the loop sleeps on the other, and its awaiting caller, whose envelope let
  go of its handle, never gets an answer.  `AwaitResolvesWhileHeld` therefore asks
  for a handle besides.
* A hook that panics reaches the `unreachable!` in `ExitHandle` (`PollExitHandle`).
* `src/core/role.rs` (line 59) and `src/lib.rs` (line 27) have it that a role accepts a
  value when exactly one of its methods takes it.  With `f(a: (A, B))`, `g(a: A, b: B)`
  and `h(a: A, b: B)` it accepts `(A, B)`, which three methods take, and sends it to `f`:
  the list of g and h is shared, that of f is not (`ThreeTakersAreAccepted`, which TLC
  evaluates in the run `roles`).  Without h, rustc finds two impls for one type.
* `src/core/role.rs` (line 80) says that `Accepts` is never implemented for `()`.  The
  empty list is skipped, but a method with one parameter of type `()` has a list.
* A performance is written like any trait impl, says `src/lib.rs` (line 83), but a
  parameter `mut x: T` gives "internal error ... this is likely a bug": its pattern is
  not an expression (`Unsendable`).
* A send is still accepted while the `catch` hook runs, and its message is lost
  (`Send` with `pc = "hook"`).
* A caller can see `Hangup` without a panic or a stop (the message lost in
  `loop_drop_doc`).
* A `Context` written in a standalone role is stripped in silence
  (`RoleSignatures`).
* `#[performance(canonical)]` on a trait with an extended path inside a module does
  not parse (`BadRoles`); on a block outside of a module `canonical` has no effect;
  `mod a;` is refused like an empty module.

## 5. Fairness

`FairSpec` of `ActorLoop` assumes

* weak fairness of the loop's own steps: tokio polls a task again once it was
  woken, and a precondition or a drop never blocks;
* strong fairness of `TakeMessage(r)` for each role: `select!` begins at a random
  branch, so a branch that is ready in infinitely many rounds is taken in some;
* weak fairness of `TimerElapses`: time passes;
* weak fairness of a handler's end.  This is an assumption on the user's code:
  the framework has no way to end a handler that does not return.

`Envelopes` and `Subscriptions` add weak fairness of spawned tasks and of callers
that await: they run when woken.  Nothing is assumed of clients, of envelopes
nobody consumes, or of sources, which may stay silent for ever.

`ActorSystem` assumes of each loop no more than the liveness properties that the run
`loop` establishes for one: an actor that somebody holds takes its messages
(`QueuedMessagesAreServed`), one that panicked or left its loop ends, and so does one
that was stopped, as each of its finitely many calls is made once
(`StopEndsUnlessSentTo`).  An actor that nobody holds may stay for ever and handle nothing,
because of the race of `loop_lastdrop_doc`.  Handlers end once they await nothing,
woken tasks run; nobody has to make a call or to drop a handle.

`Chat` assumes the same of the Server and of its clients, which the Server or their
stream holds, and that a write to a socket ends at some time, with success or not.
A peer that keeps its socket open and never reads would block the Server in
`broadcast` for good: `send_out` is awaited and has no timeout.

## 6. What is proved

### 6.1 One actor

`ActorLoop_proofs` proves, for any number of roles, messages and holders, hooks
that panic or not:

| theorem | property |
|---|---|
| `Invariance` | `[]IInv` |
| `TypeCorrect` | `[]TypeOK` |
| `PrematureExit` | `[]NoPrematureExit` |
| `Listening` | `[]ListensWhileHeld` |
| `Draining` | `[]StopDrains` |
| `ExitTold` | `[]ExitHandleTruthful` |
| `NoSleepAfterStop` | `[]StoppedNeverSleeps` |
| `Implementation` | `ImplementsContract` |

The only assumption is `ConstantsAssumption`: there is at least one role (the
macro refuses an actor without performances) and `HooksMayPanic` is a Boolean.

None of the properties is inductive.  That the loop was left rightly depends on
what each precondition of the round saw, and the argument is that "not running"
is stable outside handlers: once the last handle is gone, or a stop was
requested, nothing brings `is_running()` back, because handles are cloned from
handles and the context lends its own only to a handler.  So `GuardInv` can say
of every branch a round left out that the actor is still not running.  A stop
request adds the backlog: `BacklogInv` keeps every message queued at that moment
in a branch that is enabled or still to be checked.  `MailboxInv` says that
mailboxes hold exactly the queued messages, once each, which the drop of a
receiver and the end of the task need; `FateInv` and `ExitInv` tie what became
of messages to where the task is.  `WakeInv` looks at a round that runs while the flag
is down: the timer's branch is out, because it reads the flag, and a role's branch is in
only if its queue was not empty, and nothing takes from a queue within a round.  As a
stop comes from a handler, no round can have begun before it.

The proof has a lemma per conjunct of `IInv` (`TypeStep`, `ControlStep`, ...), a
step per action in each, and three lemmas that say once what taking, accepting
and dropping do to a mailbox, from the library's theorems on sequences.
`Implementation` maps each action to a step of the contract or to a stutter;
`IInv` supplies the guards the contract has and the code has not, as that a loop
that breaks has no backlog left.

### 6.2 Systems of actors

`ActorSystem_proofs` proves, for any number of actors, tasks and calls and for any
set of programs:

| theorem | property |
|---|---|
| `Invariance` | `[]IInv` |
| `TypeCorrect` | `[]TypeOK` |
| `OnlyFailedRefuse` | `[]OnlyFailedActorsRefuse` |
| `ForwardsInOrder` | `[]ForwardsKeepOrder` |
| `NoneAwaitTheEnded` | `[]NobodyAwaitsTheEnded` |
| `DeadlockForEver` | `DeadlockIsForEver` |
| `Implementation` | `EachKeepsItsContract` |

The assumptions: actors are not tasks, `MaxCalls` is a natural number, programs name
actors and parties that exist (`ProgramsJoinActors`), and each actor's exit handle,
of which there is one, was sent to one recipient at most (`OneExitHandle`).

That an actor refuses only when it failed is not inductive.  What carries it is
`AbandonedInv`: an actor that left its loop without a failure has no owner, and
will never have one, because new handles are made from handles or by a running
handler (`CallerKnows`, `OwnersStep`), and a handler runs only in an actor that
serves (`HandlersInv`).  `OwnersStep` rests on `CallsInv`: a call that was not made
has no message.

`ForwardsInOrder` needs an invariant over both mailboxes and what lies between them.
`Ahead(a, m, n)` says of two messages that m was sent to a before n: either n has not been
sent, or m stands before it in the mailbox, or m is out, and if n was taken, m is done.
`OrderInv` has this for the calls themselves and for the values they forward.  The one
gives the other in the step where the earlier handler returns: it sends its value
(`ForwardInv`) while the later call is still in the mailbox, since one loop handles one
message at a time (`HandlersInv`).  A failure or an end on the way cuts off both
(`FailuresInv`): what comes after a failed message in a mailbox is dropped with it.

`NoneAwaitTheEnded` is the last clause of `FailuresInv` with `HandlersInv`: an ended actor
has no message queued and no handler, so the calls it owed were settled with its end.

`DeadlockForEver` keeps the circle S as its own witness.  An await in S can end only
if the message it waits for is settled, which only the callee's handler does, and
that handler awaits, too; nor is the callee's mailbox dropped, since an actor that
awaits is in a handler and so still serves.

`Implementation` takes the cases of what a step does to messages (`FateCases`): sent
to the actor it is `Accept` or `Reject` of its contract, taken `Take`, settled
`Complete` or `Panic`, dropped `Lose`; the rest only touch the set of owners and are
`Acquire`, `Release` or a stutter (`QuietCase`).  The rest of the system appears in
the contract of one actor only in its set of handles.

### 6.3 Calls, futures and streams

`Envelopes_proofs` and `Subscriptions_proofs` extend the proofs of the loop, for any
number of calls, tasks, sources and roles:

| module | theorem | property |
|---|---|---|
| `Envelopes_proofs` | `EnvInvariance` | `[]EnvInv` |
| | `CallsActAsHolders` | `EnvSpec => Spec` |
| | `RefusedForAReason` | `[]RefusedMeansStopOrPanic` |
| | `ErrorsAreFinal` | `[]ErrorIsFinal` |
| | `AwaitedCanCome` | `[]NoCallStranded` |
| | `AwaitedFirst` | `HappensBefore` |
| `Subscriptions_proofs` | `SubInvariance` | `[]SubInv` |
| | `TasksAreHolders` | `SubSpec => Spec` |
| | `NoGap` | `[]StreamHasNoGap` |
| | `NotRefused` | `[]SourcesAreNotRefused` |

Each step of a call or of a source is a step of `ActorLoop` or leaves its variables
alone (`CallsActAsHolders`, `TasksAreHolders`), so the loop's `IInv` holds under them
and only what they add is to be shown.

A refusal has a reason because the sender owns an Arc: the loop of an actor that was
not stopped and did not panic is left only when no handle is left, and none comes
back (`RefusalCause`, `OverForGood`).  Order rests on `Ahead(r, m, n)`, that m stands
before n in mailbox r: nothing but taking m or dropping the mailbox changes it
(`AheadStays`), and a message that is sent is behind all that are there
(`QueueFill`).  Hence a call awaited before another was made is not behind it, and
of a stream's items the handled ones are the first ones, those in the mailbox the
next, in their order, and all others were lost or refused with the actor's end.

`AwaitedCanCome` puts two properties of the loop together: while a handle is left and
nobody stopped the actor, `ListensWhileHeld`, so the awaited call's own queue is listened
on; after a stop, `StoppedNeverSleeps`.  With the last handle gone neither holds, and the
caller may wait for the timer, or for ever (the race of `loop_lastdrop_doc`).

### 6.4 Expansions

`RoleExpansion_proofs` proves, for any roles, identifiers, parameter lists and return
types and any number of methods:

| theorem | property |
|---|---|
| `Invariance` | `[]IInv` |
| `ExpansionsAlwaysFit` | `[]ExpansionsFit` |
| `ReachesItsMethod` | `[]MessageReachesItsMethod` |
| `AnswersComeBack` | `[]CallerGetsItsReturn` |
| `AcceptsTellsMethod` | `[]AcceptsTellsTheMethod` |

The assumptions are `ParamsAssumption`: parameter lists are sequences, and none begins
with a reference that is not `'static`, since a payload could not own it; and
`NamesAssumption`: a role's name is a sequence of words.  The lemmas
on signatures say that `RemoveContext` undoes `WithContext` and leaves other methods
alone (`LentMethod`, `PlainMethod`, `MethodShape`).  That names tell methods apart is
what rustc has checked when the program runs (`CompiledInv`): one enum has no two
variants of a name (`VariantTells`), one type no two methods (`RenamedTells`).  So a
variant leads to its arm, the arm to its method with all fields bound
(`AllArguments`), and the variant of the return to an arm of `Emits`.  Whatever names
collide, no call goes astray: the program does not compile.

Which names those are is `ExpansionsAlwaysFit`: rustc rejects an actor exactly if two
identifiers of a role differ by their case alone, two methods of different roles are
joined to the same name or to that of a dispatch function, a method is called `enqueue`,
or two lists that are not shared have one tuple.  Both directions matter.  All of it is a
condition on the names and types a user chose and none on where a `Context` was written,
since each of the macros strips it by itself (`PerformancesFit`); and no such collision
gets past rustc.  `NamesFit` and `ImplsFit` show the two halves of rustc's verdict
equivalent to `NamesApart` and `TuplesApart`.

`AcceptsTellsMethod` rests on `AcceptsAlone`, that `Accepts` is implemented for the lists
of the methods that are `Alone`, and on rustc's check of the impls: a second taker of an
accepted value that were `Alone` too would make a second impl for one type.

### 6.5 Actor modules

`ActorDecl_proofs` proves, for modules of any length and any blocks outside:
`Invariance` (`IInv`), `TypeCorrect`, `VerdictFits` (`VerdictFitsModule`), `NothingLost`
(`NothingIsLost`), `SplitFits` (`SplitPerformancesFit`).  `PartsOfTheModule` says
that what the reader has collected is what the items before `next` are,
`ReasonForVerdict` why it stopped; at a final verdict the two give the properties.

### 6.6 The chat room

`Chat_proofs` and `ChatEnds_proofs` prove, for any number of connections and lines and
whichever sockets may break:

| module | theorem | property |
|---|---|---|
| `Chat_proofs` | `Invariance` | `[]IInv` |
| | `Announced` | `[]AnnouncedOnce` |
| | `HearTheSame` | `[]EveryoneHearsTheSame` |
| `ChatEnds_proofs` | `OnlyTheLivingAreAsked` | `[]AskedCanAnswer` |
| | `NestingIsBounded` | `[]DepthBounded` |
| | `BroadcastsWearOut` | `BroadcastWearsOut` |

The assumption is `BoundsAreNat`: both bounds are natural numbers.

A broadcast within a broadcast begins in the second loop of the outer one, so only the
innermost still has anyone to send to (`StackInv`): a client lacks at most the latest
text (`SeenInv`), and a new text is said only when nobody lacks one (`NobodyLacks`,
`BroadcastStep`).  Whoever is off the list or in a list of dead is silent, ended or with
a broken socket (`LostInv`), so a stale list of an outer broadcast never takes off a
client that still could be written to, and as departures are announced only by whoever
finds the client in the map, there is one of each (`LogInv`).  A line is unread, in a
task, in the relay's queue or said (`LineInv`): it is said once, and after its author's
entry, since it was read by a client that had been started.

The three theorems of `ChatEnds_proofs` are what `BroadcastsEnd` needs besides fairness.
`Rank` is five numbers, compared from the first (`Less`), so it can fall only finitely
often.  A sweep that finds a client dead opens another broadcast, to everybody who is
left, but takes a user off the list, which weighs most.  Joining is the one thing that
adds a user, and `Listen` takes the next connection only when no broadcast is in
progress.  The awaited client may be fed lines meanwhile, but they go behind the
`send_out` (`PlaceStays`), and whatever it handles first brings that nearer
(`PlaceNears`); if it ends, its mailbox goes, and that is the answer (`AnswerFalls`).
`Innermost` says what `StackInv` means for the next step, and the counting rests on
the library's theorems on finite sets.

### 6.7 Only model-checked

Every invariant of the passing runs and every action property and refinement is proved.
What stays with TLC is liveness, which needs `ENABLED` and fairness: `StopEndsUnlessSentTo`,
`WatchdogStops`, `QueuedMessagesAreServed`, `AwaitResolvesWhileHeld`, `SourcesAreServed`,
`AwaitResolvesUnlessStuck`, `ServedUnlessStuck`, `BroadcastsEnd`, `LinesAreRelayed`,
`TheDeadAreRemoved`.  For the end of a broadcast the well-founded induction over `Rank`,
which would make `BroadcastsEnd` of `BroadcastsWearOut`, is out of the provers' reach too.
The disagreements with the documentation are counterexamples of TLC.

Some properties have a theorem and no run: `StoppedNeverSleeps`, `NoCallStranded`,
`NobodyAwaitsTheEnded`, `AskedCanAnswer`, `DepthBounded`, `BroadcastWearsOut`.  TLC agrees
with each under the configuration of its component's run, but the theorems say more and
they follow from invariants that the runs do check.

## 7. What is abstracted, and what is not modelled

* Messages are distinct values; payloads matter only in `RoleExpansion`.
* Dispatch, handler and the delivery of its value are one step at the end of the
  handler: a handler's value reaches a oneshot before the next round begins, and
  nothing else can see the time between.
* A hook is one step.  What it may do with handles its state owns is what any
  holder may do.
* `Arc` counts are exact and every access is atomic; memory orderings weaker than
  that are not modelled.
* In `ActorSystem` an envelope's first poll is part of the call, an actor has one
  mailbox, and a message sent to an actor nobody holds any more may be lost, as the
  contract leaves open; a supervisor therefore hears of an end only while somebody
  holds it.
* In `Chat` what is written is a text's kind, author and number; names, rendering,
  the codec and the accept loop are left out, and a write that never ends is, too
  (section 5).
* `make_role` only hands a trait on; what it does is in `RoleExpansion`.  The reading
  and writing of token streams is not modelled.
* References that are not `'static` are no parameters in `RoleExpansion`
  (`ParamsAssumption`): that one which is not a `Context` is stripped like one is seen at
  `HasContext`, and no call with it is modelled.
* Two roles whose paths end in the same name, raw identifiers, and the pattern `_`,
  which expands to code that rustc refuses, are left out.
* std's `Weak` handles are left out: with `Arc::downgrade` a client may keep one and
  make a handle of it at any time before the actor ends, which in the model only its own
  `Context` does, within a handler.
* Not modelled: `xtask`; the text of compile errors; documentation attributes,
  visibilities and doc hiding in the generated code; `async_trait`.
