----------------------------- MODULE ActorLoop -----------------------------
(***************************************************************************)
(* The task behind one actor: the event loop that the #[actor] macro       *)
(* generates (`SpawningFunction`), the `Context` it lends to handlers, the *)
(* one channel per role that feeds it, the reference-counted shell that    *)
(* keeps it alive and the `ExitHandle` that reports how it ended.          *)
(*                                                                         *)
(* The loop is one `tokio::select!` with a branch per role and a watchdog  *)
(* branch.  A round evaluates the preconditions of all branches once, in   *)
(* the order of the branches, and then polls the branches left enabled     *)
(* until one of them is ready.  Clients run on other threads, so every     *)
(* read of a queue and every read of the reference count is a step of its  *)
(* own here.                                                               *)
(*                                                                         *)
(* Whoever owns an `Arc` of the shell is a holder.  This module leaves the *)
(* holders unconstrained: they clone, send and release as they please.     *)
(***************************************************************************)
EXTENDS Naturals, Sequences, Functions

CONSTANTS
  NumRoles,       \* the number of roles the actor performs
  Msgs,           \* the messages, each sent at most once
  Holders,        \* places outside the loop that may own an Arc of the shell
  HooksMayPanic   \* whether the user's `stop` and `catch` hooks may panic

ASSUME ConstantsAssumption ==
  /\ NumRoles \in Nat \ {0}
  /\ HooksMayPanic \in BOOLEAN

Roles == 1..NumRoles
Watchdog == NumRoles + 1     \* the timer branch comes after every role
Branches == 1..Watchdog

VARIABLES
  queue,      \* role -> the messages in its unbounded channel
  open,       \* the roles whose receiver has not been dropped yet
  handles,    \* the holders that own an Arc, the loop's own one excluded
  running,    \* Context.running
  pc,         \* where the task is
  guard,      \* the branch whose precondition is evaluated next
  sawEmpty,   \* is_empty() of branch `guard` was true, is_running() is next
  enabled,    \* the branches this round's preconditions left enabled
  elapsed,    \* whether the deadline of timeout_sleep has passed
  fate,       \* message -> what became of it
  ended,      \* how loop_lambda completed
  result,     \* what the task returned, as JoinHandle reports it
  exit,       \* what the ExitHandle yielded to its owner
  atStop      \* history: the messages queued when Context::stop was called

loopVars == <<pc, guard, sawEmpty, enabled, elapsed>>
endVars == <<ended, result, exit>>
vars == <<queue, open, handles, running, loopVars, fate, endVars, atStop>>

Queued == {m \in Msgs : fate[m] = "queued"}

TypeOK ==
  /\ queue \in [Roles -> Seq(Msgs)]
  /\ open \subseteq Roles
  /\ handles \subseteq Holders
  /\ running \in BOOLEAN
  /\ pc \in {"guard", "poll", "handler", "hook", "closing", "joined"}
  /\ guard \in 1..(Watchdog + 1)
  /\ sawEmpty \in BOOLEAN
  /\ enabled \subseteq Branches
  /\ elapsed \in BOOLEAN
  /\ fate \in [Msgs -> {"unsent", "queued", "handling", "done", "failed",
                        "lost", "rejected"}]
  /\ ended \in {"no", "broke", "panicked"}
  /\ result \in {"none", "Ok", "Err", "JoinError"}
  /\ exit \in {"pending", "Exit", "Panic", "unreachable", "detached"}
  /\ atStop \subseteq Msgs

-----------------------------------------------------------------------------
(***************************************************************************)
(* `start`: the channels are built, the shell is created and one Arc of it *)
(* is returned as the message handle.  The deadline is a second away.      *)
(***************************************************************************)
Init ==
  /\ queue = [r \in Roles |-> <<>>]
  /\ open = Roles
  /\ \E h \in Holders : handles = {h}
  /\ running = TRUE
  /\ pc = "guard" /\ guard = 1 /\ sawEmpty = FALSE /\ enabled = {}
  /\ elapsed = FALSE
  /\ fate = [m \in Msgs |-> "unsent"]
  /\ ended = "no" /\ result = "none" /\ exit = "pending"
  /\ atStop = {}

\* Mutants: the context's own Arc miscounted, forgotten, and a stop request
\* that is not looked at.
IsRunning_OffByOne == (\E h, g \in handles : h # g) /\ running
IsRunning_CountsItself == running
IsRunning_IgnoresStop == handles # {}

(***************************************************************************)
(* Context::is_running: some Arc besides the context's own one exists and  *)
(* no handler has called Context::stop.                                    *)
(***************************************************************************)
IsRunning == handles # {} /\ running

-----------------------------------------------------------------------------
(* The preconditions of select!, evaluated branch after branch.            *)

Enable(b) ==
  /\ enabled' = enabled \cup {b}
  /\ guard' = b + 1
  /\ sawEmpty' = FALSE

Skip(b) ==
  /\ guard' = b + 1
  /\ sawEmpty' = FALSE
  /\ UNCHANGED enabled

\* Mutant: `!(output.is_empty()) && context.is_running()`.
CheckQueue_And ==
  /\ pc = "guard" /\ guard \in Roles /\ ~sawEmpty
  /\ \/ queue[guard] = <<>> /\ Skip(guard)
     \/ queue[guard] # <<>> /\ sawEmpty' = TRUE /\ UNCHANGED <<guard, enabled>>
  /\ UNCHANGED <<queue, open, handles, running, pc, elapsed, fate, endVars,
                 atStop>>

\* `!(output.is_empty()) || ..`: a non-empty queue enables its branch at once.
CheckQueue ==
  /\ pc = "guard" /\ guard \in Roles /\ ~sawEmpty
  /\ \/ /\ queue[guard] # <<>>
        /\ Enable(guard)
     \/ /\ queue[guard] = <<>>
        /\ sawEmpty' = TRUE
        /\ UNCHANGED <<guard, enabled>>
  /\ UNCHANGED <<queue, open, handles, running, pc, elapsed, fate, endVars,
                 atStop>>

\* Mutant: the precondition of a role is only that its queue is not empty.
CheckRunning_WatchdogOnly ==
  /\ pc = "guard"
  /\ (guard \in Roles /\ sawEmpty) \/ guard = Watchdog
  /\ \/ IsRunning /\ guard = Watchdog /\ Enable(guard)
     \/ ~(IsRunning /\ guard = Watchdog) /\ Skip(guard)
  /\ UNCHANGED <<queue, open, handles, running, pc, elapsed, fate, endVars,
                 atStop>>

\* `.. || context.is_running()`, and the watchdog's whole precondition.
CheckRunning ==
  /\ pc = "guard"
  /\ (guard \in Roles /\ sawEmpty) \/ guard = Watchdog
  /\ \/ IsRunning /\ Enable(guard)
     \/ ~IsRunning /\ Skip(guard)
  /\ UNCHANGED <<queue, open, handles, running, pc, elapsed, fate, endVars,
                 atStop>>

LeaveLoop(how) ==
  /\ pc' = "hook"
  /\ ended' = how
  /\ enabled' = {}

\* All preconditions are known: poll, or take `else => { break; }`.
EnterSelect ==
  /\ pc = "guard" /\ guard = Watchdog + 1
  /\ \/ enabled = {} /\ LeaveLoop("broke")
     \/ /\ enabled # {}
        /\ pc' = "poll"
        /\ UNCHANGED <<enabled, ended>>
  /\ guard' = 1
  /\ UNCHANGED <<queue, open, handles, running, sawEmpty, elapsed, fate,
                 result, exit, atStop>>

-----------------------------------------------------------------------------
\* Mutant: the next round starts with the second branch.
NextRound_SkipsFirst ==
  /\ pc' = "guard"
  /\ guard' = 2
  /\ enabled' = {}

(***************************************************************************)
(* Polling.  select! starts at a random branch, so any enabled branch that *)
(* is ready may win.  recv() never yields None: the context owns an Arc of *)
(* the shell and with it a sender of every channel.                        *)
(***************************************************************************)
NextRound ==
  /\ pc' = "guard"
  /\ guard' = 1
  /\ enabled' = {}

\* Mutant: the newest message is taken.
TakeMessage_Newest(r) ==
  /\ pc = "poll" /\ r \in enabled /\ queue[r] # <<>>
  /\ queue' = [queue EXCEPT ![r] = SubSeq(@, 1, Len(@) - 1)]
  /\ fate' = [fate EXCEPT ![queue[r][Len(queue[r])]] = "handling"]
  /\ elapsed' = FALSE
  /\ pc' = "handler"
  /\ enabled' = {}
  /\ UNCHANGED <<open, handles, running, guard, sawEmpty, endVars, atStop>>

TakeMessage(r) ==
  /\ pc = "poll" /\ r \in enabled /\ queue[r] # <<>>
  /\ queue' = [queue EXCEPT ![r] = Tail(@)]
  /\ fate' = [fate EXCEPT ![Head(queue[r])] = "handling"]
  /\ elapsed' = FALSE
  /\ pc' = "handler"
  /\ enabled' = {}
  /\ UNCHANGED <<open, handles, running, guard, sawEmpty, endVars, atStop>>

WatchdogFires ==
  /\ pc = "poll" /\ Watchdog \in enabled /\ elapsed
  /\ \/ ~IsRunning /\ LeaveLoop("broke") /\ UNCHANGED <<guard, elapsed>>
     \/ IsRunning /\ NextRound /\ elapsed' = FALSE /\ UNCHANGED ended
  /\ UNCHANGED <<queue, open, handles, running, sawEmpty, fate, result, exit,
                 atStop>>

\* A second goes by since the timer was last reset.
TimerElapses ==
  /\ pc \in {"guard", "poll", "handler"} /\ ~elapsed
  /\ elapsed' = TRUE
  /\ UNCHANGED <<queue, open, handles, running, pc, guard, sawEmpty, enabled,
                 fate, endVars, atStop>>

-----------------------------------------------------------------------------
(* The generated dispatch function and what a handler may do meanwhile.    *)

ContextStop ==
  /\ pc = "handler"
  /\ running' = FALSE
  /\ atStop' = atStop \cup Queued
  /\ UNCHANGED <<queue, open, handles, loopVars, fate, endVars>>

\* Context::get_shell, the Arc ending up with holder h.
GetShell(h) ==
  /\ pc = "handler" /\ h \notin handles
  /\ handles' = handles \cup {h}
  /\ UNCHANGED <<queue, open, running, loopVars, fate, endVars, atStop>>

HandlerReturns(m) ==
  /\ pc = "handler" /\ fate[m] = "handling"
  /\ fate' = [fate EXCEPT ![m] = "done"]
  /\ NextRound
  /\ UNCHANGED <<queue, open, handles, running, sawEmpty, elapsed, endVars,
                 atStop>>

\* catch_future turns the unwinding handler into Err(panic).
HandlerPanics(m) ==
  /\ pc = "handler" /\ fate[m] = "handling"
  /\ fate' = [fate EXCEPT ![m] = "failed"]
  /\ LeaveLoop("panicked")
  /\ UNCHANGED <<queue, open, handles, running, guard, sawEmpty, elapsed,
                 result, exit, atStop>>

-----------------------------------------------------------------------------
(***************************************************************************)
(* After the loop: the `stop` or `catch` hook runs with the channels still *)
(* open, then the task's future is dropped piece by piece and only then    *)
(* does the join handle become ready.                                      *)
(***************************************************************************)
RunHook ==
  /\ pc = "hook"
  /\ pc' = "closing"
  /\ \/ result' = IF ended = "broke" THEN "Ok" ELSE "Err"
     \/ HooksMayPanic /\ result' = "JoinError"
  /\ UNCHANGED <<queue, open, handles, running, guard, sawEmpty, enabled,
                 elapsed, fate, ended, exit, atStop>>

\* Mutant: Context::stop makes the loop close its receivers at once.
DropReceiver_OnStop(r) ==
  /\ pc = "closing" \/ (pc = "guard" /\ ~running)
  /\ r \in open
  /\ open' = open \ {r}
  /\ queue' = [queue EXCEPT ![r] = <<>>]
  /\ fate' = [m \in Msgs |-> IF m \in Range(queue[r]) THEN "lost" ELSE fate[m]]
  /\ UNCHANGED <<handles, running, loopVars, endVars, atStop>>

\* Dropping a receiver closes its channel and drops what is still in it.
DropReceiver(r) ==
  /\ pc = "closing" /\ r \in open
  /\ open' = open \ {r}
  /\ queue' = [queue EXCEPT ![r] = <<>>]
  /\ fate' = [m \in Msgs |-> IF m \in Range(queue[r]) THEN "lost" ELSE fate[m]]
  /\ UNCHANGED <<handles, running, loopVars, endVars, atStop>>

\* Mutant: the join handle is ready before the receivers are dropped.
TaskCompletes_Early ==
  /\ pc = "closing"
  /\ pc' = "joined"
  /\ UNCHANGED <<queue, open, handles, running, guard, sawEmpty, enabled,
                 elapsed, fate, endVars, atStop>>

TaskCompletes ==
  /\ pc = "closing" /\ open = {}
  /\ pc' = "joined"
  /\ UNCHANGED <<queue, open, handles, running, guard, sawEmpty, enabled,
                 elapsed, fate, endVars, atStop>>

\* ExitHandle::poll once the JoinHandle is ready.
PollExitHandle ==
  /\ pc = "joined" /\ exit = "pending"
  /\ exit' = CASE result = "Ok"  -> "Exit"
               [] result = "Err" -> "Panic"
               [] OTHER          -> "unreachable"
  /\ UNCHANGED <<queue, open, handles, running, loopVars, fate, ended, result,
                 atStop>>

DropExitHandle ==
  /\ exit = "pending"
  /\ exit' = "detached"
  /\ UNCHANGED <<queue, open, handles, running, loopVars, fate, ended, result,
                 atStop>>

-----------------------------------------------------------------------------
(* The holders, on tasks of their own.                                     *)

\* Role::enqueue down to UnboundedSender::send, through the Arc of h.
Send(h, r, m) ==
  /\ h \in handles /\ fate[m] = "unsent"
  /\ \/ /\ r \in open
        /\ queue' = [queue EXCEPT ![r] = Append(@, m)]
        /\ fate' = [fate EXCEPT ![m] = "queued"]
     \/ /\ r \notin open
        /\ fate' = [fate EXCEPT ![m] = "rejected"]
        /\ UNCHANGED queue
  /\ UNCHANGED <<open, handles, running, loopVars, endVars, atStop>>

CloneHandle(h, g) ==
  /\ h \in handles /\ g \notin handles
  /\ handles' = handles \cup {g}
  /\ UNCHANGED <<queue, open, running, loopVars, fate, endVars, atStop>>

ReleaseHandle(h) ==
  /\ h \in handles
  /\ handles' = handles \ {h}
  /\ UNCHANGED <<queue, open, running, loopVars, fate, endVars, atStop>>

-----------------------------------------------------------------------------
LoopStep ==
  \/ CheckQueue \/ CheckRunning \/ EnterSelect
  \/ WatchdogFires
  \/ \E r \in Roles : TakeMessage(r) \/ DropReceiver(r)
  \/ RunHook \/ TaskCompletes

HandlerEnds == \E m \in Msgs : HandlerReturns(m) \/ HandlerPanics(m)

Next ==
  \/ LoopStep
  \/ TimerElapses
  \/ ContextStop
  \/ HandlerEnds
  \/ \E h \in Holders : GetShell(h) \/ ReleaseHandle(h)
  \/ \E h, g \in Holders : CloneHandle(h, g)
  \/ \E h \in Holders, r \in Roles, m \in Msgs : Send(h, r, m)
  \/ PollExitHandle
  \/ DropExitHandle

Spec == Init /\ [][Next]_vars

(***************************************************************************)
(* tokio keeps polling a woken task, time passes, and select!'s random     *)
(* start gives every ready branch its turn.  That handlers end is an       *)
(* assumption on the user's code.  Nothing is assumed of the holders.      *)
(***************************************************************************)
Fairness ==
  /\ WF_vars(LoopStep)
  /\ \A r \in Roles : SF_vars(TakeMessage(r))
  /\ WF_vars(TimerElapses)
  /\ WF_vars(HandlerEnds)

FairSpec == Spec /\ Fairness
-----------------------------------------------------------------------------
(* Safety                                                                  *)

\* Unless a handler stopped it, the loop is left normally only once every
\* handle is gone, and no handle can appear afterwards: an owner of an Arc can
\* rely on the actor (the two reads of is_running in one round, and the third
\* in the watchdog, see different reference counts).
NoPrematureExit == ended = "broke" /\ running => handles = {}

\* While somebody holds a handle of an actor that was not stopped, the select!
\* it sleeps in listens on every channel and on the timer, whatever the
\* reference count did while the preconditions were evaluated.
ListensWhileHeld ==
  pc = "poll" /\ running /\ handles # {} => enabled = Branches

\* Whatever was in some mailbox when Context::stop was called is handled
\* before the loop is left, unless a handler panics first.
StopDrains ==
  ended = "broke" => \A m \in atStop : fate[m] = "done"

\* The owner of the ExitHandle learns how the actor ended: Panic exactly when a
\* handler panicked, the unreachable!() of its poll only if a hook did, and even then
\* nothing is pending or accepted any more.
ExitHandleTruthful ==
  exit \in {"Exit", "Panic", "unreachable"} =>
    /\ IF exit = "unreachable" THEN HooksMayPanic
       ELSE (exit = "Panic") = \E m \in Msgs : fate[m] = "failed"
    /\ \A m \in Msgs : fate[m] \notin {"queued", "handling"}
    /\ open = {}

\* The loop, its channels and its timer implement the contract of an actor.
Contract ==
  INSTANCE ActorContract WITH
    mailbox <- queue,
    stopped <- ~running,
    backlog <- atStop,
    phase   <- IF ended = "no" THEN "serving"
               ELSE IF pc = "joined" THEN "ended" ELSE "ending",
    verdict <- exit

\* Every step of the task and of the holders is a step of the contract or
\* changes nothing a holder can see: mailboxes are first-in-first-out, one
\* handler runs at a time, nothing is handled after a panic, and the loop is
\* left only for the reasons the contract allows.
ImplementsContract == Contract!Spec

-----------------------------------------------------------------------------
(* Liveness, under FairSpec                                                *)

\* An actor whose loop was left joins; a stopped one works off its mailboxes and joins
\* unless it is sent something more.  Clients that never pause keep it alive: each
\* time, a message sent since the stop is what its loop goes on for.
StopEndsUnlessSentTo ==
  ~running \/ ended # "no"
    ~> \/ pc = "joined"
       \/ ended = "no" /\ \E m \in Msgs \ atStop : fate[m] = "queued"

\* If the timer branch is being polled when the last handle goes, the actor
\* stops within the watchdog's period unless a handler makes a new handle.
WatchdogStops ==
  pc = "poll" /\ Watchdog \in enabled /\ handles = {}
    ~> pc = "joined" \/ handles # {}

\* A message of a sender that keeps a handle is handled for as long as the
\* loop goes on: no branch of select! starves and no wake-up is lost.
QueuedMessagesAreServed ==
  \A m \in Msgs :
    fate[m] = "queued" /\ handles # {}
      ~> fate[m] \in {"done", "failed"} \/ handles = {} \/ ended # "no"

-----------------------------------------------------------------------------
(* What the documentation says and the code does not do.                   *)

\* src/lib.rs:151: "`Context::stop` is called, in which case no further
\* messages are processed".
StopIsImmediate ==
  [][\A m \in Msgs :
       fate[m] = "queued" /\ fate'[m] = "handling" => running]_vars

\* shakespeare-macro/src/lib.rs:114: once the last handle is dropped the actor
\* "will finish processing any messages it has already received".
ReceivedMessagesFinished ==
  ended = "broke" /\ running =>
    \A m \in Msgs : fate[m] \notin {"queued", "lost"}

\* src/lib.rs:152: if the Arc "and all of its copies drop, and no further messages
\* are waiting to be processed, `stop` will be called".
LastHandleDropStops == handles = {} ~> pc = "joined" \/ handles # {}
=============================================================================
