--------------------------- MODULE ActorLoopInv ---------------------------
(***************************************************************************)
(* The inductive invariant behind the safety properties of ActorLoop.      *)
(* None of those properties is inductive: that an actor whose loop was     *)
(* left is not running, for instance, rests on what each precondition of   *)
(* the round saw and on the fact that a handle, once the last one is gone, *)
(* only comes back while a handler runs.                                   *)
(***************************************************************************)
EXTENDS ActorLoop

Looping == {"guard", "poll", "handler"}

Slots(r) == 1..Len(queue[r])

\* In the channel of role r, message m is ahead of message n.
Ahead(r, m, n) ==
  \A i, j \in Slots(r) : queue[r][i] = m /\ queue[r][j] = n => i < j

\* Control: where the task is determines which bookkeeping is in use.
ControlInv ==
  /\ ended = "no" <=> pc \in Looping
  /\ sawEmpty => pc = "guard" /\ guard \in Roles
  /\ enabled # {} => pc \in {"guard", "poll"}
  /\ pc = "poll" => enabled # {}
  /\ pc \notin {"closing", "joined"} => open = Roles
  /\ pc = "joined" => open = {}

\* A branch this round left out was left out because the actor was not
\* running, and it is not running since.
GuardInv ==
  /\ pc = "guard" =>
       \A b \in Branches \ enabled : b < guard => ~IsRunning
  /\ pc = "poll" => \A b \in Branches \ enabled : ~IsRunning
  /\ ended = "broke" => ~IsRunning
  /\ Watchdog \in enabled => running

\* The mailboxes hold exactly the queued messages, each once.
MailboxInv ==
  /\ \A r \in Roles : \A i \in Slots(r) : fate[queue[r][i]] = "queued"
  /\ \A r, s \in Roles : \A i \in Slots(r), j \in Slots(s) :
       queue[r][i] = queue[s][j] => r = s /\ i = j
  /\ \A m \in Msgs : fate[m] = "queued" =>
       \E r \in Roles : \E i \in Slots(r) : queue[r][i] = m
  /\ \A r \in Roles \ open : queue[r] = <<>>

\* What a fate says of the task.
FateInv ==
  /\ pc = "handler" <=> \E m \in Msgs : fate[m] = "handling"
  /\ \A m, n \in Msgs : fate[m] = "handling" /\ fate[n] = "handling" => m = n
  /\ ended = "panicked" <=> \E m \in Msgs : fate[m] = "failed"
  /\ \A m \in Msgs :
       fate[m] \in {"lost", "rejected"} => pc \in {"closing", "joined"}

\* The backlog of a stop request is in enabled branches, or handled.
NoBacklogIn(r) == \A i \in Slots(r) : queue[r][i] \notin atStop

BacklogInv ==
  /\ atStop # {} => ~running
  /\ \A m \in atStop :
       /\ ended = "no" => fate[m] \in {"queued", "handling", "done"}
       /\ ended = "broke" => fate[m] = "done"
  /\ pc = "guard" =>
       \A r \in Roles \ enabled :
         r < guard \/ (r = guard /\ sawEmpty) => NoBacklogIn(r)
  /\ pc = "poll" => \A r \in Roles \ enabled : NoBacklogIn(r)

\* The result of the task and what the exit handle made of it.
ExitInv ==
  /\ pc \in {"closing", "joined"} =>
       result \in {"JoinError", IF ended = "broke" THEN "Ok" ELSE "Err"}
  /\ result = "JoinError" => HooksMayPanic
  /\ exit \in {"Exit", "Panic", "unreachable"} =>
       /\ pc = "joined"
       /\ result = CASE exit = "Exit"  -> "Ok"
                     [] exit = "Panic" -> "Err"
                     [] OTHER          -> "JoinError"

\* A round of a stopped actor keeps only branches with a message to take: the
\* timer, and a channel listened on because the actor is running, are left out.
WakeInv ==
  pc \in {"guard", "poll"} /\ ~running =>
    /\ Watchdog \notin enabled
    /\ \A r \in enabled : queue[r] # <<>>

\* The conjunction that every step of ActorLoop preserves.
IInv ==
  /\ TypeOK
  /\ ControlInv
  /\ GuardInv
  /\ MailboxInv
  /\ FateInv
  /\ BacklogInv
  /\ ExitInv
  /\ WakeInv

\* A select! that a stopped actor polls finds a message at once: a stop request
\* never waits for the watchdog's second or for a message nobody sends.
StoppedNeverSleeps ==
  pc = "poll" /\ ~running =>
    \E r \in Roles : r \in enabled /\ queue[r] # <<>>
=============================================================================
