-------------------------------- MODULE Chat --------------------------------
(***************************************************************************)
(* The chat room of examples/chat.rs: a Server that awaits each of its     *)
(* clients in turn to broadcast a text, and a Client per connection that   *)
(* passes the lines it reads on to the Server without awaiting it.         *)
(*                                                                         *)
(* The Server is an actor of two roles that nothing stops, since the       *)
(* stream of connections keeps a handle of it.  A client's loop is what    *)
(* ActorContract allows: after a stop request it works off what was in its *)
(* mailbox then, and what comes later may be lost.                         *)
(***************************************************************************)
EXTENDS Naturals, Sequences, SequencesExt

CONSTANTS
  MaxClients,  \* bound: connections made
  MaxLines,    \* bound: lines read of one connection
  Fragile      \* bound: the clients whose far ends may go away

ASSUME BoundsAreNat == MaxClients \in Nat /\ MaxLines \in Nat

VARIABLES
  listening,   \* NetListener's queue: how many connections wait in it
  relaying,    \* MsgRelay's queue
  users,       \* the ids in the Server's map
  frames,      \* the broadcasts in progress, the innermost first
  asked,       \* the client whose send_out the Server awaits, 0 if none
  started,     \* how many clients there are; their ids are 1..started
  phase,       \* client -> "serving", "stopping", "ended" or, never stopped, "idled"
  inbox,       \* client -> its mailbox
  backlog,     \* client -> how much of it a stop request still waits for
  feeding,     \* the clients whose stream of lines goes on
  wire,        \* the clients to whose sockets one can write
  read,        \* client -> how many lines were read
  tasks,       \* messages to the relay that tasks of their own are to send
  log,         \* history: the texts in the order in which they were broadcast
  seen         \* history: client -> the texts written to its socket

serverVars == <<users, frames, asked>>
netVars == <<feeding, wire, read>>
clientVars == <<phase, inbox, backlog>>
vars == <<listening, relaying, serverVars, started, clientVars, netVars, tasks, log, seen>>

Ids == 1..MaxClients
Clients == 1..started

\* A text, a message to the relay and one to a client: what, of whom, and which.
Texts == ({"line"} \X Ids \X (1..MaxLines)) \cup ({"entered", "left"} \X Ids \X {0})
RelayMsgs == ({"line"} \X Ids \X (1..MaxLines)) \cup ({"leaves"} \X Ids \X {0})
ClientMsgs == {<<"error">>} \cup {<<"line", n>> : n \in 1..MaxLines} \cup ({"out"} \X Texts)

\* A call of `broadcast`: whom it has not sent to yet and whom it found dead.
Frames == [text : Texts, todo : SUBSET Ids, dead : SUBSET Ids]

\* The mailbox of an actor that has ended is closed.
Gone(i) == phase[i] \in {"ended", "idled"}

TypeOK ==
  /\ listening \in 0..MaxClients
  /\ relaying \in Seq(RelayMsgs)
  /\ users \subseteq Clients
  /\ frames \in Seq(Frames)
  /\ started \in Nat /\ asked \in 0..started
  /\ started + listening <= MaxClients
  /\ phase \in [Ids -> {"serving", "stopping", "ended", "idled"}]
  /\ inbox \in [Ids -> Seq(ClientMsgs)]
  /\ backlog \in [Ids -> Nat]
  /\ \A i \in Ids : /\ backlog[i] <= Len(inbox[i])
                    /\ phase[i] = "serving" => backlog[i] = 0
  /\ feeding \subseteq Clients
  /\ wire \subseteq Ids
  /\ read \in [Ids -> 0..MaxLines]
  /\ tasks \subseteq RelayMsgs
  /\ log \in Seq(Texts)
  /\ seen \in [Ids -> Seq(Texts)]

Init ==
  /\ listening = 0 /\ relaying = <<>>
  /\ users = {} /\ frames = <<>> /\ asked = 0
  /\ started = 0
  /\ phase = [i \in Ids |-> "serving"]
  /\ inbox = [i \in Ids |-> <<>>]
  /\ backlog = [i \in Ids |-> 0]
  /\ feeding = {} /\ wire = Ids
  /\ read = [i \in Ids |-> 0]
  /\ tasks = {}
  /\ log = <<>> /\ seen = [i \in Ids |-> <<>>]

-----------------------------------------------------------------------------
(* The network                                                             *)

\* client_stream.feed_to(message_handle)
Connect ==
  /\ started + listening < MaxClients
  /\ listening' = listening + 1
  /\ UNCHANGED <<relaying, serverVars, started, clientVars, netVars, tasks, log, seen>>

\* The task of net_in_stream.feed_to(..) sends what was read; an error is the last
\* thing there is to read, and so is an item the actor refuses.
Feed(i, m) ==
  /\ i \in feeding
  /\ inbox' = IF Gone(i) THEN inbox ELSE [inbox EXCEPT ![i] = Append(@, m)]
  /\ feeding' = IF Gone(i) \/ m[1] = "error" THEN feeding \ {i} ELSE feeding
  /\ UNCHANGED <<listening, relaying, serverVars, started, phase, backlog, wire, tasks, log, seen>>

ReadLine(i) ==
  /\ read[i] < MaxLines
  /\ Feed(i, <<"line", read[i] + 1>>)
  /\ read' = [read EXCEPT ![i] = @ + 1]

ReadError(i) ==
  /\ Feed(i, <<"error">>)
  /\ UNCHANGED read

\* The far end has shut its side.
EndOfStream(i) ==
  /\ i \in feeding
  /\ feeding' = feeding \ {i}
  /\ UNCHANGED <<listening, relaying, serverVars, started, clientVars, wire, read, tasks, log, seen>>

\* From here on writing to the socket fails.
Break(i) ==
  /\ i \in Fragile \cap Clients \cap wire
  /\ wire' = wire \ {i}
  /\ UNCHANGED <<listening, relaying, serverVars, started, clientVars, feeding, read, tasks, log, seen>>

-----------------------------------------------------------------------------
(* The Server                                                              *)

\* `broadcast` is called by the calls in `below`.
Broadcast(text, to, below) ==
  /\ frames' = <<[text |-> text, todo |-> to, dead |-> {}]>> \o below
  /\ log' = Append(log, text)

\* Mutant: a removal is announced without looking whether there was one.
RemoveClient_Always(i, below) ==
  /\ users' = users \ {i}
  /\ Broadcast(<<"left", i, 0>>, users \ {i}, below)

\* Announces the departure if the client was still there.
RemoveClient(i, below) ==
  /\ users' = users \ {i}
  /\ IF i \in users
     THEN Broadcast(<<"left", i, 0>>, users \ {i}, below)
     ELSE frames' = below /\ UNCHANGED log

\* A client is started, with its feed and a task that awaits its exit handle.
Listen ==
  /\ frames = <<>> /\ listening > 0
  /\ listening' = listening - 1
  /\ started' = started + 1
  /\ users' = users \cup {started + 1}
  /\ feeding' = feeding \cup {started + 1}
  /\ Broadcast(<<"entered", started + 1, 0>>, users', <<>>)
  /\ UNCHANGED <<relaying, asked, clientVars, wire, read, tasks, seen>>

\* send_msg and client_leaves
Relay ==
  /\ frames = <<>> /\ relaying # <<>>
  /\ relaying' = Tail(relaying)
  /\ LET m == Head(relaying) IN
       IF m[1] = "leaves"
       THEN RemoveClient(m[2], <<>>)
       ELSE Broadcast(m, users, <<>>) /\ UNCHANGED users
  /\ UNCHANGED <<listening, asked, started, clientVars, netVars, tasks, seen>>

\* What became of send_out is known.
Answer(i, ok) ==
  /\ asked' = 0
  /\ frames' = [frames EXCEPT ![1] =
                  [text |-> @.text, todo |-> @.todo \ {i},
                   dead |-> IF ok THEN @.dead ELSE @.dead \cup {i}]]

\* user.send_out(msg).await, the users in any order.
SendOut(i) ==
  /\ frames # <<>> /\ asked = 0 /\ i \in Head(frames).todo
  /\ IF Gone(i)
     THEN Answer(i, FALSE) /\ UNCHANGED inbox
     ELSE /\ inbox' = [inbox EXCEPT ![i] = Append(@, <<"out", Head(frames).text>>)]
          /\ asked' = i /\ UNCHANGED frames
  /\ UNCHANGED <<listening, relaying, users, started, phase, backlog, netVars, tasks, log, seen>>

\* Mutant: the dead are removed as they are found.
Sweep_AtOnce(i) ==
  /\ frames # <<>> /\ asked = 0 /\ i \in Head(frames).dead
  /\ RemoveClient(i, [frames EXCEPT ![1].dead = @ \ {i}])
  /\ UNCHANGED <<listening, relaying, asked, started, clientVars, netVars, tasks, seen>>

\* self.remove_client(dead).await, once all users have been sent to; it comes back
\* here when the broadcast that it may make is over.
Sweep(i) ==
  /\ frames # <<>> /\ Head(frames).todo = {} /\ i \in Head(frames).dead
  /\ RemoveClient(i, [frames EXCEPT ![1].dead = @ \ {i}])
  /\ UNCHANGED <<listening, relaying, asked, started, clientVars, netVars, tasks, seen>>

Return ==
  /\ frames # <<>> /\ Head(frames).todo = {} /\ Head(frames).dead = {}
  /\ frames' = Tail(frames)
  /\ UNCHANGED <<listening, relaying, users, asked, started, clientVars, netVars, tasks, log, seen>>

-----------------------------------------------------------------------------
(* A Client                                                                *)

\* The loop takes a message, of type what.
Take(i, what) ==
  /\ i \in Clients /\ ~Gone(i) /\ inbox[i] # <<>> /\ Head(inbox[i])[1] = what
  /\ inbox' = [inbox EXCEPT ![i] = Tail(@)]

\* ctx.stop() or not, at the end of a handler.
StopIf(i, stop) ==
  IF stop /\ phase[i] = "serving"
  THEN /\ phase' = [phase EXCEPT ![i] = "stopping"]
       /\ backlog' = [backlog EXCEPT ![i] = Len(inbox[i]) - 1]
  ELSE /\ backlog' = [backlog EXCEPT ![i] = IF @ = 0 THEN 0 ELSE @ - 1]
       /\ UNCHANGED phase

\* Mutant: on_read awaits the relay, here for its queue to be empty.
OnReadLine_Awaits(i) ==
  /\ Take(i, "line")
  /\ frames = <<>> /\ relaying = <<>> /\ StopIf(i, FALSE)
  /\ tasks' = tasks \cup {<<"line", i, Head(inbox[i])[2]>>}
  /\ UNCHANGED <<listening, relaying, serverVars, started, netVars, log, seen>>

\* on_read(Ok(msg)) drops the envelope of send_msg.
OnReadLine(i) ==
  /\ Take(i, "line") /\ StopIf(i, FALSE)
  /\ tasks' = tasks \cup {<<"line", i, Head(inbox[i])[2]>>}
  /\ UNCHANGED <<listening, relaying, serverVars, started, netVars, log, seen>>

OnReadError(i) ==
  /\ Take(i, "error") /\ StopIf(i, TRUE)
  /\ UNCHANGED <<listening, relaying, serverVars, started, netVars, tasks, log, seen>>

\* send_out writes; a failure stops the actor and is passed up.
OnSendOut(i) ==
  /\ Take(i, "out") /\ StopIf(i, i \notin wire)
  /\ Answer(i, i \in wire)
  /\ seen' = IF i \in wire THEN [seen EXCEPT ![i] = Append(@, Head(inbox[i])[2])] ELSE seen
  /\ UNCHANGED <<listening, relaying, users, started, netVars, tasks, log>>

\* The loop is left and the mailbox dropped.
EndLoop(i) ==
  /\ i \in Clients /\ ~Gone(i)
  /\ IF phase[i] = "stopping" THEN backlog[i] = 0 ELSE i \notin users \cup feeding
  /\ phase' = [phase EXCEPT ![i] = IF @ = "stopping" THEN "ended" ELSE "idled"]
  /\ inbox' = [inbox EXCEPT ![i] = <<>>]
  /\ UNCHANGED <<listening, relaying, users, started, backlog, netVars, log, seen>>

\* Mutant: nobody asked for the exit handle.
End_Unwatched(i) ==
  /\ EndLoop(i)
  /\ IF asked = i THEN Answer(i, FALSE) ELSE UNCHANGED <<asked, frames>>
  /\ UNCHANGED tasks

\* Mutant: dropping the mailbox leaves the Server waiting.
End_Unanswered(i) ==
  /\ EndLoop(i)
  /\ tasks' = tasks \cup {<<"leaves", i, 0>>}
  /\ UNCHANGED <<asked, frames>>

\* The Server gets an error if it waits for what was in the mailbox, and the exit
\* handle is ready.
End(i) ==
  /\ EndLoop(i)
  /\ IF asked = i THEN Answer(i, FALSE) ELSE UNCHANGED <<asked, frames>>
  /\ tasks' = tasks \cup {<<"leaves", i, 0>>}

\* The tasks of dropped envelopes and of the exit handles, in any order.
SendToRelay(m) ==
  /\ m \in tasks
  /\ tasks' = tasks \ {m}
  /\ relaying' = Append(relaying, m)
  /\ UNCHANGED <<listening, serverVars, started, clientVars, netVars, log, seen>>

-----------------------------------------------------------------------------
ServerStep ==
  \/ Listen \/ Relay \/ Return
  \/ \E i \in Ids : SendOut(i) \/ Sweep(i)

Handler(i) == OnReadLine(i) \/ OnReadError(i) \/ OnSendOut(i)

Next ==
  \/ Connect \/ ServerStep
  \/ \E i \in Ids :
       ReadLine(i) \/ ReadError(i) \/ EndOfStream(i) \/ Break(i) \/ Handler(i) \/ End(i)
  \/ \E m \in tasks : SendToRelay(m)

Spec == Init /\ [][Next]_vars

(***************************************************************************)
(* The Server is always held; a client is, by the Server or its stream,    *)
(* while it has messages to take, or it was stopped (see ActorLoop). To    *)
(* write to a socket ends at some time: a peer that never reads what it is *)
(* sent is left out, see the README.                                       *)
(***************************************************************************)
Fairness ==
  /\ WF_vars(ServerStep)
  /\ \A i \in Ids : WF_vars(i \in users \cup feeding /\ Handler(i))
                    /\ WF_vars(phase[i] = "stopping" /\ (Handler(i) \/ End(i)))
  /\ \A m \in RelayMsgs : WF_vars(SendToRelay(m))

FairSpec == Spec /\ Fairness

-----------------------------------------------------------------------------
(* Properties                                                              *)

\* examples/chat.rs:174, 200, 246: however the dead are found, by a broadcast, by one
\* within another or by their exit handles, each is announced once, and nobody speaks
\* or leaves who was not announced before.
AnnouncedOnce ==
  /\ IsInjective(log)
  /\ \A k \in DOMAIN log :
       log[k][1] # "entered" =>
         \E j \in 1..(k - 1) : log[j] = <<"entered", log[k][2], 0>>

Since(i) == CHOOSE k \in DOMAIN log : log[k] = <<"entered", i, 0>>

\* examples/chat.rs:10: a client is sent every text from its own entry on, in the
\* order all others get them, until it is found dead; between two broadcasts no
\* user lacks one.
EveryoneHearsTheSame ==
  \A i \in Clients :
    LET due == SubSeq(log, Since(i), Len(log)) IN
      /\ IsPrefix(seen[i], due)
      /\ frames = <<>> /\ i \in users => seen[i] = due

\* A broadcast ends: Server and clients call each other and yet never all wait.
BroadcastsEnd == frames # <<>> ~> frames = <<>>

\* What a client has been sent to read before it stops is broadcast, even if the
\* client has ended by then.
LinesAreRelayed ==
  \A i \in Ids, n \in 1..MaxLines :
    (\E k \in DOMAIN inbox[i] : inbox[i][k] = <<"line", n>>) /\ phase[i] = "serving"
      ~> \E k \in DOMAIN log : log[k] = <<"line", i, n>>

\* A client that has ended is taken off the list.
TheDeadAreRemoved == \A i \in Ids : phase[i] = "ended" ~> i \notin users

-----------------------------------------------------------------------------
(* Why a broadcast ends: what BroadcastsEnd rests on besides the fairness.  *)

\* The Server awaits only a client that can answer: it is on the list, so that its
\* loop goes on, and the send_out is in its mailbox.
AskedCanAnswer ==
  asked # 0 =>
    asked \in users /\ ~Gone(asked) /\ <<"out", Head(frames).text>> \in ToSet(inbox[asked])

\* examples/chat.rs:193, 202: a broadcast that finds a client dead makes another one
\* in remove_client, but each within another has taken a client off the list.
DepthBounded == Len(frames) + Cardinality(users) <= started + 1

\* Where in a mailbox the send_out is that the Server awaits.
Place(box) == CHOOSE k \in DOMAIN box : box[k][1] = "out"

\* How much of a broadcast is left, the weightiest first.
Rank == <<Cardinality(users), Len(frames),
          2 * Cardinality(Head(frames).todo) + Cardinality(Head(frames).dead),
          IF asked = 0 THEN 1 ELSE 0,
          IF asked = 0 THEN 0 ELSE Place(inbox[asked])>>

Less(r, s) == \E k \in 1..5 : r[k] < s[k] /\ \A j \in 1..(k - 1) : r[j] = s[j]

\* No step, of whomever, adds to what is left of a broadcast, and each of the Server
\* and of the client that it awaits leaves less.
BroadcastWearsOut ==
  [][frames # <<>> /\ frames' # <<>> =>
       /\ Rank' = Rank \/ Less(Rank', Rank)
       /\ ServerStep \/ (\E i \in Ids : i = asked /\ (Handler(i) \/ End(i))) =>
            Less(Rank', Rank)]_vars

-----------------------------------------------------------------------------
(* The inductive invariant: it implies the two safety properties above.    *)

\* Nothing is written to the socket of i any more.
Silent(i) == Gone(i) \/ i \notin wire

\* Off the list, or found dead by a broadcast that will take i off.
Lost(i) == i \notin users \/ \E f \in ToSet(frames) : i \in f.dead

\* The latest text is not written to i, nor is it known that it cannot be.
Lacks(i) == frames # <<>> /\ i \in Head(frames).todo

Once(s, e) == \A j, k \in DOMAIN s : s[j] = e /\ s[k] = e => j = k

\* Nobody has seen or done anything of a client that was not started.
BornInv ==
  \A i \in Ids \ Clients :
    phase[i] = "serving" /\ inbox[i] = <<>> /\ seen[i] = <<>> /\ read[i] = 0

\* Only the innermost broadcast has anyone to send to, and its text is the latest.
StackInv ==
  /\ \A k \in DOMAIN frames : k # 1 => frames[k].todo = {}
  /\ \A i \in Ids : Lacks(i) => /\ i \in users
                              /\ log # <<>> /\ Head(frames).text = log[Len(log)]

\* The Server waits for the one send_out there is, and its client can still take it.
AskedInv ==
  /\ asked # 0 => /\ Lacks(asked) /\ ~Gone(asked)
                  /\ \E m \in ToSet(inbox[asked]) : m[1] = "out"
  /\ \A i \in Ids :
       /\ \A m \in ToSet(inbox[i]) :
            m[1] = "out" => i = asked /\ m = <<"out", Head(frames).text>>
       /\ asked # 0 => Once(inbox[i], <<"out", Head(frames).text>>)

\* Who is taken for dead is.
LostInv ==
  /\ \A i \in Clients : Lost(i) => Silent(i)
  /\ \A i \in Ids :
       <<"leaves", i, 0>> \in tasks \cup ToSet(relaying) => i \in Clients /\ Gone(i)

\* A line that was read is in one place: its client's mailbox, a task, the relay's
\* queue or the log.
LineInv ==
  \A i \in Ids, n \in 1..MaxLines :
    LET said   == <<"line", i, n>>
        unread == <<"line", n>> \in ToSet(inbox[i])
    IN  /\ Once(inbox[i], <<"line", n>>) /\ Once(relaying, said)
        /\ unread => said \notin tasks \cup ToSet(relaying) \cup ToSet(log)
        /\ said \in tasks => said \notin ToSet(relaying) \cup ToSet(log)
        /\ said \in ToSet(relaying) => said \notin ToSet(log)
        /\ unread \/ said \in tasks \cup ToSet(relaying) \cup ToSet(log) =>
             i \in Clients /\ n <= read[i]

\* Who entered was started, and who left is off the list.
LogInv ==
  \A i \in Ids :
    /\ <<"entered", i, 0>> \in ToSet(log) <=> i \in Clients
    /\ <<"left", i, 0>> \in ToSet(log) => i \in Clients \ users

\* A client has seen what was said since it entered, but for the latest text while
\* it lacks that, and up to some text if it is lost.
SeenInv ==
  \A i \in Clients : \A p \in DOMAIN log :
    log[p] = <<"entered", i, 0>> =>
      /\ Len(seen[i]) <= Len(log) - p + 1
      /\ \A k \in 1..Len(seen[i]) : seen[i][k] = log[p + k - 1]
      /\ Lost(i) \/ Len(seen[i]) = Len(log) - p + (IF Lacks(i) THEN 0 ELSE 1)

IInv ==
  /\ TypeOK
  /\ BornInv
  /\ StackInv
  /\ AskedInv
  /\ LostInv
  /\ LineInv
  /\ LogInv
  /\ AnnouncedOnce
  /\ SeenInv
=============================================================================
