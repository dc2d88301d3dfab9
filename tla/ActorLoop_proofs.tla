-------------------------- MODULE ActorLoop_proofs --------------------------
(***************************************************************************)
(* Proofs about ActorLoop for any number of roles, messages and holders:   *)
(* IInv is inductive (a lemma per conjunct, a step per action), it implies *)
(* the safety properties, and with it every step of the loop is a step of  *)
(* ActorContract or a stutter.                                             *)
(***************************************************************************)
EXTENDS ActorLoopInv, SequenceTheorems, TLAPS

-----------------------------------------------------------------------------
(* Branches and mailboxes                                                  *)

\* The branches of the select! are the roles and, after them, the watchdog.  The
\* proofs below take these facts about them and never the arithmetic behind.
LEMMA Branching ==
  /\ Roles \subseteq Branches
  /\ Watchdog \in Branches
  /\ \A b \in Branches : b \in Nat /\ 1 <= b /\ b < Watchdog + 1
  /\ \A b \in Branches : b + 1 \in 1..(Watchdog + 1)
  /\ \A b \in Branches : b \in Roles <=> b # Watchdog
  /\ 1 \in 1..(Watchdog + 1)
  /\ Watchdog + 1 \notin Branches
  /\ \A b, c \in Branches : b < c + 1 => b < c \/ b = c
<1>1. NumRoles \in Nat \ {0}
  BY ConstantsAssumption
<1>2. QED
  BY <1>1 DEF Roles, Branches, Watchdog

\* Receiving from a channel takes its first message away and moves the others up
\* by one slot (the select! branch of a role).
LEMMA TakeEffect ==
  ASSUME TypeOK, NEW r \in Roles, TakeMessage(r)
  PROVE  /\ 1 \in Slots(r) /\ queue[r][1] \in Msgs
         /\ fate' = [fate EXCEPT ![queue[r][1]] = "handling"]
         /\ queue' \in [Roles -> Seq(Msgs)]
         /\ \A i \in Slots(r)' :
              i + 1 \in Slots(r) /\ queue'[r][i] = queue[r][i + 1]
         /\ \A i \in Slots(r) :
              i # 1 => i - 1 \in Slots(r)' /\ queue'[r][i - 1] = queue[r][i]
         /\ \A s \in Roles \ {r} : queue'[s] = queue[s]
<1>1. queue[r] \in Seq(Msgs) /\ queue[r] # <<>>
  BY DEF TypeOK, TakeMessage
<1>2. /\ Tail(queue[r]) \in Seq(Msgs)
      /\ Len(Tail(queue[r])) = Len(queue[r]) - 1
      /\ \A i \in 1..Len(Tail(queue[r])) : Tail(queue[r])[i] = queue[r][i + 1]
  BY <1>1, HeadTailProperties
<1>3. Len(queue[r]) \in Nat \ {0} /\ Head(queue[r]) = queue[r][1]
  BY <1>1, EmptySeq
<1>4. 1 \in Slots(r) /\ queue[r][1] \in Msgs
  BY <1>1, <1>3 DEF Slots
<1>5. /\ queue' \in [Roles -> Seq(Msgs)] /\ queue'[r] = Tail(queue[r])
      /\ \A s \in Roles \ {r} : queue'[s] = queue[s]
  BY <1>2 DEF TypeOK, TakeMessage
<1>6. Slots(r)' = 1..(Len(queue[r]) - 1)
  BY <1>2, <1>5 DEF Slots
<1>7. /\ \A i \in Slots(r)' :
           i + 1 \in Slots(r) /\ queue'[r][i] = queue[r][i + 1]
      /\ \A i \in Slots(r) : i # 1 => i - 1 \in Slots(r)'
  BY <1>2, <1>3, <1>5, <1>6 DEF Slots
<1>8. ASSUME NEW i \in Slots(r), i # 1
      PROVE  queue'[r][i - 1] = queue[r][i]
  <2>1. i - 1 \in Slots(r)' /\ (i - 1) + 1 = i
    BY <1>3, <1>7, <1>8 DEF Slots
  <2>2. QED
    BY <1>7, <2>1
<1>9. QED
  BY <1>3, <1>4, <1>5, <1>7, <1>8 DEF TakeMessage

\* UnboundedSender::send adds one slot, at the end, and leaves the others alone.
LEMMA AcceptEffect ==
  ASSUME TypeOK, NEW r \in Roles, NEW m \in Msgs,
         queue' = [queue EXCEPT ![r] = Append(@, m)]
  PROVE  /\ queue' \in [Roles -> Seq(Msgs)]
         /\ \E last \in Slots(r)' :
              /\ queue'[r][last] = m /\ last \notin Slots(r)
              /\ \A i \in Slots(r)' : i # last => i \in Slots(r)
         /\ \A i \in Slots(r) : i \in Slots(r)' /\ queue'[r][i] = queue[r][i]
         /\ \A s \in Roles \ {r} : queue'[s] = queue[s]
<1>1. queue[r] \in Seq(Msgs) /\ Len(queue[r]) \in Nat
  BY LenProperties DEF TypeOK
<1>2. /\ Append(queue[r], m) \in Seq(Msgs)
      /\ Len(Append(queue[r], m)) = Len(queue[r]) + 1
      /\ \A i \in 1..Len(queue[r]) : Append(queue[r], m)[i] = queue[r][i]
      /\ Append(queue[r], m)[Len(queue[r]) + 1] = m
  BY <1>1, AppendProperties
<1>3. /\ queue' \in [Roles -> Seq(Msgs)] /\ queue'[r] = Append(queue[r], m)
      /\ \A s \in Roles \ {r} : queue'[s] = queue[s]
  BY <1>2 DEF TypeOK
<1>4. Slots(r)' = 1..(Len(queue[r]) + 1)
  BY <1>2, <1>3 DEF Slots
<1>5. /\ Len(queue[r]) + 1 \in Slots(r)' /\ Len(queue[r]) + 1 \notin Slots(r)
      /\ \A i \in Slots(r)' : i # Len(queue[r]) + 1 => i \in Slots(r)
      /\ \A i \in Slots(r) : i \in Slots(r)'
  BY <1>1, <1>4 DEF Slots
<1>6. QED
  BY <1>2, <1>3, <1>5 DEF Slots

\* Dropping a receiver empties its channel, and what was in it is lost.
LEMMA DropEffect ==
  ASSUME TypeOK, NEW r \in Roles, DropReceiver(r)
  PROVE  /\ queue'[r] = <<>> /\ Slots(r)' = {}
         /\ \A s \in Roles \ {r} : queue'[s] = queue[s]
         /\ fate' \in [Msgs -> {"unsent", "queued", "handling", "done", "failed",
                                "lost", "rejected"}]
         /\ \A i \in Slots(r) :
              queue[r][i] \in Msgs /\ fate'[queue[r][i]] = "lost"
         /\ \A m \in Msgs : fate'[m] = IF \E i \in Slots(r) : queue[r][i] = m
                                     THEN "lost" ELSE fate[m]
<1>1. queue[r] \in Seq(Msgs)
  BY DEF TypeOK
<1>2. Range(queue[r]) = {queue[r][i] : i \in Slots(r)}
  BY <1>1, RangeEquality DEF Slots
<1>3. \A i \in Slots(r) : queue[r][i] \in Msgs
  BY <1>1, ElementOfSeq DEF Slots
<1>4. queue'[r] = <<>> /\ \A s \in Roles \ {r} : queue'[s] = queue[s]
  BY DEF TypeOK, DropReceiver
<1>5. Slots(r)' = {}
  BY <1>4 DEF Slots
<1>6. QED
  BY <1>2, <1>3, <1>4, <1>5 DEF TypeOK, DropReceiver

-----------------------------------------------------------------------------
(* Each conjunct of the invariant is preserved by every step.              *)

\* Every step of the task, its handlers and the holders keeps the types.
LEMMA TypeStep ==
  ASSUME TypeOK, [Next]_vars
  PROVE  TypeOK'
<1> USE Branching
<1>1. CASE CheckQueue
  BY <1>1 DEF TypeOK, CheckQueue, Enable, loopVars, endVars
<1>2. CASE CheckRunning
  BY <1>2 DEF TypeOK, CheckRunning, Enable, Skip, IsRunning, loopVars, endVars
<1>3. CASE EnterSelect
  BY <1>3 DEF TypeOK, EnterSelect, LeaveLoop
<1>4. CASE WatchdogFires
  BY <1>4 DEF TypeOK, WatchdogFires, LeaveLoop, NextRound, IsRunning, loopVars,
     endVars
<1>5. ASSUME NEW r \in Roles, TakeMessage(r)
      PROVE  TypeOK'
  <2>1. /\ queue' \in [Roles -> Seq(Msgs)]
        /\ fate' = [fate EXCEPT ![queue[r][1]] = "handling"]
        /\ queue[r][1] \in Msgs
    BY <1>5, TakeEffect
  <2>2. QED
    BY <1>5, <2>1 DEF TypeOK, TakeMessage, endVars
<1>6. ASSUME NEW r \in Roles, DropReceiver(r)
      PROVE  TypeOK'
  <2>1. queue' \in [Roles -> Seq(Msgs)]
    BY <1>6 DEF TypeOK, DropReceiver
  <2>2. QED
    BY <1>6, <2>1, DropEffect DEF TypeOK, DropReceiver, loopVars, endVars
<1>7. CASE RunHook
  BY <1>7 DEF TypeOK, RunHook
<1>8. CASE TaskCompletes
  BY <1>8 DEF TypeOK, TaskCompletes, endVars
<1>9. CASE TimerElapses
  BY <1>9 DEF TypeOK, TimerElapses, endVars
<1>10. CASE ContextStop
  BY <1>10 DEF TypeOK, Queued, ContextStop, loopVars, endVars
<1>11. ASSUME NEW m \in Msgs, HandlerReturns(m)
      PROVE  TypeOK'
  BY <1>11 DEF TypeOK, HandlerReturns, NextRound, endVars
<1>12. ASSUME NEW m \in Msgs, HandlerPanics(m)
      PROVE  TypeOK'
  BY <1>12 DEF TypeOK, HandlerPanics, LeaveLoop
<1>13. ASSUME NEW h \in Holders, GetShell(h)
      PROVE  TypeOK'
  BY <1>13 DEF TypeOK, GetShell, loopVars, endVars
<1>14. ASSUME NEW h \in Holders, ReleaseHandle(h)
      PROVE  TypeOK'
  BY <1>14 DEF TypeOK, ReleaseHandle, loopVars, endVars
<1>15. ASSUME NEW h \in Holders, NEW g \in Holders, CloneHandle(h, g)
      PROVE  TypeOK'
  BY <1>15 DEF TypeOK, CloneHandle, loopVars, endVars
<1>16. ASSUME NEW h \in Holders, NEW r \in Roles, NEW m \in Msgs, Send(h, r, m)
      PROVE  TypeOK'
  <2>1. queue' \in [Roles -> Seq(Msgs)]
    BY <1>16, AcceptEffect DEF TypeOK, Send
  <2>2. fate' \in [Msgs -> {"unsent", "queued", "handling", "done", "failed",
                            "lost", "rejected"}]
    BY <1>16 DEF TypeOK, Send
  <2>3. QED
    BY <1>16, <2>1, <2>2 DEF TypeOK, Send, loopVars, endVars
<1>17. CASE PollExitHandle
  BY <1>17 DEF TypeOK, PollExitHandle, loopVars
<1>18. CASE DropExitHandle
  BY <1>18 DEF TypeOK, DropExitHandle, loopVars
<1>19. CASE UNCHANGED vars
  BY <1>19 DEF TypeOK, vars, loopVars, endVars
<1>20. QED
  BY <1>1, <1>2, <1>3, <1>4, <1>5, <1>6, <1>7, <1>8, <1>9, <1>10, <1>11, <1>12,
     <1>13, <1>14, <1>15, <1>16, <1>17, <1>18, <1>19
     DEF Next, LoopStep, HandlerEnds

\* Where the task is keeps telling which bookkeeping is in use: only the
\* preconditions and the polling of a round use `enabled`, receivers go only after
\* the hook.
LEMMA ControlStep ==
  ASSUME TypeOK, ControlInv, [Next]_vars
  PROVE  ControlInv'
<1> USE Branching
<1>1. CASE CheckQueue
  BY <1>1 DEF ControlInv, CheckQueue, Enable, endVars
<1>2. CASE CheckRunning
  BY <1>2 DEF ControlInv, CheckRunning, Enable, Skip, endVars
<1>3. CASE EnterSelect
  BY <1>3 DEF ControlInv, Looping, EnterSelect, LeaveLoop
<1>4. CASE WatchdogFires
  BY <1>4 DEF TypeOK, ControlInv, Looping, WatchdogFires, LeaveLoop, NextRound,
     IsRunning, loopVars, endVars
<1>5. ASSUME NEW r \in Roles, TakeMessage(r)
      PROVE  ControlInv'
  BY <1>5 DEF ControlInv, Looping, TakeMessage, endVars
<1>6. ASSUME NEW r \in Roles, DropReceiver(r)
      PROVE  ControlInv'
  BY <1>6 DEF ControlInv, DropReceiver, loopVars, endVars
<1>7. CASE RunHook
  BY <1>7 DEF ControlInv, Looping, RunHook
<1>8. CASE TaskCompletes
  BY <1>8 DEF ControlInv, Looping, TaskCompletes, endVars
<1>9. CASE TimerElapses
  BY <1>9 DEF ControlInv, TimerElapses, endVars
<1>10. CASE ContextStop
  BY <1>10 DEF ControlInv, ContextStop, loopVars, endVars
<1>11. ASSUME NEW m \in Msgs, HandlerReturns(m)
      PROVE  ControlInv'
  BY <1>11 DEF ControlInv, Looping, HandlerReturns, NextRound, endVars
<1>12. ASSUME NEW m \in Msgs, HandlerPanics(m)
      PROVE  ControlInv'
  BY <1>12 DEF ControlInv, Looping, HandlerPanics, LeaveLoop
<1>13. ASSUME NEW h \in Holders, GetShell(h)
      PROVE  ControlInv'
  BY <1>13 DEF ControlInv, GetShell, loopVars, endVars
<1>14. ASSUME NEW h \in Holders, ReleaseHandle(h)
      PROVE  ControlInv'
  BY <1>14 DEF ControlInv, ReleaseHandle, loopVars, endVars
<1>15. ASSUME NEW h \in Holders, NEW g \in Holders, CloneHandle(h, g)
      PROVE  ControlInv'
  BY <1>15 DEF ControlInv, CloneHandle, loopVars, endVars
<1>16. ASSUME NEW h \in Holders, NEW r \in Roles, NEW m \in Msgs, Send(h, r, m)
      PROVE  ControlInv'
  BY <1>16 DEF ControlInv, Send, loopVars, endVars
<1>17. CASE PollExitHandle
  BY <1>17 DEF ControlInv, PollExitHandle, loopVars
<1>18. CASE DropExitHandle
  BY <1>18 DEF ControlInv, DropExitHandle, loopVars
<1>19. CASE UNCHANGED vars
  BY <1>19 DEF ControlInv, vars, loopVars, endVars
<1>20. QED
  BY <1>1, <1>2, <1>3, <1>4, <1>5, <1>6, <1>7, <1>8, <1>9, <1>10, <1>11, <1>12,
     <1>13, <1>14, <1>15, <1>16, <1>17, <1>18, <1>19
     DEF Next, LoopStep, HandlerEnds

\* A branch that a round left out stays out rightly: once Context::is_running is
\* false it stays false until a handler runs.
LEMMA GuardStep ==
  ASSUME TypeOK, ControlInv, GuardInv, [Next]_vars
  PROVE  GuardInv'
<1> USE Branching
<1>1. CASE CheckQueue
  BY <1>1 DEF GuardInv, IsRunning, CheckQueue, Enable, endVars
<1>2. CASE CheckRunning
  BY <1>2 DEF GuardInv, IsRunning, CheckRunning, Enable, Skip, endVars
<1>3. CASE EnterSelect
  BY <1>3 DEF GuardInv, IsRunning, EnterSelect, LeaveLoop
<1>4. CASE WatchdogFires
  <2>1. CASE ~IsRunning /\ LeaveLoop("broke")
    BY <1>4, <2>1 DEF GuardInv, WatchdogFires, IsRunning
  <2>2. CASE NextRound
    <3>1. \A b \in Branches : ~(b < guard')
      BY <2>2 DEF NextRound
    <3>2. QED
      BY <1>4, <2>2, <3>1 DEF GuardInv, WatchdogFires, NextRound, LeaveLoop
  <2>3. QED
    BY <1>4, <2>1, <2>2 DEF WatchdogFires
<1>5. ASSUME NEW r \in Roles, TakeMessage(r)
      PROVE  GuardInv'
  BY <1>5 DEF GuardInv, IsRunning, TakeMessage, endVars
<1>6. ASSUME NEW r \in Roles, DropReceiver(r)
      PROVE  GuardInv'
  BY <1>6 DEF GuardInv, IsRunning, DropReceiver, loopVars, endVars
<1>7. CASE RunHook
  BY <1>7 DEF GuardInv, IsRunning, RunHook
<1>8. CASE TaskCompletes
  BY <1>8 DEF GuardInv, IsRunning, TaskCompletes, endVars
<1>9. CASE TimerElapses
  BY <1>9 DEF GuardInv, IsRunning, TimerElapses, endVars
<1>10. CASE ContextStop
  BY <1>10 DEF ControlInv, GuardInv, IsRunning, ContextStop, loopVars
<1>11. ASSUME NEW m \in Msgs, HandlerReturns(m)
      PROVE  GuardInv'
  BY <1>11 DEF GuardInv, IsRunning, HandlerReturns, NextRound, endVars
<1>12. ASSUME NEW m \in Msgs, HandlerPanics(m)
      PROVE  GuardInv'
  BY <1>12 DEF GuardInv, HandlerPanics, LeaveLoop
<1>13. ASSUME NEW h \in Holders, GetShell(h)
      PROVE  GuardInv'
  BY <1>13 DEF ControlInv, Looping, GuardInv, GetShell, loopVars, endVars
<1>14. ASSUME NEW h \in Holders, ReleaseHandle(h)
      PROVE  GuardInv'
  BY <1>14 DEF GuardInv, IsRunning, ReleaseHandle, loopVars, endVars
<1>15. ASSUME NEW h \in Holders, NEW g \in Holders, CloneHandle(h, g)
      PROVE  GuardInv'
  BY <1>15 DEF GuardInv, IsRunning, CloneHandle, loopVars, endVars
<1>16. ASSUME NEW h \in Holders, NEW r \in Roles, NEW m \in Msgs, Send(h, r, m)
      PROVE  GuardInv'
  BY <1>16 DEF GuardInv, IsRunning, Send, loopVars, endVars
<1>17. CASE PollExitHandle
  BY <1>17 DEF GuardInv, IsRunning, PollExitHandle, loopVars
<1>18. CASE DropExitHandle
  BY <1>18 DEF GuardInv, IsRunning, DropExitHandle, loopVars
<1>19. CASE UNCHANGED vars
  BY <1>19 DEF GuardInv, IsRunning, vars, loopVars, endVars
<1>20. QED
  BY <1>1, <1>2, <1>3, <1>4, <1>5, <1>6, <1>7, <1>8, <1>9, <1>10, <1>11, <1>12,
     <1>13, <1>14, <1>15, <1>16, <1>17, <1>18, <1>19
     DEF Next, LoopStep, HandlerEnds

\* What became of a message keeps matching where the task is: one handler at a
\* time, a panic ends the loop, losses and refusals come at the end.
LEMMA FateStep ==
  ASSUME TypeOK, ControlInv, MailboxInv, FateInv, [Next]_vars
  PROVE  FateInv'
<1> USE Branching
<1>1. CASE CheckQueue
  BY <1>1 DEF FateInv, CheckQueue, endVars
<1>2. CASE CheckRunning
  BY <1>2 DEF FateInv, CheckRunning, endVars
<1>3. CASE EnterSelect
  BY <1>3 DEF ControlInv, Looping, FateInv, EnterSelect, LeaveLoop
<1>4. CASE WatchdogFires
  BY <1>4 DEF TypeOK, ControlInv, Looping, MailboxInv, FateInv, Slots,
     WatchdogFires, LeaveLoop, NextRound, IsRunning, loopVars, endVars
<1>5. ASSUME NEW r \in Roles, TakeMessage(r)
      PROVE  FateInv'
  BY <1>5 DEF TypeOK, MailboxInv, FateInv, Slots, TakeMessage, endVars
<1>6. ASSUME NEW r \in Roles, DropReceiver(r)
      PROVE  FateInv'
  <2>1. ASSUME NEW m \in Msgs
        PROVE  fate'[m] # fate[m] => fate[m] = "queued" /\ fate'[m] = "lost"
    <3>1. fate'[m] = IF \E i \in Slots(r) : queue[r][i] = m
                     THEN "lost" ELSE fate[m]
      BY <1>6, DropEffect
    <3>2. (\E i \in Slots(r) : queue[r][i] = m) => fate[m] = "queued"
      BY DEF MailboxInv
    <3>3. QED
      BY <3>1, <3>2
  <2>2. pc = "closing" /\ pc' = pc /\ ended' = ended
    BY <1>6 DEF DropReceiver, loopVars, endVars
  <2>3. QED
    BY <2>1, <2>2 DEF FateInv
<1>7. CASE RunHook
  BY <1>7 DEF FateInv, RunHook
<1>8. CASE TaskCompletes
  BY <1>8 DEF FateInv, TaskCompletes, endVars
<1>9. CASE TimerElapses
  BY <1>9 DEF FateInv, TimerElapses, endVars
<1>10. CASE ContextStop
  BY <1>10 DEF FateInv, ContextStop, loopVars, endVars
<1>11. ASSUME NEW m \in Msgs, HandlerReturns(m)
      PROVE  FateInv'
  BY <1>11 DEF TypeOK, FateInv, HandlerReturns, NextRound, endVars
<1>12. ASSUME NEW m \in Msgs, HandlerPanics(m)
      PROVE  FateInv'
  BY <1>12 DEF TypeOK, FateInv, HandlerPanics, LeaveLoop
<1>13. ASSUME NEW h \in Holders, GetShell(h)
      PROVE  FateInv'
  BY <1>13 DEF FateInv, GetShell, loopVars, endVars
<1>14. ASSUME NEW h \in Holders, ReleaseHandle(h)
      PROVE  FateInv'
  BY <1>14 DEF FateInv, ReleaseHandle, loopVars, endVars
<1>15. ASSUME NEW h \in Holders, NEW g \in Holders, CloneHandle(h, g)
      PROVE  FateInv'
  BY <1>15 DEF FateInv, CloneHandle, loopVars, endVars
<1>16. ASSUME NEW h \in Holders, NEW r \in Roles, NEW m \in Msgs, Send(h, r, m)
      PROVE  FateInv'
  <2>1. \/ fate' = [fate EXCEPT ![m] = "queued"]
        \/ fate' = [fate EXCEPT ![m] = "rejected"]
    BY <1>16 DEF Send
  <2>2. fate'[m] = "rejected" => pc \in {"closing", "joined"}
    BY <1>16 DEF TypeOK, Send, ControlInv
  <2>3. fate[m] = "unsent" /\ pc' = pc /\ ended' = ended
    BY <1>16 DEF Send, loopVars, endVars
  <2>4. \A n \in Msgs \ {m} : fate'[n] = fate[n]
    BY <2>1 DEF TypeOK
  <2>5. fate'[m] \in {"queued", "rejected"}
    BY <2>1 DEF TypeOK
  <2>6. QED
    BY <2>2, <2>3, <2>4, <2>5 DEF FateInv
<1>17. CASE PollExitHandle
  BY <1>17 DEF FateInv, PollExitHandle, loopVars
<1>18. CASE DropExitHandle
  BY <1>18 DEF FateInv, DropExitHandle, loopVars
<1>19. CASE UNCHANGED vars
  BY <1>19 DEF FateInv, vars, loopVars, endVars
<1>20. QED
  BY <1>1, <1>2, <1>3, <1>4, <1>5, <1>6, <1>7, <1>8, <1>9, <1>10, <1>11, <1>12,
     <1>13, <1>14, <1>15, <1>16, <1>17, <1>18, <1>19
     DEF Next, LoopStep, HandlerEnds

\* The channels keep holding exactly the queued messages, each in one slot.
LEMMA MailboxStep ==
  ASSUME TypeOK, ControlInv, MailboxInv, FateInv, [Next]_vars
  PROVE  MailboxInv'
<1> USE Branching
<1>1. CASE CheckQueue
  BY <1>1 DEF MailboxInv, Slots, CheckQueue
<1>2. CASE CheckRunning
  BY <1>2 DEF MailboxInv, Slots, CheckRunning
<1>3. CASE EnterSelect
  BY <1>3 DEF TypeOK, MailboxInv, Slots, EnterSelect
<1>4. CASE WatchdogFires
  BY <1>4 DEF MailboxInv, Slots, WatchdogFires
<1>5. ASSUME NEW r \in Roles, TakeMessage(r)
      PROVE  MailboxInv'
  <2> DEFINE head == queue[r][1]
  <2>1. /\ 1 \in Slots(r) /\ head \in Msgs
        /\ fate' = [fate EXCEPT ![head] = "handling"]
        /\ \A i \in Slots(r)' :
             i + 1 \in Slots(r) /\ queue'[r][i] = queue[r][i + 1]
        /\ \A i \in Slots(r) :
             i # 1 => i - 1 \in Slots(r)' /\ queue'[r][i - 1] = queue[r][i]
        /\ \A s \in Roles \ {r} : queue'[s] = queue[s] /\ Slots(s)' = Slots(s)
    BY <1>5, TakeEffect DEF Slots
  <2>2. \A s \in Roles : \A i \in Slots(s)' :
          \E k \in Slots(s) :
            queue'[s][i] = queue[s][k] /\ k = (IF s = r THEN i + 1 ELSE i)
    BY <2>1
  <2>3. \A s \in Roles : Slots(s)' \subseteq Int /\ \A i \in Slots(s)' : i + 1 # 1
    BY DEF Slots
  <2>4. \A s \in Roles : \A i \in Slots(s)' :
          queue'[s][i] # head /\ queue'[s][i] \in Msgs
    <3>1. \A s \in Roles : \A i \in Slots(s) : queue[s][i] \in Msgs
      BY ElementOfSeq DEF TypeOK, Slots
    <3>2. QED
      BY <2>1, <2>2, <2>3, <3>1 DEF MailboxInv
  <2>5. \A s \in Roles : \A i \in Slots(s)' : fate'[queue'[s][i]] = "queued"
    <3>1. \A m \in Msgs \ {head} : fate'[m] = fate[m]
      BY <2>1
    <3>2. \A s \in Roles : \A i \in Slots(s)' : fate[queue'[s][i]] = "queued"
      BY <2>2 DEF MailboxInv
    <3>3. QED
      BY <2>4, <3>1, <3>2
  <2>6. \A s, t \in Roles : \A i \in Slots(s)', j \in Slots(t)' :
          queue'[s][i] = queue'[t][j] => s = t /\ i = j
    BY <2>2, <2>3 DEF MailboxInv
  <2>7. ASSUME NEW m \in Msgs, fate'[m] = "queued"
        PROVE  \E s \in Roles : \E i \in Slots(s)' : queue'[s][i] = m
    <3>1. m # head /\ fate[m] = "queued"
      BY <2>1, <2>7 DEF TypeOK
    <3>2. PICK s \in Roles : \E i \in Slots(s) : queue[s][i] = m
      BY <3>1 DEF MailboxInv
    <3>3. CASE s = r
      BY <2>1, <3>1, <3>2, <3>3
    <3>4. CASE s # r
      BY <2>1, <3>2, <3>4
    <3>5. QED
      BY <3>3, <3>4
  <2>8. \A s \in Roles \ open' : queue'[s] = <<>>
    BY <1>5, <2>1 DEF ControlInv, TakeMessage
  <2>9. QED
    BY <2>5, <2>6, <2>7, <2>8 DEF MailboxInv
<1>6. ASSUME NEW r \in Roles, DropReceiver(r)
      PROVE  MailboxInv'
  <2>1. /\ queue'[r] = <<>> /\ Slots(r)' = {}
        /\ \A s \in Roles \ {r} : queue'[s] = queue[s] /\ Slots(s)' = Slots(s)
        /\ \A i \in Slots(r) : fate'[queue[r][i]] = "lost"
        /\ \A m \in Msgs : \/ \E i \in Slots(r) : queue[r][i] = m
                           \/ fate'[m] = fate[m]
    BY <1>6, DropEffect DEF Slots
  <2>2. \A s \in Roles : \A i \in Slots(s) : queue[s][i] \in Msgs
    BY ElementOfSeq DEF TypeOK, Slots
  <2>3. \A s \in Roles : \A i \in Slots(s)' : fate'[queue'[s][i]] = "queued"
    BY <2>1, <2>2 DEF MailboxInv
  <2>4. \A s, t \in Roles : \A i \in Slots(s)', j \in Slots(t)' :
          queue'[s][i] = queue'[t][j] => s = t /\ i = j
    BY <2>1 DEF MailboxInv
  <2>5. \A m \in Msgs : fate'[m] = "queued" =>
          \E s \in Roles : \E i \in Slots(s)' : queue'[s][i] = m
    BY <2>1 DEF MailboxInv
  <2>6. \A s \in Roles \ open' : queue'[s] = <<>>
    BY <1>6, <2>1 DEF MailboxInv, DropReceiver
  <2>7. QED
    BY <2>3, <2>4, <2>5, <2>6 DEF MailboxInv
<1>7. CASE RunHook
  BY <1>7 DEF TypeOK, MailboxInv, Slots, RunHook
<1>8. CASE TaskCompletes
  BY <1>8 DEF MailboxInv, Slots, TaskCompletes
<1>9. CASE TimerElapses
  BY <1>9 DEF MailboxInv, Slots, TimerElapses
<1>10. CASE ContextStop
  BY <1>10 DEF MailboxInv, Slots, ContextStop
<1>11. ASSUME NEW m \in Msgs, HandlerReturns(m)
      PROVE  MailboxInv'
  BY <1>11 DEF MailboxInv, Slots, HandlerReturns
<1>12. ASSUME NEW m \in Msgs, HandlerPanics(m)
      PROVE  MailboxInv'
  BY <1>12 DEF MailboxInv, Slots, HandlerPanics
<1>13. ASSUME NEW h \in Holders, GetShell(h)
      PROVE  MailboxInv'
  BY <1>13 DEF MailboxInv, Slots, GetShell, endVars
<1>14. ASSUME NEW h \in Holders, ReleaseHandle(h)
      PROVE  MailboxInv'
  BY <1>14 DEF MailboxInv, Slots, ReleaseHandle
<1>15. ASSUME NEW h \in Holders, NEW g \in Holders, CloneHandle(h, g)
      PROVE  MailboxInv'
  BY <1>15 DEF MailboxInv, Slots, CloneHandle
<1>16. ASSUME NEW h \in Holders, NEW r \in Roles, NEW m \in Msgs, Send(h, r, m)
      PROVE  MailboxInv'
  <2>1. CASE fate' = [fate EXCEPT ![m] = "rejected"] /\ UNCHANGED queue
    BY <1>16, <2>1 DEF MailboxInv, Slots, Send
  <2>2. CASE r \in open /\ queue' = [queue EXCEPT ![r] = Append(@, m)]
             /\ fate' = [fate EXCEPT ![m] = "queued"]
    <3>1. PICK last \in Slots(r)' :
            /\ queue'[r][last] = m /\ last \notin Slots(r)
            /\ \A i \in Slots(r)' : i # last => i \in Slots(r)
      BY <2>2, AcceptEffect
    <3>2. /\ \A i \in Slots(r) : i \in Slots(r)' /\ queue'[r][i] = queue[r][i]
          /\ \A s \in Roles \ {r} : queue'[s] = queue[s] /\ Slots(s)' = Slots(s)
      BY <2>2, AcceptEffect DEF Slots
    <3>3. \A s \in Roles : \A i \in Slots(s) : queue[s][i] # m
      BY <1>16 DEF MailboxInv, Send
    <3>4. \A s \in Roles : \A i \in Slots(s)' :
            \/ s = r /\ i = last
            \/ i \in Slots(s) /\ queue'[s][i] = queue[s][i]
      BY <3>1, <3>2
    <3>5. fate'[m] = "queued" /\ \A n \in Msgs \ {m} : fate'[n] = fate[n]
      BY <2>2 DEF TypeOK
    <3>6. \A s \in Roles : \A i \in Slots(s) : queue[s][i] \in Msgs
      BY ElementOfSeq DEF TypeOK, Slots
    <3>7. \A s \in Roles : \A i \in Slots(s)' : fate'[queue'[s][i]] = "queued"
      BY <3>1, <3>3, <3>4, <3>5, <3>6 DEF MailboxInv
    <3>8. \A s, t \in Roles : \A i \in Slots(s)', j \in Slots(t)' :
            queue'[s][i] = queue'[t][j] => s = t /\ i = j
      BY <3>1, <3>3, <3>4 DEF MailboxInv
    <3>9. \A n \in Msgs : fate'[n] = "queued" =>
            \E s \in Roles : \E i \in Slots(s)' : queue'[s][i] = n
      BY <3>1, <3>2, <3>5 DEF MailboxInv
    <3>10. \A s \in Roles \ open' : queue'[s] = <<>>
      BY <1>16, <2>2, <3>2 DEF MailboxInv, Send
    <3>11. QED
      BY <3>7, <3>8, <3>9, <3>10 DEF MailboxInv
  <2>3. QED
    BY <1>16, <2>1, <2>2 DEF Send
<1>17. CASE PollExitHandle
  BY <1>17 DEF MailboxInv, Slots, PollExitHandle
<1>18. CASE DropExitHandle
  BY <1>18 DEF MailboxInv, Slots, DropExitHandle
<1>19. CASE UNCHANGED vars
  BY <1>19 DEF MailboxInv, Slots, vars
<1>20. QED
  BY <1>1, <1>2, <1>3, <1>4, <1>5, <1>6, <1>7, <1>8, <1>9, <1>10, <1>11, <1>12,
     <1>13, <1>14, <1>15, <1>16, <1>17, <1>18, <1>19
     DEF Next, LoopStep, HandlerEnds

\* What was queued at Context::stop stays in enabled branches, or in branches
\* still to be checked, until it is handled.
LEMMA BacklogStep ==
  ASSUME TypeOK, ControlInv, GuardInv, MailboxInv, FateInv, BacklogInv,
         [Next]_vars
  PROVE  BacklogInv'
<1> USE Branching
<1>1. CASE CheckQueue
  BY <1>1 DEF BacklogInv, NoBacklogIn, Slots, CheckQueue, Enable, endVars
<1>2. CASE CheckRunning
  BY <1>2
     DEF BacklogInv, NoBacklogIn, Slots, CheckRunning, Enable, Skip, endVars
<1>3. CASE EnterSelect
  BY <1>3 DEF TypeOK, ControlInv, Looping, GuardInv, MailboxInv, FateInv,
     BacklogInv, NoBacklogIn, Slots, IsRunning, EnterSelect, LeaveLoop
<1>4. CASE WatchdogFires
  BY <1>4 DEF GuardInv, BacklogInv, NoBacklogIn, WatchdogFires
<1>5. ASSUME NEW r \in Roles, TakeMessage(r)
      PROVE  BacklogInv'
  BY <1>5 DEF MailboxInv, BacklogInv, Slots, TakeMessage, endVars
<1>6. ASSUME NEW r \in Roles, DropReceiver(r)
      PROVE  BacklogInv'
  <2>1. \A m \in Msgs : fate'[m] = fate[m] \/ fate[m] = "queued"
    BY <1>6, DropEffect DEF MailboxInv
  <2>2. pc = "closing" /\ UNCHANGED <<atStop, running, ended, pc>>
    BY <1>6 DEF DropReceiver, loopVars, endVars
  <2>3. ended # "no"
    BY <2>2 DEF ControlInv, Looping
  <2>4. QED
    BY <2>1, <2>2, <2>3 DEF BacklogInv, TypeOK
<1>7. CASE RunHook
  BY <1>7 DEF BacklogInv, RunHook
<1>8. CASE TaskCompletes
  BY <1>8 DEF BacklogInv, TaskCompletes, endVars
<1>9. CASE TimerElapses
  BY <1>9 DEF BacklogInv, NoBacklogIn, Slots, TimerElapses, endVars
<1>10. CASE ContextStop
  BY <1>10 DEF ControlInv, Looping, BacklogInv, Queued, ContextStop, loopVars,
     endVars
<1>11. ASSUME NEW m \in Msgs, HandlerReturns(m)
      PROVE  BacklogInv'
  BY <1>11 DEF ControlInv, BacklogInv, HandlerReturns, NextRound, endVars
<1>12. ASSUME NEW m \in Msgs, HandlerPanics(m)
      PROVE  BacklogInv'
  BY <1>12 DEF BacklogInv, HandlerPanics, LeaveLoop
<1>13. ASSUME NEW h \in Holders, GetShell(h)
      PROVE  BacklogInv'
  BY <1>13 DEF BacklogInv, GetShell, loopVars, endVars
<1>14. ASSUME NEW h \in Holders, ReleaseHandle(h)
      PROVE  BacklogInv'
  BY <1>14 DEF BacklogInv, NoBacklogIn, Slots, ReleaseHandle, loopVars, endVars
<1>15. ASSUME NEW h \in Holders, NEW g \in Holders, CloneHandle(h, g)
      PROVE  BacklogInv'
  BY <1>15 DEF BacklogInv, NoBacklogIn, Slots, CloneHandle, loopVars, endVars
<1>16. ASSUME NEW h \in Holders, NEW r \in Roles, NEW m \in Msgs, Send(h, r, m)
      PROVE  BacklogInv'
  <2>1. UNCHANGED <<atStop, running, ended, pc, enabled, guard, sawEmpty>>
    BY <1>16 DEF Send, loopVars, endVars
  <2>2. fate[m] = "unsent" /\ \A n \in Msgs \ {m} : fate'[n] = fate[n]
    BY <1>16 DEF Send, TypeOK
  <2>3. \A n \in atStop : ended # "panicked" => n # m
    BY <2>2 DEF BacklogInv, TypeOK
  <2>4. ASSUME NEW s \in Roles, NoBacklogIn(s), m \notin atStop
        PROVE  NoBacklogIn(s)'
    <3>1. CASE UNCHANGED queue
      BY <2>1, <2>4, <3>1 DEF NoBacklogIn, Slots
    <3>2. CASE queue' = [queue EXCEPT ![r] = Append(@, m)]
      BY <2>1, <2>4, <3>2, AcceptEffect DEF NoBacklogIn, Slots
    <3>3. QED
      BY <1>16, <3>1, <3>2 DEF Send
  <2>5. pc \in Looping => ended = "no"
    BY DEF ControlInv
  <2>6. QED
    BY <2>1, <2>2, <2>3, <2>4, <2>5 DEF BacklogInv, Looping, TypeOK
<1>17. CASE PollExitHandle
  BY <1>17 DEF BacklogInv, PollExitHandle, loopVars
<1>18. CASE DropExitHandle
  BY <1>18 DEF BacklogInv, NoBacklogIn, Slots, DropExitHandle, loopVars
<1>19. CASE UNCHANGED vars
  BY <1>19 DEF BacklogInv, NoBacklogIn, Slots, vars, loopVars, endVars
<1>20. QED
  BY <1>1, <1>2, <1>3, <1>4, <1>5, <1>6, <1>7, <1>8, <1>9, <1>10, <1>11, <1>12,
     <1>13, <1>14, <1>15, <1>16, <1>17, <1>18, <1>19
     DEF Next, LoopStep, HandlerEnds

\* The result of the task, and what ExitHandle::poll made of it, keep matching how
\* the loop was left.
LEMMA ExitStep ==
  ASSUME TypeOK, ControlInv, ExitInv, [Next]_vars
  PROVE  ExitInv'
<1> USE Branching
<1>1. CASE CheckQueue
  BY <1>1 DEF ExitInv, CheckQueue, endVars
<1>2. CASE CheckRunning
  BY <1>2 DEF ExitInv, CheckRunning, endVars
<1>3. CASE EnterSelect
  BY <1>3 DEF ExitInv, EnterSelect, LeaveLoop
<1>4. CASE WatchdogFires
  BY <1>4 DEF TypeOK, ControlInv, Looping, ExitInv, WatchdogFires, LeaveLoop,
     NextRound, IsRunning, loopVars, endVars
<1>5. ASSUME NEW r \in Roles, TakeMessage(r)
      PROVE  ExitInv'
  BY <1>5 DEF ExitInv, TakeMessage, endVars
<1>6. ASSUME NEW r \in Roles, DropReceiver(r)
      PROVE  ExitInv'
  BY <1>6 DEF ExitInv, DropReceiver, endVars
<1>7. CASE RunHook
  BY <1>7 DEF ExitInv, RunHook
<1>8. CASE TaskCompletes
  BY <1>8 DEF ExitInv, TaskCompletes, endVars
<1>9. CASE TimerElapses
  BY <1>9 DEF ExitInv, TimerElapses, endVars
<1>10. CASE ContextStop
  BY <1>10 DEF ExitInv, ContextStop, loopVars, endVars
<1>11. ASSUME NEW m \in Msgs, HandlerReturns(m)
      PROVE  ExitInv'
  BY <1>11 DEF ExitInv, HandlerReturns, NextRound, endVars
<1>12. ASSUME NEW m \in Msgs, HandlerPanics(m)
      PROVE  ExitInv'
  BY <1>12 DEF ExitInv, HandlerPanics, LeaveLoop
<1>13. ASSUME NEW h \in Holders, GetShell(h)
      PROVE  ExitInv'
  BY <1>13 DEF ExitInv, GetShell, loopVars, endVars
<1>14. ASSUME NEW h \in Holders, ReleaseHandle(h)
      PROVE  ExitInv'
  BY <1>14 DEF ExitInv, ReleaseHandle, loopVars, endVars
<1>15. ASSUME NEW h \in Holders, NEW g \in Holders, CloneHandle(h, g)
      PROVE  ExitInv'
  BY <1>15 DEF ExitInv, CloneHandle, loopVars, endVars
<1>16. ASSUME NEW h \in Holders, NEW r \in Roles, NEW m \in Msgs, Send(h, r, m)
      PROVE  ExitInv'
  BY <1>16 DEF ExitInv, Send, loopVars, endVars
<1>17. CASE PollExitHandle
  BY <1>17 DEF ExitInv, PollExitHandle, loopVars
<1>18. CASE DropExitHandle
  BY <1>18 DEF ExitInv, DropExitHandle, loopVars
<1>19. CASE UNCHANGED vars
  BY <1>19 DEF ExitInv, vars, loopVars, endVars
<1>20. QED
  BY <1>1, <1>2, <1>3, <1>4, <1>5, <1>6, <1>7, <1>8, <1>9, <1>10, <1>11, <1>12,
     <1>13, <1>14, <1>15, <1>16, <1>17, <1>18, <1>19
     DEF Next, LoopStep, HandlerEnds

\* In a stopped actor's round a branch is enabled only for a message, and nobody
\* but the loop itself takes that message away.
LEMMA WakeStep ==
  ASSUME TypeOK, ControlInv, GuardInv, WakeInv, [Next]_vars
  PROVE  WakeInv'
<1> USE Branching
<1>1. CASE CheckQueue
  BY <1>1 DEF WakeInv, CheckQueue, Enable, endVars
<1>2. CASE CheckRunning
  BY <1>2 DEF WakeInv, IsRunning, CheckRunning, Enable, Skip, endVars
<1>3. CASE EnterSelect
  BY <1>3 DEF WakeInv, EnterSelect, LeaveLoop
<1>4. CASE WatchdogFires
  BY <1>4 DEF TypeOK, ControlInv, Looping, WakeInv, WatchdogFires, LeaveLoop,
     NextRound, IsRunning, loopVars, endVars
<1>5. ASSUME NEW r \in Roles, TakeMessage(r)
      PROVE  WakeInv'
  BY <1>5 DEF WakeInv, TakeMessage, endVars
<1>6. ASSUME NEW r \in Roles, DropReceiver(r)
      PROVE  WakeInv'
  BY <1>6 DEF WakeInv, DropReceiver, loopVars, endVars
<1>7. CASE RunHook
  BY <1>7 DEF WakeInv, RunHook
<1>8. CASE TaskCompletes
  BY <1>8 DEF WakeInv, TaskCompletes, endVars
<1>9. CASE TimerElapses
  BY <1>9 DEF TypeOK, WakeInv, TimerElapses, endVars
<1>10. CASE ContextStop
  BY <1>10 DEF WakeInv, ContextStop, loopVars, endVars
<1>11. ASSUME NEW m \in Msgs, HandlerReturns(m)
      PROVE  WakeInv'
  BY <1>11 DEF WakeInv, HandlerReturns, NextRound, endVars
<1>12. ASSUME NEW m \in Msgs, HandlerPanics(m)
      PROVE  WakeInv'
  BY <1>12 DEF WakeInv, HandlerPanics, LeaveLoop
<1>13. ASSUME NEW h \in Holders, GetShell(h)
      PROVE  WakeInv'
  BY <1>13 DEF WakeInv, GetShell, loopVars, endVars
<1>14. ASSUME NEW h \in Holders, ReleaseHandle(h)
      PROVE  WakeInv'
  BY <1>14 DEF WakeInv, ReleaseHandle, loopVars, endVars
<1>15. ASSUME NEW h \in Holders, NEW g \in Holders, CloneHandle(h, g)
      PROVE  WakeInv'
  BY <1>15 DEF WakeInv, CloneHandle, loopVars, endVars
<1>16. ASSUME NEW h \in Holders, NEW r \in Roles, NEW m \in Msgs, Send(h, r, m)
      PROVE  WakeInv'
  <2>1. CASE UNCHANGED queue
    BY <1>16, <2>1 DEF WakeInv, Send, loopVars
  <2>2. CASE queue' = [queue EXCEPT ![r] = Append(@, m)]
    <3>1. queue'[r] # <<>>
      <4>1. queue[r] \in Seq(Msgs) /\ queue'[r] = Append(queue[r], m)
        BY <2>2 DEF TypeOK
      <4>2. Len(queue'[r]) = Len(queue[r]) + 1 /\ Len(queue[r]) \in Nat
        BY <4>1, AppendProperties, LenProperties
      <4>3. QED
        BY <4>2, EmptySeq
    <3>2. \A s \in Roles : queue[s] # <<>> => queue'[s] # <<>>
      BY <2>2, <3>1 DEF TypeOK
    <3>3. \A b \in enabled : b \in Roles \/ b = Watchdog
      BY DEF TypeOK
    <3>4. QED
      BY <1>16, <3>2, <3>3 DEF WakeInv, Send, loopVars
  <2>3. QED
    BY <1>16, <2>1, <2>2 DEF Send
<1>17. CASE PollExitHandle
  BY <1>17 DEF WakeInv, PollExitHandle, loopVars
<1>18. CASE DropExitHandle
  BY <1>18 DEF WakeInv, DropExitHandle, loopVars
<1>19. CASE UNCHANGED vars
  BY <1>19 DEF WakeInv, vars, loopVars, endVars
<1>20. QED
  BY <1>1, <1>2, <1>3, <1>4, <1>5, <1>6, <1>7, <1>8, <1>9, <1>10, <1>11, <1>12,
     <1>13, <1>14, <1>15, <1>16, <1>17, <1>18, <1>19
     DEF Next, LoopStep, HandlerEnds

-----------------------------------------------------------------------------
(* The invariant and what it implies                                       *)

\* A freshly started actor satisfies the invariant.
LEMMA InitIInv == Init => IInv
<1> SUFFICES ASSUME Init PROVE IInv
  OBVIOUS
<1>1. TypeOK
  <2>1. queue \in [Roles -> Seq(Msgs)]
    BY DEF Init
  <2>2. fate \in [Msgs -> {"unsent", "queued", "handling", "done", "failed",
                           "lost", "rejected"}]
    BY DEF Init
  <2>3. handles \subseteq Holders
    BY DEF Init
  <2>4. QED
    BY <2>1, <2>2, <2>3, Branching DEF Init, TypeOK
<1>2. ControlInv /\ ExitInv
  BY DEF Init, ControlInv, ExitInv, Looping
<1>3. GuardInv /\ BacklogInv /\ WakeInv
  BY Branching DEF Init, GuardInv, BacklogInv, WakeInv
<1>4. MailboxInv /\ FateInv
  BY DEF Init, MailboxInv, FateInv, Slots
<1>5. QED
  BY <1>1, <1>2, <1>3, <1>4 DEF IInv

\* The invariant is inductive.
LEMMA StepIInv == IInv /\ [Next]_vars => IInv'
  BY TypeStep, ControlStep, GuardStep, MailboxStep, FateStep, BacklogStep,
     ExitStep, WakeStep DEF IInv

\* The invariant holds throughout, however many roles, messages and holders there
\* are.
THEOREM Invariance == Spec => []IInv
  BY InitIInv, StepIInv, PTL DEF Spec

\* The variables keep their types.
THEOREM TypeCorrect == Spec => []TypeOK
<1>1. IInv => TypeOK
  BY DEF IInv
<1>2. QED
  BY <1>1, Invariance, PTL

\* An actor that nobody stopped leaves its loop normally only when no handle is
\* left: `else => break` and the watchdog's break never hit a live client.
THEOREM PrematureExit == Spec => []NoPrematureExit
<1>1. IInv => NoPrematureExit
  BY DEF IInv, GuardInv, IsRunning, NoPrematureExit
<1>2. QED
  BY <1>1, Invariance, PTL

\* The invariant alone keeps every branch of a held actor enabled.
LEMMA HeldListens == IInv => ListensWhileHeld
  BY DEF IInv, TypeOK, GuardInv, IsRunning, ListensWhileHeld

\* While a handle exists and nobody stopped the actor, select! sleeps with every
\* branch enabled, whatever the reference count did while it looked.
THEOREM Listening == Spec => []ListensWhileHeld
  BY HeldListens, Invariance, PTL

\* What was queued when Context::stop was called is handled before the loop is
\* left, unless a handler panics.
THEOREM Draining == Spec => []StopDrains
<1>1. IInv => StopDrains
  BY DEF IInv, BacklogInv, StopDrains
<1>2. QED
  BY <1>1, Invariance, PTL

\* A stopped actor that polls has a message to take, by the invariant alone.
LEMMA StopWakes == IInv => StoppedNeverSleeps
<1>1. ASSUME IInv, pc = "poll", ~running
      PROVE  \E r \in Roles : r \in enabled /\ queue[r] # <<>>
  <2>1. PICK b \in enabled : TRUE
    BY <1>1 DEF IInv, ControlInv
  <2>2. b \in Roles /\ queue[b] # <<>>
    BY <1>1, <2>1, Branching DEF IInv, TypeOK, WakeInv
  <2>3. QED
    BY <2>1, <2>2
<1>2. QED
  BY <1>1 DEF StoppedNeverSleeps

\* After Context::stop the loop never sleeps: a select! that is polled has a message
\* to take, so that a stopped actor works through its backlog and leaves.
THEOREM NoSleepAfterStop == Spec => []StoppedNeverSleeps
  BY StopWakes, Invariance, PTL

\* The ExitHandle yields Panic exactly if a handler panicked, and yields only when
\* all receivers are dropped and nothing is pending.
THEOREM ExitTold == Spec => []ExitHandleTruthful
<1>1. ASSUME IInv, exit \in {"Exit", "Panic", "unreachable"}
      PROVE  /\ IF exit = "unreachable" THEN HooksMayPanic
                ELSE (exit = "Panic") = \E m \in Msgs : fate[m] = "failed"
             /\ \A m \in Msgs : fate[m] \notin {"queued", "handling"}
             /\ open = {}
  <2>1. pc = "joined" /\ open = {} /\ ended \in {"broke", "panicked"}
    BY <1>1 DEF IInv, TypeOK, ControlInv, ExitInv, Looping
  <2>2. \A m \in Msgs : fate[m] # "queued"
    BY <1>1, <2>1 DEF IInv, MailboxInv, Slots
  <2>3. \A m \in Msgs : fate[m] # "handling"
    BY <1>1, <2>1 DEF IInv, FateInv
  <2>4. /\ exit = "unreachable" => HooksMayPanic
        /\ exit # "unreachable" => (exit = "Panic" <=> ended = "panicked")
    BY <1>1, <2>1 DEF IInv, ExitInv
  <2>5. QED
    BY <1>1, <2>1, <2>2, <2>3, <2>4 DEF IInv, FateInv
<1>2. IInv => ExitHandleTruthful
  BY <1>1 DEF ExitHandleTruthful
<1>3. QED
  BY <1>2, Invariance, PTL

-----------------------------------------------------------------------------
(* Refinement of the contract                                              *)

\* A freshly started actor is in an initial state of the contract.
LEMMA InitContract == Init => Contract!Init
  BY DEF Init, Contract!Init

\* Breaking out of the loop is the contract's Leave: no handler runs, the actor is
\* not running and no backlog is left.
LEMMA LeaveContract ==
  ASSUME IInv, IInv', pc # "handler", pc' = "hook",
         ended = "no", ended' = "broke",
         UNCHANGED <<queue, handles, running, fate, exit, atStop>>
  PROVE  Contract!Leave
<1>1. handles = {} \/ ~running
  BY DEF IInv, GuardInv, IsRunning
<1>2. ~Contract!Busy
  BY DEF IInv, FateInv, Contract!Busy
<1>3. atStop \cap Contract!Waiting = {}
  BY DEF IInv, BacklogInv, Contract!Waiting
<1>4. QED
  BY <1>1, <1>2, <1>3 DEF Contract!Leave

\* Every step of the task and of the holders is a step of the contract or leaves
\* all the contract speaks of unchanged.
LEMMA StepContract ==
  ASSUME IInv, IInv', [Next]_vars
  PROVE  [Contract!Next]_(Contract!vars)
<1>1. CASE CheckQueue
  BY <1>1 DEF CheckQueue, endVars, Contract!vars
<1>2. CASE CheckRunning
  BY <1>2 DEF CheckRunning, endVars, Contract!vars
<1>3. CASE EnterSelect
  <2>1. CASE LeaveLoop("broke")
    <3>1. ended = "no"
      BY <1>3 DEF IInv, ControlInv, Looping, EnterSelect
    <3>2. Contract!Leave
      BY <1>3, <2>1, <3>1, LeaveContract DEF EnterSelect, LeaveLoop
    <3>3. QED
      BY <3>2 DEF Contract!Next
  <2>2. CASE pc' = "poll" /\ UNCHANGED ended
    BY <1>3, <2>2 DEF EnterSelect, Contract!vars
  <2>3. QED
    BY <1>3, <2>1, <2>2 DEF EnterSelect
<1>4. CASE WatchdogFires
  <2>1. CASE LeaveLoop("broke")
    <3>1. ended = "no"
      BY <1>4 DEF IInv, ControlInv, Looping, WatchdogFires
    <3>2. Contract!Leave
      BY <1>4, <2>1, <3>1, LeaveContract DEF WatchdogFires, LeaveLoop
    <3>3. QED
      BY <3>2 DEF Contract!Next
  <2>2. CASE NextRound /\ UNCHANGED ended
    BY <1>4, <2>2 DEF WatchdogFires, NextRound, Contract!vars
  <2>3. QED
    BY <1>4, <2>1, <2>2 DEF WatchdogFires
<1>5. ASSUME NEW r \in Roles, TakeMessage(r)
      PROVE  Contract!Next
  <2>1. ended = "no" /\ ended' = "no"
    BY <1>5 DEF IInv, ControlInv, Looping, TakeMessage, endVars
  <2>2. ~Contract!Busy
    BY <1>5 DEF IInv, FateInv, TakeMessage, Contract!Busy
  <2>3. Contract!Take(r)
    BY <1>5, <2>1, <2>2 DEF TakeMessage, endVars, Contract!Take
  <2>4. QED
    BY <2>3 DEF Contract!Next
<1>6. ASSUME NEW r \in Roles, DropReceiver(r)
      PROVE  Contract!Next
  <2>1. ended # "no" /\ ended' = ended /\ pc = "closing" /\ pc' = pc
    BY <1>6 DEF IInv, ControlInv, Looping, DropReceiver, loopVars, endVars
  <2>2. Contract!Lose(r)
    BY <1>6, <2>1
       DEF DropReceiver, endVars, Range, Contract!Range, Contract!Lose
  <2>3. QED
    BY <2>2 DEF Contract!Next
<1>7. CASE RunHook
  BY <1>7 DEF RunHook, Contract!vars
<1>8. CASE TaskCompletes
  <2>1. ended # "no" /\ ended' = ended
    BY <1>8 DEF IInv, ControlInv, Looping, TaskCompletes, endVars
  <2>2. Contract!Waiting = {}
    BY <1>8 DEF IInv, MailboxInv, Slots, TaskCompletes, Contract!Waiting
  <2>3. Contract!End
    BY <1>8, <2>1, <2>2 DEF TaskCompletes, endVars, Contract!End
  <2>4. QED
    BY <2>3 DEF Contract!Next
<1>9. CASE TimerElapses
  BY <1>9 DEF TimerElapses, endVars, Contract!vars
<1>10. CASE ContextStop
  <2>1. Contract!Busy
    BY <1>10 DEF IInv, FateInv, ContextStop, Contract!Busy
  <2>2. Contract!Stop
    BY <1>10, <2>1 DEF ContextStop, Queued, loopVars, endVars, Contract!Stop,
       Contract!Waiting
  <2>3. QED
    BY <2>2 DEF Contract!Next
<1>11. ASSUME NEW m \in Msgs, HandlerReturns(m)
       PROVE  Contract!Next
  <2>1. ended = "no" /\ ended' = "no"
    BY <1>11 DEF IInv, ControlInv, Looping, HandlerReturns, endVars
  <2>2. Contract!Complete(m)
    BY <1>11, <2>1 DEF HandlerReturns, endVars, Contract!Complete
  <2>3. QED
    BY <2>2 DEF Contract!Next
<1>12. ASSUME NEW m \in Msgs, HandlerPanics(m)
       PROVE  Contract!Next
  <2>1. Contract!Panic(m)
    BY <1>12 DEF HandlerPanics, LeaveLoop, Contract!Panic
  <2>2. QED
    BY <2>1 DEF Contract!Next
<1>13. ASSUME NEW h \in Holders, GetShell(h)
       PROVE  Contract!Next
  <2>1. Contract!Busy
    BY <1>13 DEF IInv, FateInv, GetShell, Contract!Busy
  <2>2. Contract!Acquire(h)
    BY <1>13, <2>1 DEF GetShell, loopVars, endVars, Contract!Acquire
  <2>3. QED
    BY <2>2 DEF Contract!Next
<1>14. ASSUME NEW h \in Holders, ReleaseHandle(h)
       PROVE  Contract!Next
  <2>1. Contract!Release
    BY <1>14 DEF ReleaseHandle, loopVars, endVars, Contract!Release
  <2>2. QED
    BY <2>1 DEF Contract!Next
<1>15. ASSUME NEW h \in Holders, NEW g \in Holders, CloneHandle(h, g)
       PROVE  Contract!Next
  <2>1. Contract!Acquire(g)
    BY <1>15 DEF CloneHandle, loopVars, endVars, Contract!Acquire
  <2>2. QED
    BY <2>1 DEF Contract!Next
<1>16. ASSUME NEW h \in Holders, NEW r \in Roles, NEW m \in Msgs, Send(h, r, m)
       PROVE  Contract!Next
  <2>0. handles' \subseteq Holders
    BY <1>16 DEF IInv, TypeOK, Send
  <2>1. CASE r \in open
    <3>1. pc # "joined"
      BY <2>1 DEF IInv, ControlInv
    <3>2. Contract!Accept(r, m)
      BY <1>16, <2>0, <2>1, <3>1 DEF Send, loopVars, endVars, Contract!Accept
    <3>3. QED
      BY <3>2 DEF Contract!Next
  <2>2. CASE r \notin open
    <3>1. ended # "no"
      BY <2>2 DEF IInv, ControlInv, Looping
    <3>2. Contract!Reject(m)
      BY <1>16, <2>0, <2>2, <3>1 DEF Send, loopVars, endVars, Contract!Reject
    <3>3. QED
      BY <3>2 DEF Contract!Next
  <2>3. QED
    BY <2>1, <2>2
<1>17. CASE PollExitHandle
  <2>1. ended # "no" /\ ended \in {"broke", "panicked"}
    BY <1>17 DEF IInv, TypeOK, ControlInv, Looping, PollExitHandle
  <2>2. result \in {"JoinError", IF ended = "broke" THEN "Ok" ELSE "Err"}
    BY <1>17 DEF IInv, ExitInv, PollExitHandle
  <2>3. ended = "panicked" <=> \E m \in Msgs : fate[m] = "failed"
    BY DEF IInv, FateInv
  <2>4. exit' \in {"unreachable",
          IF \E m \in Msgs : fate[m] = "failed" THEN "Panic" ELSE "Exit"}
    BY <1>17, <2>1, <2>2, <2>3 DEF PollExitHandle
  <2>5. Contract!Report
    BY <1>17, <2>1, <2>4 DEF PollExitHandle, loopVars, Contract!Report
  <2>6. QED
    BY <2>5 DEF Contract!Next
<1>18. CASE DropExitHandle
  <2>1. Contract!Report
    BY <1>18 DEF DropExitHandle, loopVars, Contract!Report
  <2>2. QED
    BY <2>1 DEF Contract!Next
<1>19. CASE UNCHANGED vars
  BY <1>19 DEF vars, loopVars, endVars, Contract!vars
<1>20. QED
  BY <1>1, <1>2, <1>3, <1>4, <1>5, <1>6, <1>7, <1>8, <1>9, <1>10, <1>11, <1>12,
     <1>13, <1>14, <1>15, <1>16, <1>17, <1>18, <1>19 DEF Next, LoopStep, HandlerEnds

\* The event loop with its channels, its timer and its reference count implements
\* the contract of an actor.
THEOREM Implementation == Spec => ImplementsContract
<1>1. IInv /\ IInv' /\ [Next]_vars => [Contract!Next]_(Contract!vars)
  BY StepContract
<1>2. QED
  BY InitIInv, StepIInv, InitContract, <1>1, PTL
     DEF Spec, ImplementsContract, Contract!Spec

-----------------------------------------------------------------------------
(* What the modules that say more of the holders rest on                   *)

\* Only sending, taking and dropping a receiver touch the channels.
LEMMA QueueSteps ==
  ASSUME [Next]_vars
  PROVE  \/ UNCHANGED queue
         \/ \E r \in Roles : TakeMessage(r) \/ DropReceiver(r)
         \/ \E h \in Holders, r \in Roles, m \in Msgs : Send(h, r, m)
  BY DEF Next, LoopStep, HandlerEnds, CheckQueue, CheckRunning, EnterSelect,
     WatchdogFires, RunHook, TaskCompletes, TimerElapses, ContextStop,
     HandlerReturns, HandlerPanics, GetShell, ReleaseHandle, CloneHandle,
     PollExitHandle, DropExitHandle, vars

\* A channel keeps its order, whoever sends and whatever the loop takes.
LEMMA AheadStays ==
  ASSUME TypeOK, [Next]_vars, NEW r \in Roles, NEW m \in Msgs, NEW n \in Msgs,
         m # n, fate[m] # "unsent", Ahead(r, m, n)
  PROVE  Ahead(r, m, n)'
<1>1. CASE queue'[r] = queue[r]
  BY <1>1 DEF Ahead, Slots
<1>2. CASE TakeMessage(r)
  <2>1. \A i \in Slots(r)' : i \in Nat /\ i + 1 \in Slots(r)
                            /\ queue'[r][i] = queue[r][i + 1]
    BY <1>2, TakeEffect DEF Slots
  <2>2. SUFFICES ASSUME NEW i \in Slots(r)', NEW j \in Slots(r)',
                        queue'[r][i] = m, queue'[r][j] = n
                 PROVE  i < j
    BY DEF Ahead
  <2>3. i + 1 < j + 1
    BY <2>1, <2>2 DEF Ahead
  <2>4. QED
    BY <2>1, <2>3
<1>3. CASE DropReceiver(r)
  BY <1>3, DropEffect DEF Ahead
<1>4. ASSUME NEW h \in Holders, NEW k \in Msgs, Send(h, r, k),
             queue' = [queue EXCEPT ![r] = Append(@, k)]
      PROVE  Ahead(r, m, n)'
  <2>1. k # m
    BY <1>4 DEF Send
  <2>2. PICK last \in Slots(r)' :
          /\ queue'[r][last] = k /\ last \notin Slots(r)
          /\ \A i \in Slots(r)' : i # last => i \in Slots(r)
    BY <1>4, AcceptEffect
  <2>3. \A i \in Slots(r) : i \in Slots(r)' /\ queue'[r][i] = queue[r][i] /\ i < last
    <3>1. \A i \in Slots(r) : i \in Slots(r)' /\ queue'[r][i] = queue[r][i]
      BY <1>4, AcceptEffect
    <3>2. Len(queue[r]) \in Nat /\ last \in Nat /\ 1 <= last
      BY <2>2, LenProperties DEF TypeOK, Slots
    <3>3. QED
      BY <2>2, <3>1, <3>2 DEF Slots
  <2>4. SUFFICES ASSUME NEW i \in Slots(r)', NEW j \in Slots(r)',
                        queue'[r][i] = m, queue'[r][j] = n
                 PROVE  i < j
    BY DEF Ahead
  <2>5. i \in Slots(r)
    BY <2>1, <2>2, <2>4
  <2>6. CASE j = last
    BY <2>3, <2>5, <2>6
  <2>7. CASE j # last
    <3>1. j \in Slots(r) /\ queue[r][i] = m /\ queue[r][j] = n
      BY <2>2, <2>3, <2>4, <2>5, <2>7
    <3>2. QED
      BY <2>5, <3>1 DEF Ahead
  <2>8. QED
    BY <2>6, <2>7
<1>5. CASE \E s \in Roles \ {r} : TakeMessage(s) \/ DropReceiver(s)
  <2>1. queue'[r] = queue[r]
    BY <1>5 DEF TypeOK, TakeMessage, DropReceiver
  <2>2. QED
    BY <1>1, <2>1
<1>6. ASSUME NEW h \in Holders, NEW s \in Roles, NEW k \in Msgs, Send(h, s, k)
      PROVE  Ahead(r, m, n)'
  <2>1. CASE s = r /\ queue' = [queue EXCEPT ![r] = Append(@, k)]
    BY <1>4, <1>6, <2>1
  <2>2. CASE s # r \/ queue' = queue
    <3>1. queue'[r] = queue[r]
      BY <1>6, <2>2 DEF TypeOK, Send
    <3>2. QED
      BY <1>1, <3>1
  <2>3. QED
    BY <1>6, <2>1, <2>2 DEF Send
<1>7. CASE UNCHANGED queue
  BY <1>1, <1>7
<1>8. QED
  BY <1>2, <1>3, <1>5, <1>6, <1>7, QueueSteps

\* What a channel holds was in it before, or is being sent to it.
LEMMA QueueFill ==
  ASSUME TypeOK, [Next]_vars, NEW r \in Roles, NEW k \in Slots(r)'
  PROVE  \/ \E i \in Slots(r) : queue[r][i] = queue'[r][k]
         \/ \E h \in Holders, m \in Msgs : m = queue'[r][k] /\ Send(h, r, m)
<1>1. CASE queue'[r] = queue[r]
  BY <1>1 DEF Slots
<1>2. CASE TakeMessage(r)
  BY <1>2, TakeEffect
<1>3. CASE DropReceiver(r)
  BY <1>3, DropEffect
<1>4. ASSUME NEW s \in Roles \ {r}, TakeMessage(s) \/ DropReceiver(s)
      PROVE  queue'[r] = queue[r]
  BY <1>4 DEF TypeOK, TakeMessage, DropReceiver
<1>5. ASSUME NEW h \in Holders, NEW s \in Roles, NEW m \in Msgs, Send(h, s, m)
      PROVE  \/ \E i \in Slots(r) : queue[r][i] = queue'[r][k]
             \/ m = queue'[r][k] /\ Send(h, r, m)
  <2>1. CASE s = r /\ queue' = [queue EXCEPT ![r] = Append(@, m)]
    <3>1. PICK last \in Slots(r)' :
            /\ queue'[r][last] = m
            /\ \A i \in Slots(r)' : i # last => i \in Slots(r)
      BY <2>1, AcceptEffect
    <3>2. \A i \in Slots(r) : queue'[r][i] = queue[r][i]
      BY <2>1, AcceptEffect
    <3>3. QED
      BY <1>5, <2>1, <3>1, <3>2
  <2>2. CASE s # r \/ queue' = queue
    <3>1. queue'[r] = queue[r]
      BY <1>5, <2>2 DEF TypeOK, Send
    <3>2. QED
      BY <3>1 DEF Slots
  <2>3. QED
    BY <1>5, <2>1, <2>2 DEF Send
<1>6. QED
  BY <1>1, <1>2, <1>3, <1>4, <1>5, QueueSteps

\* The life of a message, and who takes each step of it.
LEMMA FateChanges ==
  ASSUME TypeOK, MailboxInv, [Next]_vars, NEW m \in Msgs
  PROVE  \/ fate'[m] = fate[m]
         \/ /\ fate[m] = "unsent" /\ fate'[m] \in {"queued", "rejected"}
            /\ \E h \in Holders, r \in Roles : Send(h, r, m)
         \/ /\ fate[m] = "queued" /\ fate'[m] = "handling"
            /\ \E r \in Roles : TakeMessage(r) /\ queue[r][1] = m
         \/ fate[m] = "queued" /\ fate'[m] = "lost"
         \/ fate[m] = "handling" /\ fate'[m] \in {"done", "failed"}
<1>1. ASSUME NEW r \in Roles, TakeMessage(r)
      PROVE  \/ fate'[m] = fate[m]
             \/ /\ fate[m] = "queued" /\ fate'[m] = "handling"
                /\ queue[r][1] = m
  <2>1. 1 \in Slots(r) /\ fate' = [fate EXCEPT ![queue[r][1]] = "handling"]
    BY <1>1, TakeEffect
  <2>2. QED
    BY <2>1 DEF TypeOK, MailboxInv
<1>2. ASSUME NEW r \in Roles, DropReceiver(r)
      PROVE  \/ fate'[m] = fate[m]
             \/ fate[m] = "queued" /\ fate'[m] = "lost"
  <2>1. fate'[m] = IF \E i \in Slots(r) : queue[r][i] = m
                   THEN "lost" ELSE fate[m]
    BY <1>2, DropEffect
  <2>2. (\E i \in Slots(r) : queue[r][i] = m) => fate[m] = "queued"
    BY DEF MailboxInv
  <2>3. QED
    BY <2>1, <2>2
<1>3. ASSUME NEW h \in Holders, NEW r \in Roles, NEW n \in Msgs, Send(h, r, n)
      PROVE  \/ fate'[m] = fate[m]
             \/ /\ fate[m] = "unsent" /\ fate'[m] \in {"queued", "rejected"}
                /\ n = m
  BY <1>3 DEF TypeOK, Send
<1>4. ASSUME NEW n \in Msgs, HandlerReturns(n) \/ HandlerPanics(n)
      PROVE  \/ fate'[m] = fate[m]
             \/ fate[m] = "handling" /\ fate'[m] \in {"done", "failed"}
  BY <1>4 DEF TypeOK, HandlerReturns, HandlerPanics
<1>5. CASE UNCHANGED fate
  BY <1>5
<1>6. \/ UNCHANGED fate
      \/ \E r \in Roles : TakeMessage(r) \/ DropReceiver(r)
      \/ \E h \in Holders, r \in Roles, n \in Msgs : Send(h, r, n)
      \/ \E n \in Msgs : HandlerReturns(n) \/ HandlerPanics(n)
  BY DEF Next, LoopStep, HandlerEnds, CheckQueue, CheckRunning, EnterSelect,
     WatchdogFires, RunHook, TaskCompletes, TimerElapses, ContextStop,
     GetShell, ReleaseHandle, CloneHandle, PollExitHandle, DropExitHandle, vars
<1>7. QED
  BY <1>1, <1>2, <1>3, <1>4, <1>5, <1>6

\* A channel refuses what a holder sends only after a stop or a panic: the loop
\* is over, and the sender's own handle keeps it from ending otherwise.
LEMMA RefusalCause ==
  ASSUME TypeOK, ControlInv, GuardInv,
         NEW h \in Holders, NEW r \in Roles, NEW m \in Msgs,
         Send(h, r, m), fate'[m] = "rejected"
  PROVE  ~running \/ ended = "panicked"
<1>1. h \in handles /\ r \notin open
  BY DEF Send, TypeOK
<1>2. ended # "no"
  BY <1>1 DEF ControlInv, Looping
<1>3. QED
  BY <1>1, <1>2 DEF TypeOK, GuardInv, IsRunning

\* A stop and a panic are never taken back.
LEMMA OverForGood ==
  ASSUME ControlInv, [Next]_vars
  PROVE  /\ ~running => ~running'
         /\ ended # "no" => ended' = ended
  BY DEF ControlInv, Looping, Next, LoopStep, HandlerEnds, CheckQueue, CheckRunning, EnterSelect,
     WatchdogFires, RunHook, TaskCompletes, TimerElapses, ContextStop, LeaveLoop,
     TakeMessage, DropReceiver, Send, HandlerReturns, HandlerPanics, GetShell,
     ReleaseHandle, CloneHandle, PollExitHandle, DropExitHandle, endVars, vars

\* The task itself and the exit handle neither send nor touch a handle.
LEMMA ActorEffect ==
  ASSUME TypeOK, MailboxInv,
         LoopStep \/ TimerElapses \/ ContextStop \/ HandlerEnds
         \/ PollExitHandle \/ DropExitHandle
  PROVE  /\ UNCHANGED handles
         /\ \A m \in Msgs :
              \/ fate'[m] = fate[m]
              \/ /\ fate[m] \notin {"unsent", "rejected"}
                 /\ fate'[m] \notin {"unsent", "rejected"}
<1>1. UNCHANGED handles
  BY DEF LoopStep, HandlerEnds, CheckQueue, CheckRunning, EnterSelect,
     WatchdogFires, TakeMessage, DropReceiver, RunHook, TaskCompletes,
     TimerElapses, ContextStop, HandlerReturns, HandlerPanics, PollExitHandle,
     DropExitHandle
<1>2. ASSUME NEW m \in Msgs, fate'[m] # fate[m]
      PROVE  /\ fate[m] \notin {"unsent", "rejected"}
             /\ fate'[m] \notin {"unsent", "rejected"}
  <2>1. [Next]_vars
    BY DEF Next
  <2>2. ASSUME NEW r \in Roles, DropReceiver(r)
        PROVE  fate'[m] \in {fate[m], "lost"}
    BY <2>2, DropEffect
  <2>3. ASSUME NEW r \in Roles, TakeMessage(r)
        PROVE  fate'[m] \in {fate[m], "handling"}
    BY <2>3, TakeEffect DEF TypeOK
  <2>4. fate'[m] \in {"lost", "handling", "done", "failed"}
    BY <1>2, <2>2, <2>3
       DEF LoopStep, HandlerEnds, CheckQueue, CheckRunning, EnterSelect,
           WatchdogFires, RunHook, TaskCompletes, TimerElapses, ContextStop,
           HandlerReturns, HandlerPanics, PollExitHandle, DropExitHandle, TypeOK
  <2>5. \/ fate[m] = "unsent" /\ fate'[m] \in {"queued", "rejected"}
        \/ fate[m] \in {"queued", "handling"}
    BY <1>2, <2>1, FateChanges
  <2>6. QED
    BY <2>4, <2>5
<1>3. QED
  BY <1>1, <1>2
=============================================================================
