------------------------- MODULE ActorSystem_proofs -------------------------
(***************************************************************************)
(* Proofs about ActorSystem for any number of actors, tasks and calls and  *)
(* for any programs: IInv is inductive, and with it every step of the      *)
(* system is, for each of its actors, a step of ActorContract or a         *)
(* stutter; only failed actors refuse messages; what is forwarded keeps    *)
(* its order; a deadlock is for ever.                                      *)
(***************************************************************************)
EXTENDS ActorSystem, SequenceTheorems, TLAPS

-----------------------------------------------------------------------------
(* Mailboxes                                                               *)

\* Sending adds the message at the end.
LEMMA AppendEffect ==
  ASSUME NEW S, NEW s \in Seq(S), NEW x \in S
  PROVE  /\ Append(s, x) \in Seq(S)
         /\ Range(Append(s, x)) = Range(s) \cup {x}
         /\ IsInjective(s) /\ x \notin Range(s) => IsInjective(Append(s, x))
<1>1. /\ Append(s, x) \in Seq(S) /\ Len(Append(s, x)) = Len(s) + 1
      /\ \A i \in 1..Len(s) : Append(s, x)[i] = s[i]
      /\ Append(s, x)[Len(s) + 1] = x
  BY AppendProperties
<1>2. /\ Len(s) \in Nat /\ DOMAIN s = 1..Len(s)
      /\ DOMAIN Append(s, x) = 1..(Len(s) + 1)
  BY <1>1, LenProperties
<1>3. Range(Append(s, x)) = Range(s) \cup {x}
  BY <1>1, <1>2 DEF Range
<1>4. ASSUME IsInjective(s), x \notin Range(s)
      PROVE  IsInjective(Append(s, x))
  <2>1. \A i \in 1..Len(s) : s[i] # x
    BY <1>2, <1>4 DEF Range
  <2>2. \A i, j \in 1..Len(s) : s[i] = s[j] => i = j
    BY <1>2, <1>4 DEF IsInjective
  <2>3. QED
    BY <1>1, <1>2, <2>1, <2>2 DEF IsInjective
<1>5. QED
  BY <1>1, <1>3, <1>4

\* Receiving takes the first message away.
LEMMA TailEffect ==
  ASSUME NEW S, NEW s \in Seq(S), s # <<>>, IsInjective(s)
  PROVE  /\ Tail(s) \in Seq(S) /\ Head(s) \in Range(s)
         /\ Range(Tail(s)) = Range(s) \ {Head(s)}
         /\ IsInjective(Tail(s))
<1>1. /\ Tail(s) \in Seq(S) /\ Len(Tail(s)) = Len(s) - 1
      /\ \A i \in 1..Len(Tail(s)) : Tail(s)[i] = s[i + 1]
  BY HeadTailProperties
<1>2. /\ Len(s) \in Nat /\ Len(s) # 0 /\ DOMAIN s = 1..Len(s)
      /\ DOMAIN Tail(s) = 1..(Len(s) - 1) /\ Head(s) = s[1]
  BY <1>1, EmptySeq, LenProperties
<1>3. \A i, j \in 1..Len(s) : s[i] = s[j] => i = j
  BY <1>2 DEF IsInjective
<1>4. \A i \in 1..(Len(s) - 1) : i + 1 \in 1..Len(s) /\ i + 1 # 1 /\ Tail(s)[i] = s[i + 1]
  BY <1>1, <1>2
<1>5. Head(s) \in Range(s)
  BY <1>2 DEF Range
<1>6. Range(Tail(s)) = Range(s) \ {Head(s)}
  <2>1. \A i \in 1..Len(s) : i = 1 \/ (i - 1 \in 1..(Len(s) - 1) /\ (i - 1) + 1 = i)
    BY <1>2
  <2>2. ASSUME NEW y \in Range(Tail(s)) PROVE y \in Range(s) \ {Head(s)}
    BY <1>2, <1>3, <1>4 DEF Range
  <2>3. ASSUME NEW y \in Range(s), y # Head(s) PROVE y \in Range(Tail(s))
    <3>1. PICK i \in 1..Len(s) : y = s[i]
      BY <1>2 DEF Range
    <3>2. i - 1 \in 1..(Len(s) - 1) /\ Tail(s)[i - 1] = y
      BY <1>2, <1>4, <2>1, <2>3, <3>1
    <3>3. QED
      BY <1>2, <3>2 DEF Range
  <2>4. QED
    BY <2>2, <2>3
<1>7. IsInjective(Tail(s))
  BY <1>2, <1>3, <1>4 DEF IsInjective
<1>8. QED
  BY <1>1, <1>5, <1>6, <1>7

\* A message that is added comes after those that wait.
LEMMA AppendOrder ==
  ASSUME NEW S, NEW s \in Seq(S), NEW x \in S, NEW m, NEW n
  PROVE  /\ Before(s, m, n) => Before(Append(s, x), m, n)
         /\ m \in Range(s) => Before(Append(s, x), m, x)
<1>1. /\ Len(Append(s, x)) = Len(s) + 1 /\ Append(s, x) \in Seq(S)
      /\ \A i \in 1..Len(s) : Append(s, x)[i] = s[i]
      /\ Append(s, x)[Len(s) + 1] = x
  BY AppendProperties
<1>2. /\ Len(s) \in Nat /\ DOMAIN s = 1..Len(s)
      /\ DOMAIN Append(s, x) = 1..(Len(s) + 1)
  BY <1>1, LenProperties
<1>3. Before(s, m, n) => Before(Append(s, x), m, n)
  BY <1>1, <1>2 DEF Before
<1>4. m \in Range(s) => Before(Append(s, x), m, x)
  BY <1>1, <1>2 DEF Before, Range
<1>5. QED
  BY <1>3, <1>4

\* Taking the first message keeps the order of the others, and none is before it.
LEMMA TailOrder ==
  ASSUME NEW S, NEW s \in Seq(S), IsInjective(s), NEW m, NEW n, Before(s, m, n)
  PROVE  /\ s # <<>> /\ n # Head(s)
         /\ m # Head(s) => Before(Tail(s), m, n)
<1>1. PICK i, j \in DOMAIN s : i < j /\ s[i] = m /\ s[j] = n
  BY DEF Before
<1>2. Len(s) \in Nat /\ DOMAIN s = 1..Len(s) /\ Len(s) # 0
  BY <1>1, LenProperties
<1>3. s # <<>> /\ Head(s) = s[1]
  BY <1>2, EmptySeq
<1>4. n # Head(s)
  BY <1>1, <1>2, <1>3 DEF IsInjective
<1>5. ASSUME m # Head(s) PROVE Before(Tail(s), m, n)
  <2>1. /\ Tail(s) \in Seq(S) /\ Len(Tail(s)) = Len(s) - 1
        /\ \A k \in 1..Len(Tail(s)) : Tail(s)[k] = s[k + 1]
    BY <1>3, HeadTailProperties
  <2>2. i - 1 \in 1..(Len(s) - 1) /\ j - 1 \in 1..(Len(s) - 1) /\ i - 1 < j - 1
    BY <1>1, <1>2, <1>3, <1>5
  <2>3. DOMAIN Tail(s) = 1..(Len(s) - 1)
    BY <2>1, LenProperties
  <2>4. Tail(s)[i - 1] = m /\ Tail(s)[j - 1] = n
    <3>1. (i - 1) + 1 = i /\ (j - 1) + 1 = j
      BY <1>2
    <3>2. QED
      BY <1>1, <2>1, <2>2, <3>1
  <2>5. QED
    BY <2>2, <2>3, <2>4 DEF Before
<1>6. QED
  BY <1>3, <1>4, <1>5

-----------------------------------------------------------------------------
(* Messages and their recipients                                           *)

\* A message is a call's, a forwarded value or an outcome, and says which.
LEMMA Sorts ==
  /\ \A c \in 1..MaxCalls :
       /\ <<c, "ask">> \in Asks \ (Values \cup Outcomes) /\ <<c, "ask">> \in Messages
       /\ <<c, "value">> \in Values \ (Asks \cup Outcomes) /\ <<c, "value">> \in Messages
  /\ \A a \in Actors : <<a, "outcome">> \in Outcomes \ (Asks \cup Values)
                       /\ <<a, "outcome">> \in Messages
  /\ \A m \in Asks : m[1] \in 1..MaxCalls /\ m = <<m[1], "ask">>
  /\ \A m \in Values : m[1] \in 1..MaxCalls /\ m = <<m[1], "value">>
  /\ \A m \in Outcomes : m[1] \in Actors /\ m = <<m[1], "outcome">>
  /\ Messages = Asks \cup Values \cup Outcomes
BY DEF Asks, Values, Outcomes, Messages

\* What the program is made of.
LEMMA Typing ==
  ASSUME TypeOK
  PROVE  /\ Made = 1..Len(calls) /\ Len(calls) \in Nat /\ Len(calls) <= MaxCalls
         /\ MaxCalls \in Nat /\ Made \subseteq 1..MaxCalls
         /\ \A c \in Made : calls[c] \in CallRecords
         /\ program.calls \subseteq CallRecords
<1>1. Len(calls) \in Nat /\ DOMAIN calls = 1..Len(calls) /\ calls \in [1..Len(calls) -> CallRecords]
  BY LenProperties DEF TypeOK
<1>2. program.calls \subseteq CallRecords
  BY ProgramsJoinActors DEF TypeOK
<1>3. QED
  BY <1>1, <1>2, MaxCallsIsNat DEF Made, TypeOK

\* No message has two recipients.
LEMMA OneRecipient ==
  ASSUME TypeOK, CallsInv, NEW m, NEW a \in Actors, NEW b \in Actors, IsFor(m, a), IsFor(m, b)
  PROVE  a = b
<1>1. CASE m \in Outcomes
  <2>1. m[1] \in Actors /\ a \in program.watcher[m[1]] /\ b \in program.watcher[m[1]]
    BY <1>1, Sorts DEF IsFor, CallsInv
  <2>2. QED
    BY <2>1, OneExitHandle DEF TypeOK
<1>2. CASE m \notin Outcomes
  BY <1>2, Sorts DEF IsFor
<1>3. QED
  BY <1>1, <1>2

-----------------------------------------------------------------------------
(* What steps do                                                           *)

\* A step that sends m to b, of which its sender or b's handler holds a handle; a
\* value is sent while the handler of its call runs.
Sends(m, b) ==
  /\ m \in Messages /\ b \in Actors /\ fate[m] = "unsent"
  /\ Owners(b) # {} \/ Busy(b)
  /\ m \in Values => fate[<<m[1], "ask">>] = "handling"
  /\ Post(m, b)
  /\ UNCHANGED <<lifeVars, linkVars>>

\* A call is the next in the list, and its messages are fresh.
LEMMA CallEffect ==
  ASSUME IInv, NEW c \in program.calls, Call(c)
  PROVE  \E n \in 1..MaxCalls :
           /\ n = Len(calls) + 1 /\ n \notin Made /\ Made' = Made \cup {n}
           /\ c \in CallRecords /\ calls' \in Seq(CallRecords) /\ Len(calls') = n
           /\ calls'[n] = c /\ \A d \in Made : calls'[d] = calls[d]
           /\ fate[<<n, "ask">>] = "unsent" /\ fate[<<n, "value">>] = "unsent"
           /\ IF c.way = "drop" THEN UNCHANGED <<fate, mailbox>> ELSE Sends(<<n, "ask">>, c.to)
           /\ waits' = [waits EXCEPT ![c.by] = IF c.way = "await" THEN n ELSE 0]
<1> DEFINE n == Len(calls) + 1
<1>1. TypeOK /\ CallsInv /\ HandlersInv
  BY DEF IInv
<1>2. /\ Made = 1..Len(calls) /\ Len(calls) \in Nat /\ MaxCalls \in Nat
      /\ c \in CallRecords
  BY <1>1, Typing
<1>3. n \in 1..MaxCalls /\ n \notin Made /\ Made \cup {n} = 1..n
  BY <1>2 DEF Call
<1>4. /\ calls' \in Seq(CallRecords) /\ Len(calls') = n
      /\ calls'[n] = c /\ \A d \in Made : calls'[d] = calls[d]
  BY <1>1, <1>2, AppendProperties DEF Call, TypeOK
<1>5. Made' = Made \cup {n}
  BY <1>3, <1>4, LenProperties DEF Made
<1>6. fate[<<n, "ask">>] = "unsent" /\ fate[<<n, "value">>] = "unsent"
  BY <1>1, <1>3 DEF CallsInv
<1>7. c.by \in Parties /\ c.to \in Actors /\ c.back \in Actors
  BY <1>2 DEF CallRecords
<1>8. Owners(c.to) # {} \/ Busy(c.to)
  <2>1. CASE c.to \in held[c.by]
    BY <1>7, <2>1 DEF Owners
  <2>2. CASE c.to = c.by
    <3>1. \E m \in Messages : Handling(c.by, m)
      BY <1>7, <2>2, ActorsAreNotTasks DEF Call, Acts
    <3>2. QED
      BY <2>2, <3>1 DEF Busy
  <2>3. QED
    BY <2>1, <2>2 DEF Call, Knows
<1>9. c.way # "drop" => Sends(<<n, "ask">>, c.to)
  BY <1>3, <1>6, <1>7, <1>8, Sorts DEF Call, Sends
<1>10. QED
  BY <1>2, <1>3, <1>4, <1>5, <1>6, <1>9 DEF Call

\* The other steps that send: the drop of an envelope, an outcome, a forwarded value.
LEMMA SendEffect ==
  ASSUME IInv,
         \/ \E c \in Made : Send(c)
         \/ \E a, b \in Actors : SendOutcome(a, b)
         \/ \E a \in Actors, c \in Made : Forward(a, c)
  PROVE  /\ \E m \in Messages, b \in Actors : Sends(m, b) /\ IsFor(m, b) /\ m \in Owners(b)
         /\ UNCHANGED <<calls, waits>>
<1>1. TypeOK /\ Made \subseteq 1..MaxCalls /\ \A c \in Made : calls[c] \in CallRecords
  BY Typing DEF IInv
<1>2. ASSUME NEW c \in Made, Send(c)
      PROVE  /\ Sends(<<c, "ask">>, calls[c].to)
             /\ IsFor(<<c, "ask">>, calls[c].to) /\ <<c, "ask">> \in Owners(calls[c].to)
  <2>1. calls[c].to \in Actors /\ c \in 1..MaxCalls
    BY <1>1 DEF CallRecords
  <2>2. <<c, "ask">> \in Owners(calls[c].to)
    BY <1>2 DEF Send, Owners, Asking
  <2>3. QED
    BY <1>2, <2>1, <2>2, Sorts DEF Send, Sends, IsFor
<1>3. ASSUME NEW a \in Actors, NEW b \in Actors, SendOutcome(a, b)
      PROVE  /\ Sends(<<a, "outcome">>, b)
             /\ IsFor(<<a, "outcome">>, b) /\ <<a, "outcome">> \in Owners(b)
  <2>1. <<a, "outcome">> \in Owners(b)
    BY <1>3 DEF SendOutcome, Owners, Watching
  <2>2. QED
    BY <1>3, <2>1, Sorts DEF SendOutcome, Sends, IsFor
<1>4. ASSUME NEW a \in Actors, NEW c \in Made, Forward(a, c)
      PROVE  /\ Sends(<<c, "value">>, calls[c].back)
             /\ IsFor(<<c, "value">>, calls[c].back) /\ <<c, "value">> \in Owners(calls[c].back)
  <2>1. calls[c].back \in Actors /\ c \in 1..MaxCalls
    BY <1>1 DEF CallRecords
  <2>2. <<c, "value">> \in Owners(calls[c].back)
    BY <1>4 DEF Forward, Owners, Forwarding, Handling
  <2>3. fate[<<c, "ask">>] = "handling" /\ <<c, "value">>[1] = c
    BY <1>4 DEF Forward, Handling
  <2>4. QED
    BY <1>4, <2>1, <2>2, <2>3, Sorts DEF Forward, Sends, IsFor
<1>5. QED
  <2>1. UNCHANGED <<calls, waits>>
    BY DEF Send, SendOutcome, Forward
  <2>2. \E m \in Messages, b \in Actors : Sends(m, b) /\ IsFor(m, b) /\ m \in Owners(b)
    BY <1>2, <1>3, <1>4 DEF Sends
  <2>3. QED
    BY <2>1, <2>2

\* The end of a handler settles the message it handled: a value that is to be
\* forwarded was sent if the handler returned, and was not if it panicked.
Settles(a, m) ==
  /\ Handling(a, m) /\ waits[a] = 0
  /\ \/ /\ fate' = [fate EXCEPT ![m] = "done"]
        /\ m \in Asks /\ calls[m[1]].way = "forward_to" => Forwarded(m)
     \/ /\ fate' = [fate EXCEPT ![m] = "failed"]
        /\ ~Forwarded(m) /\ phase' = [phase EXCEPT ![a] = "ending"]
  /\ UNCHANGED mailbox

\* A call sends its message at once, unless its envelope is dropped.
LEMMA CallSends ==
  ASSUME IInv, NEW c \in program.calls, Call(c)
  PROVE  \/ UNCHANGED <<fate, mailbox>>
         \/ \E m \in Messages, b \in Actors : Sends(m, b) /\ IsFor(m, b)'
<1>1. PICK n \in 1..MaxCalls :
        /\ n \in Made' /\ calls'[n] = c
        /\ IF c.way = "drop" THEN UNCHANGED <<fate, mailbox>> ELSE Sends(<<n, "ask">>, c.to)
  BY CallEffect
<1>2. IsFor(<<n, "ask">>, c.to)'
  BY <1>1, Sorts DEF IsFor
<1>3. QED
  BY <1>1, <1>2 DEF Sends

\* So do the other steps that send.
LEMMA OthersSend ==
  ASSUME IInv,
         \/ \E c \in Made : Send(c)
         \/ \E a, b \in Actors : SendOutcome(a, b)
         \/ \E a \in Actors, c \in Made : Forward(a, c)
  PROVE  \E m \in Messages, b \in Actors : Sends(m, b) /\ IsFor(m, b)'
<1>1. PICK m \in Messages, b \in Actors : Sends(m, b) /\ IsFor(m, b) /\ UNCHANGED calls
  BY SendEffect
<1>2. IsFor(m, b)'
  BY <1>1 DEF IsFor, Made, Sends, linkVars
<1>3. QED
  BY <1>1, <1>2

\* What a step can do to messages.
LEMMA FateCases ==
  ASSUME IInv, [Next]_vars
  PROVE  \/ UNCHANGED <<fate, mailbox>>
         \/ \E m \in Messages, b \in Actors : Sends(m, b) /\ IsFor(m, b)'
         \/ \E a \in Actors : Take(a)
         \/ \E a \in Actors, m \in Messages : Settles(a, m)
         \/ \E a \in Actors : End(a)
<1>1. ASSUME NEW a \in Actors, NEW m \in Messages, HandlerReturns(a, m) \/ HandlerPanics(a, m)
      PROVE  Settles(a, m)
  BY <1>1 DEF HandlerReturns, HandlerPanics, Settles
<1>2. CASE \/ \E p \in Parties, b \in Actors : Release(p, b)
           \/ \E p \in Parties : Resume(p)
           \/ \E a \in Actors : ContextStop(a) \/ Leave(a) \/ DropState(a)
           \/ UNCHANGED vars
  BY <1>2 DEF Release, Resume, ContextStop, Leave, DropState, vars, callVars
<1>3. QED
  BY <1>1, <1>2, CallSends, OthersSend DEF Next, HandlerEnds

\* Recipients do not change; those of new messages are new.
LEMMA AddressStep ==
  ASSUME IInv, [Next]_vars, NEW m \in Messages, NEW a \in Actors
  PROVE  /\ IsFor(m, a) => IsFor(m, a)'
         /\ fate[m] # "unsent" => (IsFor(m, a)' <=> IsFor(m, a))
<1>1. UNCHANGED watcher
  BY DEF Next, vars, linkVars, HandlerEnds, Release, Call, Send, SendOutcome, Resume, Take,
     Forward, HandlerReturns, HandlerPanics, ContextStop, Leave, DropState, End
<1>2. CASE UNCHANGED calls
  BY <1>1, <1>2 DEF IsFor, Made
<1>3. ASSUME NEW c \in program.calls, Call(c)
      PROVE  /\ IsFor(m, a) => IsFor(m, a)'
             /\ fate[m] # "unsent" => (IsFor(m, a)' <=> IsFor(m, a))
  <2>1. PICK n \in 1..MaxCalls :
          /\ Made' = Made \cup {n} /\ n \notin Made /\ \A d \in Made : calls'[d] = calls[d]
          /\ fate[<<n, "ask">>] = "unsent" /\ fate[<<n, "value">>] = "unsent"
    BY <1>3, CallEffect
  <2>2. m \in Asks \cup Values /\ fate[m] # "unsent" => m[1] # n
    BY <2>1, Sorts
  <2>3. QED
    BY <1>1, <2>1, <2>2 DEF IsFor
<1>4. QED
  BY <1>2, <1>3 DEF Next, vars, HandlerEnds, Release, callVars, Send, SendOutcome, Resume, Take,
     Forward, HandlerReturns, HandlerPanics, ContextStop, Leave, DropState, End

\* Sending in terms of fates and mailboxes.
LEMMA SendsEffect ==
  ASSUME IInv, NEW m \in Messages, NEW b \in Actors, Sends(m, b)
  PROVE  /\ fate' = [fate EXCEPT ![m] = IF phase[b] = "ended" THEN "rejected" ELSE "queued"]
         /\ mailbox' \in [Actors -> Seq(Messages)]
         /\ \A a \in Actors \ {b} : mailbox'[a] = mailbox[a]
         /\ IsInjective(mailbox'[b])
         /\ Range(mailbox'[b]) = IF phase[b] = "ended" THEN Range(mailbox[b])
                                 ELSE Range(mailbox[b]) \cup {m}
<1>1. mailbox \in [Actors -> Seq(Messages)] /\ fate[m] = "unsent"
      /\ IsInjective(mailbox[b]) /\ Range(mailbox[b]) = Waiting(b)
  BY DEF IInv, TypeOK, HandlersInv, Sends
<1>2. m \notin Range(mailbox[b])
  BY <1>1 DEF Waiting
<1>3. CASE phase[b] = "ended"
  BY <1>1, <1>3 DEF Sends, Post
<1>4. CASE phase[b] # "ended"
  <2>1. /\ Append(mailbox[b], m) \in Seq(Messages)
        /\ Range(Append(mailbox[b], m)) = Range(mailbox[b]) \cup {m}
        /\ IsInjective(Append(mailbox[b], m))
    BY <1>1, <1>2, AppendEffect
  <2>2. QED
    BY <1>1, <1>4, <2>1 DEF Sends, Post
<1>5. QED
  BY <1>3, <1>4

\* Taking in terms of fates and mailboxes.
LEMMA TakeEffect ==
  ASSUME IInv, NEW a \in Actors, Take(a)
  PROVE  \E m \in Waiting(a) :
           /\ fate' = [fate EXCEPT ![m] = "handling"]
           /\ mailbox' \in [Actors -> Seq(Messages)]
           /\ \A b \in Actors \ {a} : mailbox'[b] = mailbox[b]
           /\ IsInjective(mailbox'[a])
           /\ Range(mailbox'[a]) = Range(mailbox[a]) \ {m}
<1>1. mailbox \in [Actors -> Seq(Messages)] /\ mailbox[a] # <<>>
      /\ IsInjective(mailbox[a]) /\ Range(mailbox[a]) = Waiting(a)
  BY DEF IInv, TypeOK, HandlersInv, Take
<1>2. /\ Tail(mailbox[a]) \in Seq(Messages) /\ Head(mailbox[a]) \in Range(mailbox[a])
      /\ Range(Tail(mailbox[a])) = Range(mailbox[a]) \ {Head(mailbox[a])}
      /\ IsInjective(Tail(mailbox[a]))
  BY <1>1, TailEffect
<1>3. QED
  BY <1>1, <1>2 DEF Take

-----------------------------------------------------------------------------
(* The invariant                                                           *)

Fates == {"unsent", "queued", "handling", "done", "failed", "lost", "rejected"}

\* A mailbox holds what waits for its actor, once.
LEMMA MailboxStep ==
  ASSUME IInv, [Next]_vars
  PROVE  /\ fate' \in [Messages -> Fates]
         /\ mailbox' \in [Actors -> Seq(Messages)]
         /\ \A a \in Actors : Range(mailbox'[a]) = Waiting(a)' /\ IsInjective(mailbox'[a])
<1>1. /\ fate \in [Messages -> Fates] /\ mailbox \in [Actors -> Seq(Messages)]
      /\ \A a \in Actors : Range(mailbox[a]) = Waiting(a) /\ IsInjective(mailbox[a])
  BY DEF IInv, TypeOK, HandlersInv, Fates
<1>2. \A m \in Messages, a \in Actors :
        fate[m] # "unsent" => (IsFor(m, a)' <=> IsFor(m, a))
  BY AddressStep
<1>3. \A m \in Messages : \A a, b \in Actors : IsFor(m, a) /\ IsFor(m, b) => a = b
  BY OneRecipient DEF IInv
<1>4. CASE UNCHANGED <<fate, mailbox>>
  <2>1. \A a \in Actors : Waiting(a)' = Waiting(a)
    BY <1>2, <1>4 DEF Waiting
  <2>2. QED
    BY <1>1, <1>4, <2>1
<1>5. ASSUME NEW m \in Messages, NEW b \in Actors, Sends(m, b), IsFor(m, b)'
      PROVE  /\ fate' \in [Messages -> Fates] /\ mailbox' \in [Actors -> Seq(Messages)]
             /\ \A a \in Actors : Range(mailbox'[a]) = Waiting(a)' /\ IsInjective(mailbox'[a])
  <2>1. /\ fate' = [fate EXCEPT ![m] = IF phase[b] = "ended" THEN "rejected" ELSE "queued"]
        /\ mailbox' \in [Actors -> Seq(Messages)]
        /\ \A a \in Actors \ {b} : mailbox'[a] = mailbox[a]
        /\ IsInjective(mailbox'[b])
        /\ Range(mailbox'[b]) = IF phase[b] = "ended" THEN Range(mailbox[b])
                                ELSE Range(mailbox[b]) \cup {m}
    BY <1>5, SendsEffect
  <2>2. fate[m] = "unsent" /\ fate' \in [Messages -> Fates]
    BY <1>1, <1>5, <2>1 DEF Sends, Fates
  <2>3. \A n \in Messages \ {m} : fate'[n] = fate[n]
    BY <1>1, <2>1
  <2>4. fate'[m] = IF phase[b] = "ended" THEN "rejected" ELSE "queued"
    BY <1>1, <2>1
  <2>5. ASSUME NEW a \in Actors
        PROVE  Waiting(a)' = IF IsFor(m, a)' /\ phase[b] # "ended"
                             THEN Waiting(a) \cup {m} ELSE Waiting(a)
    <3>1. ASSUME NEW n \in Messages \ {m}
          PROVE  IsFor(n, a)' /\ fate'[n] = "queued" <=> IsFor(n, a) /\ fate[n] = "queued"
      <4>1. fate'[n] = fate[n] /\ (fate[n] = "queued" => (IsFor(n, a)' <=> IsFor(n, a)))
        BY <1>2, <2>3
      <4>2. QED
        BY <4>1
    <3>2. fate'[m] = "queued" <=> phase[b] # "ended"
      BY <2>4
    <3>3. QED
      BY <2>2, <3>1, <3>2 DEF Waiting
  <2>6. \A a \in Actors : IsFor(m, a)' => a = b
    <3>1. TypeOK /\ CallsInv
      BY DEF IInv
    <3>2. ASSUME NEW a \in Actors, IsFor(m, a)' PROVE a = b
      <4>1. CASE m \in Outcomes
        <5>1. UNCHANGED watcher /\ m[1] \in Actors
          BY <1>5, <4>1, Sorts DEF Sends, linkVars
        <5>2. a \in program.watcher[m[1]] /\ b \in program.watcher[m[1]]
          BY <1>5, <3>1, <3>2, <4>1, <5>1, Sorts DEF IsFor, CallsInv
        <5>3. QED
          BY <3>1, <5>1, <5>2, OneExitHandle DEF TypeOK
      <4>2. CASE m \notin Outcomes
        BY <1>5, <3>2, <4>2, Sorts DEF IsFor
      <4>3. QED
        BY <4>1, <4>2
    <3>3. QED
      BY <3>2
  <2>7. ASSUME NEW a \in Actors PROVE Range(mailbox'[a]) = Waiting(a)'
    <3>1. Range(mailbox[a]) = Waiting(a)
      BY <1>1
    <3>2. IsFor(m, a)' <=> a = b
      BY <1>5, <2>6
    <3>3. CASE a = b
      <4>1. Waiting(a)' = IF phase[b] # "ended" THEN Waiting(a) \cup {m} ELSE Waiting(a)
        BY <2>5, <3>2, <3>3
      <4>2. QED
        BY <2>1, <3>1, <3>3, <4>1
    <3>4. CASE a # b
      BY <2>1, <2>5, <3>1, <3>2, <3>4
    <3>5. QED
      BY <3>3, <3>4
  <2>8. QED
    BY <1>1, <2>1, <2>2, <2>7
<1>6. ASSUME NEW a \in Actors, Take(a)
      PROVE  /\ fate' \in [Messages -> Fates] /\ mailbox' \in [Actors -> Seq(Messages)]
             /\ \A b \in Actors : Range(mailbox'[b]) = Waiting(b)' /\ IsInjective(mailbox'[b])
  <2>1. PICK m \in Waiting(a) :
          /\ fate' = [fate EXCEPT ![m] = "handling"]
          /\ mailbox' \in [Actors -> Seq(Messages)]
          /\ \A b \in Actors \ {a} : mailbox'[b] = mailbox[b]
          /\ IsInjective(mailbox'[a])
          /\ Range(mailbox'[a]) = Range(mailbox[a]) \ {m}
    BY <1>6, TakeEffect
  <2>2. m \in Messages /\ IsFor(m, a) /\ fate[m] = "queued"
    BY <2>1 DEF Waiting
  <2>3. fate' \in [Messages -> Fates] /\ fate'[m] = "handling"
        /\ \A n \in Messages \ {m} : fate'[n] = fate[n]
    BY <1>1, <2>1, <2>2 DEF Fates
  <2>4. \A b \in Actors, n \in Messages : n \in Waiting(b)' <=> n \in Waiting(b) /\ n # m
    BY <1>2, <2>2, <2>3 DEF Waiting
  <2>5. \A b \in Actors : m \in Waiting(b) => b = a
    BY <1>3, <2>2 DEF Waiting
  <2>6. \A b \in Actors : Waiting(b) \subseteq Messages /\ Waiting(b)' \subseteq Messages
    BY DEF Waiting
  <2>7. ASSUME NEW b \in Actors PROVE Range(mailbox'[b]) = Waiting(b)'
    <3>1. Waiting(b)' = Waiting(b) \ {m}
      BY <2>4, <2>6
    <3>2. Range(mailbox[b]) = Waiting(b)
      BY <1>1
    <3>3. CASE b = a
      BY <2>1, <3>1, <3>2, <3>3
    <3>4. CASE b # a
      <4>1. mailbox'[b] = mailbox[b] /\ m \notin Waiting(b)
        BY <2>1, <2>5, <3>4
      <4>2. QED
        BY <3>1, <3>2, <4>1
    <3>5. QED
      BY <3>3, <3>4
  <2>8. QED
    BY <1>1, <2>1, <2>3, <2>7
<1>7. ASSUME NEW a \in Actors, NEW m \in Messages, Settles(a, m)
      PROVE  /\ fate' \in [Messages -> Fates] /\ mailbox' \in [Actors -> Seq(Messages)]
             /\ \A b \in Actors : Range(mailbox'[b]) = Waiting(b)' /\ IsInjective(mailbox'[b])
  <2>1. fate[m] = "handling" /\ fate'[m] \in {"done", "failed"} /\ UNCHANGED mailbox
        /\ fate' \in [Messages -> Fates] /\ \A n \in Messages \ {m} : fate'[n] = fate[n]
    BY <1>1, <1>7 DEF Settles, Handling, Fates
  <2>2. \A b \in Actors : Waiting(b)' = Waiting(b)
    BY <1>2, <2>1 DEF Waiting
  <2>3. QED
    BY <1>1, <2>1, <2>2
<1>8. ASSUME NEW a \in Actors, End(a)
      PROVE  /\ fate' \in [Messages -> Fates] /\ mailbox' \in [Actors -> Seq(Messages)]
             /\ \A b \in Actors : Range(mailbox'[b]) = Waiting(b)' /\ IsInjective(mailbox'[b])
  <2>1. /\ mailbox' = [mailbox EXCEPT ![a] = <<>>]
        /\ fate' = [m \in Messages |-> IF m \in Waiting(a) THEN "lost" ELSE fate[m]]
    BY <1>8 DEF End
  <2>2. mailbox' \in [Actors -> Seq(Messages)] /\ fate' \in [Messages -> Fates]
    BY <1>1, <2>1, EmptySeq DEF Fates
  <2>3. Range(<<>>) = {} /\ IsInjective(<<>>)
    BY DEF Range, IsInjective
  <2>4. Waiting(a)' = {}
    BY <1>2, <2>1 DEF Waiting
  <2>5. \A b \in Actors \ {a} : Waiting(b)' = Waiting(b)
    BY <1>2, <1>3, <2>1 DEF Waiting
  <2>6. QED
    BY <1>1, <2>1, <2>2, <2>3, <2>4, <2>5
<1>9. QED
  BY <1>4, <1>5, <1>6, <1>7, <1>8, FateCases

\* Programs do not change, and handles are only dropped.
LEMMA LinksStep ==
  ASSUME IInv, [Next]_vars
  PROVE  /\ UNCHANGED <<program, watcher>>
         /\ held' \in [Parties -> SUBSET Actors]
         /\ \A p \in Parties : held'[p] \subseteq held[p]
<1>1. held \in [Parties -> SUBSET Actors] /\ Actors \subseteq Parties
  BY DEF IInv, TypeOK, Parties
<1>2. ASSUME NEW p \in Parties, NEW b \in Actors, Release(p, b)
      PROVE  /\ UNCHANGED <<program, watcher>> /\ held' \in [Parties -> SUBSET Actors]
             /\ \A q \in Parties : held'[q] \subseteq held[q]
  BY <1>1, <1>2 DEF Release
<1>3. ASSUME NEW a \in Actors, DropState(a)
      PROVE  /\ UNCHANGED <<program, watcher>> /\ held' \in [Parties -> SUBSET Actors]
             /\ \A q \in Parties : held'[q] \subseteq held[q]
  BY <1>1, <1>3 DEF DropState
<1>4. ASSUME UNCHANGED linkVars
      PROVE  /\ UNCHANGED <<program, watcher>> /\ held' \in [Parties -> SUBSET Actors]
             /\ \A q \in Parties : held'[q] \subseteq held[q]
  BY <1>1, <1>4 DEF linkVars
<1>5. QED
  BY <1>2, <1>3, <1>4 DEF Next, vars, linkVars, HandlerEnds, Call, Send, SendOutcome, Resume,
     Take, Forward, HandlerReturns, HandlerPanics, ContextStop, Leave, End

\* What a step can do to one message: a mailbox takes or refuses it, a handler is
\* begun or ended with it, or it goes with its mailbox.
LEMMA FateStep ==
  ASSUME IInv, [Next]_vars, NEW m \in Messages
  PROVE  \/ fate'[m] = fate[m]
         \/ /\ fate[m] = "unsent"
            /\ \E b \in Actors :
                 /\ Sends(m, b) /\ IsFor(m, b)'
                 /\ fate'[m] = IF phase[b] = "ended" THEN "rejected" ELSE "queued"
         \/ \E a \in Actors : Take(a) /\ m \in Waiting(a) /\ fate'[m] = "handling"
         \/ \E a \in Actors : Settles(a, m) /\ fate'[m] \in {"done", "failed"}
         \/ \E a \in Actors : End(a) /\ m \in Waiting(a) /\ fate'[m] = "lost"
<1>1. fate \in [Messages -> Fates]
  BY DEF IInv, TypeOK, Fates
<1>2. ASSUME NEW n \in Messages, NEW b \in Actors, Sends(n, b), IsFor(n, b)'
      PROVE  \/ fate'[m] = fate[m]
             \/ /\ n = m /\ fate[m] = "unsent"
                /\ fate'[m] = IF phase[b] = "ended" THEN "rejected" ELSE "queued"
  BY <1>1, <1>2, SendsEffect DEF Sends
<1>3. ASSUME NEW a \in Actors, Take(a)
      PROVE  fate'[m] = fate[m] \/ (m \in Waiting(a) /\ fate'[m] = "handling")
  <2>1. PICK n \in Waiting(a) : fate' = [fate EXCEPT ![n] = "handling"]
    BY <1>3, TakeEffect
  <2>2. QED
    BY <1>1, <2>1
<1>4. ASSUME NEW a \in Actors, NEW n \in Messages, Settles(a, n)
      PROVE  fate'[m] = fate[m] \/ (n = m /\ fate'[m] \in {"done", "failed"})
  BY <1>1, <1>4 DEF Settles
<1>5. ASSUME NEW a \in Actors, End(a)
      PROVE  fate'[m] = fate[m] \/ (m \in Waiting(a) /\ fate'[m] = "lost")
  BY <1>1, <1>5 DEF End
<1>6. QED
  BY <1>2, <1>3, <1>4, <1>5, FateCases

\* The initial state satisfies the invariant.
LEMMA InitIInv == Init => IInv
<1> SUFFICES ASSUME Init PROVE IInv
  OBVIOUS
<1>1. \A m \in Messages : fate[m] = "unsent"
  BY DEF Init
<1>2. Range(<<>>) = {} /\ IsInjective(<<>>)
  BY DEF Range, IsInjective
<1>3. calls \in Seq(CallRecords) /\ Len(calls) = 0 /\ Made = {}
  BY EmptySeq, LenProperties DEF Init, Made
<1>4. TypeOK
  <2>1. \A a \in Actors : Waiting(a) = {}
    BY <1>1 DEF Waiting
  <2>2. \A a \in Actors : Range(mailbox[a]) = {}
    BY <1>2 DEF Init
  <2>3. /\ program \in Programs /\ watcher \in [Actors -> SUBSET Actors]
        /\ program.held \in [Actors -> SUBSET Actors]
    BY ProgramsJoinActors DEF Init
  <2>4. held \in [Parties -> SUBSET Actors]
    BY <2>3 DEF Init
  <2>5. mailbox \in [Actors -> Seq(Messages)]
    BY EmptySeq DEF Init
  <2>6. \A a \in Actors : Range(mailbox[a]) = Waiting(a)
    BY <2>1, <2>2
  <2>7. /\ fate \in [Messages -> {"unsent", "queued", "handling", "done", "failed",
                                 "lost", "rejected"}]
        /\ waits \in [Parties -> 0..MaxCalls]
    BY MaxCallsIsNat DEF Init
  <2>8. /\ phase \in [Actors -> {"serving", "ending", "ended"}]
        /\ stopped \subseteq Actors /\ backlog \in [Actors -> SUBSET Messages]
    BY DEF Init
  <2>9. QED
    BY <1>3, <2>3, <2>4, <2>5, <2>6, <2>7, <2>8, MaxCallsIsNat DEF TypeOK
<1>5. CallsInv
  <2>1. \A c \in 1..MaxCalls, kind \in {"ask", "value"} : fate[<<c, kind>>] = "unsent"
    BY <1>1, Sorts
  <2>2. QED
    BY <2>1 DEF Init, CallsInv
<1>6. HandlersInv
  BY <1>1, <1>2 DEF HandlersInv, Init, Handling, Busy, Parties
<1>7. AbandonedInv /\ OnlyFailedActorsRefuse
  BY <1>1 DEF AbandonedInv, OnlyFailedActorsRefuse, Init
<1>8. FailuresInv /\ ForwardInv /\ OrderInv
  BY <1>1, <1>3 DEF FailuresInv, ForwardInv, OrderInv
<1>9. QED
  BY <1>4, <1>5, <1>6, <1>7, <1>8 DEF IInv

\* Calls that were made stay as they were.
LEMMA CallStep ==
  ASSUME IInv, [Next]_vars
  PROVE  /\ Made \subseteq Made'
         /\ calls' \in Seq(CallRecords) /\ Len(calls') <= MaxCalls
         /\ \A d \in Made : calls'[d] = calls[d]
<1>1. calls \in Seq(CallRecords) /\ Len(calls) <= MaxCalls /\ MaxCalls \in Nat
  BY MaxCallsIsNat DEF IInv, TypeOK
<1>2. ASSUME NEW c \in program.calls, Call(c)
      PROVE  /\ Made \subseteq Made'
             /\ calls' \in Seq(CallRecords) /\ Len(calls') <= MaxCalls
             /\ \A d \in Made : calls'[d] = calls[d]
  <2>1. PICK n \in 1..MaxCalls :
          /\ n \notin Made /\ Made' = Made \cup {n} /\ calls' \in Seq(CallRecords)
          /\ Len(calls') = n /\ \A d \in Made : calls'[d] = calls[d]
    BY <1>2, CallEffect
  <2>2. QED
    BY <1>1, <2>1
<1>3. CASE UNCHANGED calls
  BY <1>1, <1>3 DEF Made
<1>4. QED
  BY <1>2, <1>3 DEF Next, vars, HandlerEnds, Release, callVars, Send, SendOutcome, Resume, Take,
     Forward, HandlerReturns, HandlerPanics, ContextStop, Leave, DropState, End

\* Who awaits what changes when a handler or task calls, and when its await ends.
LEMMA WaitStep ==
  ASSUME IInv, [Next]_vars, NEW p \in Parties
  PROVE  /\ waits' \in [Parties -> 0..MaxCalls]
         /\ waits'[p] # 0 => waits'[p] \in Made'
         /\ \/ waits'[p] = waits[p]
            \/ Acts(p) /\ \E c \in program.calls : Call(c)
            \/ waits'[p] = 0 /\ waits[p] # 0
               /\ fate[<<waits[p], "ask">>] \notin {"queued", "handling"}
<1>1. /\ waits \in [Parties -> 0..MaxCalls] /\ \A q \in Parties : waits[q] # 0 => waits[q] \in Made
      /\ MaxCalls \in Nat /\ Made \subseteq Made'
  BY CallStep, MaxCallsIsNat DEF IInv, TypeOK, CallsInv
<1>2. ASSUME NEW c \in program.calls, Call(c)
      PROVE  /\ waits' \in [Parties -> 0..MaxCalls]
             /\ waits'[p] # 0 => waits'[p] \in Made'
             /\ waits'[p] = waits[p] \/ Acts(p)
  <2>1. PICK n \in 1..MaxCalls :
          /\ n \in Made' /\ waits' = [waits EXCEPT ![c.by] = IF c.way = "await" THEN n ELSE 0]
    BY <1>2, CallEffect
  <2>2. Acts(c.by)
    BY <1>2 DEF Call
  <2>3. \A q \in Parties : waits'[q] = waits[q] \/ (q = c.by /\ waits'[q] \in {0, n})
    BY <1>1, <2>1
  <2>4. waits' \in [Parties -> 0..MaxCalls]
    <3>1. (IF c.way = "await" THEN n ELSE 0) \in 0..MaxCalls
      BY <1>1
    <3>2. QED
      BY <1>1, <2>1, <3>1
  <2>5. QED
    BY <1>1, <2>1, <2>2, <2>3, <2>4
<1>3. ASSUME NEW q \in Parties, Resume(q)
      PROVE  /\ waits' \in [Parties -> 0..MaxCalls]
             /\ waits'[p] # 0 => waits'[p] \in Made'
             /\ \/ waits'[p] = waits[p]
                \/ waits'[p] = 0 /\ waits[p] # 0
                   /\ fate[<<waits[p], "ask">>] \notin {"queued", "handling"}
  BY <1>1, <1>3 DEF Resume
<1>4. CASE UNCHANGED waits
  BY <1>1, <1>4
<1>5. QED
  BY <1>2, <1>3, <1>4 DEF Next, vars, HandlerEnds, Release, callVars, Send, SendOutcome, Take,
     Forward, HandlerReturns, HandlerPanics, ContextStop, Leave, DropState, End

\* Where an actor is in its life, and what it was asked to stop before.
LEMMA LifeStep ==
  ASSUME IInv, [Next]_vars, NEW a \in Actors
  PROVE  /\ phase' \in [Actors -> {"serving", "ending", "ended"}]
         /\ stopped' \subseteq Actors /\ stopped \subseteq stopped'
         /\ backlog' \in [Actors -> SUBSET Messages]
         /\ a \notin stopped' => backlog'[a] = {}
         /\ \/ phase'[a] = phase[a]
            \/ Leave(a)
            \/ \E m \in Messages : HandlerPanics(a, m)
            \/ phase[a] = "ending" /\ phase'[a] = "ended"
<1>1. /\ phase \in [Actors -> {"serving", "ending", "ended"}] /\ stopped \subseteq Actors
      /\ backlog \in [Actors -> SUBSET Messages]
      /\ \A b \in Actors : b \notin stopped => backlog[b] = {}
  BY DEF IInv, TypeOK, HandlersInv
<1> DEFINE P == /\ phase' \in [Actors -> {"serving", "ending", "ended"}]
                /\ stopped' \subseteq Actors /\ stopped \subseteq stopped'
                /\ backlog' \in [Actors -> SUBSET Messages]
                /\ a \notin stopped' => backlog'[a] = {}
<1>2. ASSUME NEW b \in Actors, NEW m \in Messages, HandlerPanics(b, m)
      PROVE  P /\ (phase'[a] = phase[a] \/ a = b)
  BY <1>1, <1>2 DEF HandlerPanics
<1>3. ASSUME NEW b \in Actors, Leave(b)
      PROVE  P /\ (phase'[a] = phase[a] \/ a = b)
  BY <1>1, <1>3 DEF Leave
<1>4. ASSUME NEW b \in Actors, End(b)
      PROVE  P /\ (phase'[a] = phase[a] \/ (phase[a] = "ending" /\ phase'[a] = "ended"))
  BY <1>1, <1>4 DEF End
<1>5. ASSUME NEW b \in Actors, ContextStop(b)
      PROVE  P /\ phase'[a] = phase[a]
  <2>1. Waiting(b) \subseteq Messages
    BY DEF Waiting
  <2>2. QED
    BY <1>1, <1>5, <2>1 DEF ContextStop
<1>6. CASE UNCHANGED lifeVars
  BY <1>1, <1>6 DEF lifeVars
<1>7. QED
  BY <1>2, <1>3, <1>4, <1>5, <1>6 DEF Next, vars, lifeVars, HandlerEnds, Release, Call, Send,
     SendOutcome, Resume, Take, Forward, HandlerReturns, DropState

\* Every variable keeps its type, and mailboxes go on to agree with the fates.
LEMMA TypeStep == IInv /\ [Next]_vars => TypeOK'
<1> SUFFICES ASSUME IInv, [Next]_vars PROVE TypeOK'
  OBVIOUS
<1>1. TypeOK
  BY DEF IInv
<1>2. /\ fate' \in [Messages -> Fates] /\ mailbox' \in [Actors -> Seq(Messages)]
      /\ \A a \in Actors : Range(mailbox'[a]) = Waiting(a)'
  BY MailboxStep
<1>3. /\ program' \in Programs /\ held' \in [Parties -> SUBSET Actors]
      /\ watcher' \in [Actors -> SUBSET Actors]
  BY <1>1, LinksStep DEF TypeOK
<1>4. calls' \in Seq(CallRecords) /\ Len(calls') <= MaxCalls
  BY CallStep
<1>5. waits' \in [Parties -> 0..MaxCalls]
  <2>1. CASE Parties = {}
    BY <1>1, <2>1 DEF TypeOK, Next, vars, callVars, HandlerEnds, Release, Call, Send, SendOutcome,
       Resume, Take, Forward, HandlerReturns, HandlerPanics, ContextStop, Leave, DropState, End
  <2>2. CASE Parties # {}
    BY <2>2, WaitStep
  <2>3. QED
    BY <2>1, <2>2
<1>6. /\ phase' \in [Actors -> {"serving", "ending", "ended"}] /\ stopped' \subseteq Actors
      /\ backlog' \in [Actors -> SUBSET Messages]
  <2>1. CASE Actors = {}
    BY <1>1, <2>1 DEF TypeOK, Next, vars, lifeVars, HandlerEnds, Release, Call, Send, SendOutcome,
       Resume, CallRecords
  <2>2. CASE Actors # {}
    BY <2>2, LifeStep
  <2>3. QED
    BY <2>1, <2>2
<1>7. QED
  BY <1>2, <1>3, <1>4, <1>5, <1>6 DEF TypeOK, Fates

\* A message has a history only if its call was made.
LEMMA CallsStep == IInv /\ [Next]_vars => CallsInv'
<1> SUFFICES ASSUME IInv, [Next]_vars PROVE CallsInv'
  OBVIOUS
<1>1. CallsInv
  BY DEF IInv
<1>2. watcher' = program'.watcher
  BY <1>1, LinksStep DEF CallsInv
<1>3. ASSUME NEW c \in 1..MaxCalls, NEW kind \in {"ask", "value"}, c \notin Made'
      PROVE  fate'[<<c, kind>>] = "unsent"
  <2>1. <<c, kind>> \in Asks \cup Values /\ <<c, kind>> \in Messages /\ <<c, kind>> \notin Outcomes
    BY Sorts
  <2>2. fate[<<c, kind>>] = "unsent"
    BY <1>1, <1>3, CallStep DEF CallsInv
  <2>3. \A b \in Actors : ~IsFor(<<c, kind>>, b)'
    BY <1>3, <2>1 DEF IsFor
  <2>4. QED
    BY <2>1, <2>2, <2>3, FateStep DEF Waiting, Settles, Handling
<1>4. \A p \in Parties : waits'[p] # 0 => waits'[p] \in Made'
  BY WaitStep
<1>5. QED
  BY <1>2, <1>3, <1>4 DEF CallsInv

\* A handler that runs after a step ran before it, or was begun by it.
LEMMA HandlingStep ==
  ASSUME IInv, [Next]_vars, NEW a \in Actors, NEW m \in Messages, Handling(a, m)'
  PROVE  Handling(a, m) \/ Take(a)
<1>1. fate'[m] = "handling" /\ IsFor(m, a)'
  BY DEF Handling
<1>2. CASE fate'[m] = fate[m]
  BY <1>1, <1>2, AddressStep DEF Handling
<1>3. ASSUME NEW b \in Actors, Take(b), m \in Waiting(b)
      PROVE  Take(a)
  <2>1. IsFor(m, b) /\ fate[m] = "queued" /\ IsFor(m, a)
    BY <1>1, <1>3, AddressStep DEF Waiting
  <2>2. a = b
    BY <2>1, OneRecipient DEF IInv
  <2>3. QED
    BY <1>3, <2>2
<1>4. QED
  BY <1>1, <1>2, <1>3, FateStep

\* A handler runs on unless it ends by itself, which it does not while it awaits.
LEMMA HandlingStays ==
  ASSUME IInv, [Next]_vars, NEW a \in Actors, NEW m \in Messages, Handling(a, m)
  PROVE  Handling(a, m)' \/ Settles(a, m)
<1>1. fate[m] = "handling" /\ IsFor(m, a) /\ IsFor(m, a)'
  BY AddressStep DEF Handling
<1>2. ASSUME NEW b \in Actors, Settles(b, m) PROVE b = a
  BY <1>1, <1>2, OneRecipient DEF Settles, Handling, IInv
<1>3. fate'[m] = fate[m] \/ \E b \in Actors : Settles(b, m)
  BY <1>1, FateStep DEF Waiting
<1>4. QED
  BY <1>1, <1>2, <1>3 DEF Handling

\* An actor handles one message at a time, and awaits only in a handler.
LEMMA HandlersStep == IInv /\ [Next]_vars => HandlersInv'
<1> SUFFICES ASSUME IInv, [Next]_vars, NEW a \in Actors
             PROVE  /\ \A m, n \in Messages : Handling(a, m)' /\ Handling(a, n)' => m = n
                    /\ Busy(a)' => phase'[a] = "serving"
                    /\ waits'[a] # 0 => Busy(a)'
                    /\ a \notin stopped' => backlog'[a] = {}
                    /\ IsInjective(mailbox'[a])
  BY DEF HandlersInv
<1>1. /\ \A m, n \in Messages : Handling(a, m) /\ Handling(a, n) => m = n
      /\ Busy(a) => phase[a] = "serving"
      /\ waits[a] # 0 => Busy(a)
  BY DEF IInv, HandlersInv
<1>2. Take(a) => ~Busy(a) /\ phase[a] = "serving" /\ UNCHANGED phase
  BY DEF Take, lifeVars
<1>3. ASSUME NEW m \in Messages, NEW n \in Messages, Handling(a, m)', Handling(a, n)'
      PROVE  m = n
  <2>1. CASE Take(a)
    <3>1. PICK x \in Messages : fate' = [fate EXCEPT ![x] = "handling"]
      BY <2>1, TakeEffect DEF Waiting
    <3>2. ~Handling(a, m) /\ ~Handling(a, n)
      BY <1>2, <2>1 DEF Busy
    <3>3. fate[m] # "handling" /\ fate[n] # "handling"
      BY <1>3, <3>2, AddressStep DEF Handling
    <3>4. fate \in [Messages -> Fates] /\ fate'[m] = "handling" /\ fate'[n] = "handling"
      BY <1>3 DEF IInv, TypeOK, Fates, Handling
    <3>5. QED
      BY <3>1, <3>3, <3>4
  <2>2. CASE ~Take(a)
    BY <1>1, <1>3, <2>2, HandlingStep
  <2>3. QED
    BY <2>1, <2>2
<1>4. ASSUME NEW m \in Messages, Handling(a, m)' PROVE phase'[a] = "serving"
  <2>1. CASE Take(a)
    BY <1>2, <2>1
  <2>2. CASE Handling(a, m)
    <3>1. Busy(a) /\ phase[a] = "serving"
      BY <1>1, <2>2 DEF Busy
    <3>2. ASSUME NEW n \in Messages, HandlerPanics(a, n) PROVE FALSE
      <4>1. n = m
        BY <1>1, <2>2, <3>2 DEF HandlerPanics
      <4>2. fate'[m] = "failed"
        BY <3>2, <4>1 DEF HandlerPanics, IInv, TypeOK
      <4>3. QED
        BY <1>4, <4>2 DEF Handling
    <3>3. QED
      BY <3>1, <3>2, LifeStep DEF Leave
  <2>3. QED
    BY <1>4, <2>1, <2>2, HandlingStep
<1>5. ASSUME waits'[a] # 0 PROVE Busy(a)'
  <2>1. a \in Parties /\ a \notin Tasks
    BY ActorsAreNotTasks DEF Parties
  <2>2. CASE waits[a] # 0
    <3>1. PICK m \in Messages : Handling(a, m)
      BY <1>1, <2>2 DEF Busy
    <3>2. Handling(a, m)'
      BY <2>2, <3>1, HandlingStays DEF Settles
    <3>3. QED
      BY <3>2 DEF Busy
  <2>3. CASE waits[a] = 0
    <3>1. PICK c \in program.calls : Acts(a) /\ Call(c)
      BY <1>5, <2>1, <2>3, WaitStep
    <3>2. PICK m \in Messages : Handling(a, m)
      BY <2>1, <3>1 DEF Acts
    <3>3. fate'[m] = "handling"
      <4>1. PICK n \in 1..MaxCalls :
              /\ fate[<<n, "ask">>] = "unsent"
              /\ IF c.way = "drop" THEN UNCHANGED <<fate, mailbox>> ELSE Sends(<<n, "ask">>, c.to)
        BY <3>1, CallEffect
      <4>2. fate[m] = "handling" /\ m # <<n, "ask">> /\ fate \in [Messages -> Fates]
        BY <3>2, <4>1 DEF Handling, IInv, TypeOK, Fates
      <4>3. QED
        BY <4>1, <4>2 DEF Sends, Post
    <3>4. QED
      BY <3>2, <3>3, AddressStep DEF Handling, Busy
  <2>4. QED
    BY <2>2, <2>3
<1>6. (a \notin stopped' => backlog'[a] = {}) /\ IsInjective(mailbox'[a])
  BY LifeStep, MailboxStep
<1>7. QED
  BY <1>3, <1>4, <1>5, <1>6 DEF Busy

\* A call is made by someone who holds the actors it names, a handler itself, too.
LEMMA CallerKnows ==
  ASSUME IInv, NEW c \in program.calls, Call(c), NEW b \in {c.to, c.back}
  PROVE  Owners(b) # {} \/ Busy(b)
<1>1. c \in CallRecords
  BY Typing DEF IInv
<1>2. c.by \in Parties /\ b \in Actors
  BY <1>1 DEF CallRecords
<1>3. CASE b \in held[c.by]
  BY <1>2, <1>3 DEF Owners
<1>4. CASE b = c.by
  BY <1>2, <1>4, ActorsAreNotTasks DEF Call, Acts, Busy
<1>5. QED
  BY <1>3, <1>4 DEF Call, Knows

\* Handles come only from calls: the message of a dropped envelope, and the closure
\* that is to forward a value, own new ones.
LEMMA OwnersStep ==
  ASSUME IInv, [Next]_vars, NEW b \in Actors
  PROVE  \/ Owners(b)' \subseteq Owners(b)
         \/ \E c \in program.calls : Call(c) /\ b \in {c.to, c.back}
<1> SUFFICES ASSUME ~ \E c \in program.calls : Call(c) /\ b \in {c.to, c.back},
                    NEW x \in Owners(b)'
             PROVE  x \in Owners(b)
  OBVIOUS
<1>1. TypeOK /\ CallsInv /\ Made \subseteq 1..MaxCalls
  BY Typing DEF IInv
<1>2. CASE x \in Parties /\ b \in held'[x]
  BY <1>2, LinksStep DEF Owners
<1>3. ASSUME NEW d \in Made', calls'[d].to = b \/ calls'[d].back = b
      PROVE  d \in Made /\ calls'[d] = calls[d]
  <2>1. ASSUME NEW c \in program.calls, Call(c), d \notin Made PROVE FALSE
    <3>1. PICK n \in 1..MaxCalls : Made' = Made \cup {n} /\ calls'[n] = c
      BY <2>1, CallEffect
    <3>2. b \in {c.to, c.back}
      BY <1>3, <2>1, <3>1
    <3>3. QED
      BY <2>1, <3>2
  <2>2. d \notin Made => \E c \in program.calls : Call(c)
    BY <1>3 DEF Made, Next, vars, HandlerEnds, Release, callVars, Send, SendOutcome, Resume, Take,
       Forward, HandlerReturns, HandlerPanics, ContextStop, Leave, DropState, End
  <2>3. QED
    BY <2>1, <2>2, CallStep
<1>4. \A m \in Messages : fate'[m] = "unsent" => fate[m] = "unsent"
  BY FateStep
<1>5. ASSUME NEW d \in Made', calls'[d].to = b, x = <<d, "ask">>, fate'[x] = "unsent"
      PROVE  x \in Owners(b)
  BY <1>1, <1>3, <1>4, <1>5, Sorts DEF Owners, Asking
<1>6. ASSUME NEW a \in Actors, b \in watcher'[a], x = <<a, "outcome">>, fate'[x] = "unsent"
      PROVE  x \in Owners(b)
  BY <1>4, <1>6, LinksStep, Sorts DEF Owners, Watching
<1>7. ASSUME NEW d \in Made', calls'[d].back = b, calls'[d].way = "forward_to",
             x = <<d, "value">>, fate'[x] = "unsent",
             fate'[<<d, "ask">>] \in {"unsent", "queued", "handling"}
      PROVE  x \in Owners(b)
  <2>1. d \in Made /\ calls'[d] = calls[d] /\ d \in 1..MaxCalls
    BY <1>1, <1>3, <1>7
  <2>2. <<d, "ask">> \in Messages /\ x \in Messages
    BY <1>7, <2>1, Sorts
  <2>3. fate[<<d, "ask">>] \in {"unsent", "queued", "handling"}
    BY <1>7, <2>2, FateStep DEF Waiting, Settles, Handling
  <2>4. QED
    BY <1>4, <1>7, <2>1, <2>2, <2>3 DEF Owners, Forwarding
<1>8. QED
  BY <1>2, <1>5, <1>6, <1>7 DEF Owners, Asking, Watching, Forwarding

\* An actor that nobody holds, and of which no handler runs, stays so.
LEMMA NobodyStep ==
  ASSUME IInv, [Next]_vars, NEW b \in Actors, Owners(b) = {}, ~Busy(b)
  PROVE  Owners(b)' = {}
BY OwnersStep, CallerKnows

\* A panic is not forgotten.
LEMMA PanicStays ==
  ASSUME IInv, [Next]_vars, NEW a \in Actors, Panicked(a)
  PROVE  Panicked(a)'
<1>1. PICK m \in Messages : IsFor(m, a) /\ fate[m] = "failed"
  BY DEF Panicked
<1>2. IsFor(m, a)' /\ fate'[m] = "failed"
  BY <1>1, AddressStep, FateStep DEF Waiting, Settles, Handling
<1>3. QED
  BY <1>2 DEF Panicked

\* Who left its loop for want of handles will never get one.
LEMMA AbandonedStep == IInv /\ [Next]_vars => AbandonedInv'
<1> SUFFICES ASSUME IInv, [Next]_vars, NEW a \in Actors, phase'[a] # "serving"
             PROVE  a \in stopped' \/ Panicked(a)' \/ Owners(a)' = {}
  BY DEF AbandonedInv
<1>1. /\ phase[a] # "serving" => a \in stopped \/ Panicked(a) \/ Owners(a) = {}
      /\ Busy(a) => phase[a] = "serving"
      /\ stopped \subseteq stopped'
  BY LifeStep DEF IInv, AbandonedInv, HandlersInv
<1>2. CASE phase[a] # "serving"
  BY <1>1, <1>2, PanicStays, NobodyStep
<1>3. CASE Leave(a)
  <2>1. a \in stopped \/ (Owners(a) = {} /\ ~Busy(a))
    BY <1>3 DEF Leave
  <2>2. QED
    BY <1>1, <2>1, NobodyStep
<1>4. ASSUME NEW m \in Messages, HandlerPanics(a, m)
      PROVE  Panicked(a)'
  <2>1. IsFor(m, a)' /\ fate'[m] = "failed"
    BY <1>4, AddressStep DEF HandlerPanics, Handling, IInv, TypeOK
  <2>2. QED
    BY <2>1 DEF Panicked
<1>5. QED
  BY <1>2, <1>3, <1>4, LifeStep

\* Nor has it two after a step.
LEMMA OneRecipientNext ==
  ASSUME IInv, [Next]_vars, NEW m, NEW a \in Actors, NEW b \in Actors, IsFor(m, a)', IsFor(m, b)'
  PROVE  a = b
<1>1. TypeOK' /\ CallsInv'
  BY TypeStep, CallsStep
<1>2. CASE m \in Outcomes
  <2>1. m[1] \in Actors /\ a \in watcher'[m[1]] /\ b \in watcher'[m[1]]
    BY <1>2, Sorts DEF IsFor
  <2>2. QED
    BY <1>1, <2>1, OneExitHandle DEF TypeOK, CallsInv
<1>3. CASE m \notin Outcomes
  BY <1>3, Sorts DEF IsFor
<1>4. QED
  BY <1>2, <1>3

\* Only an actor that stopped or panicked refuses a message: its sender holds it.
LEMMA RefuseStep == IInv /\ [Next]_vars => OnlyFailedActorsRefuse'
<1> SUFFICES ASSUME IInv, [Next]_vars, NEW a \in Actors, NEW m \in Messages,
                    IsFor(m, a)', fate'[m] = "rejected"
             PROVE  a \in stopped' \/ Panicked(a)'
  BY DEF OnlyFailedActorsRefuse
<1>1. stopped \subseteq stopped' /\ (Panicked(a) => Panicked(a)')
  BY LifeStep, PanicStays
<1>2. CASE fate[m] = "rejected"
  BY <1>1, <1>2, AddressStep DEF IInv, OnlyFailedActorsRefuse
<1>3. CASE fate[m] # "rejected"
  <2>1. PICK b \in Actors : Sends(m, b) /\ IsFor(m, b)' /\ phase[b] = "ended"
    BY <1>3, FateStep
  <2>2. a = b
    BY <2>1, OneRecipientNext
  <2>3. ~Busy(b) /\ Owners(b) # {}
    BY <2>1 DEF Sends, IInv, HandlersInv
  <2>4. b \in stopped \/ Panicked(b)
    BY <2>1, <2>3 DEF IInv, AbandonedInv
  <2>5. QED
    BY <1>1, <2>2, <2>4
<1>4. QED
  BY <1>2, <1>3

\* The loop is left once, and its end is for good.
LEMMA LifeEnds ==
  ASSUME IInv, [Next]_vars, NEW a \in Actors
  PROVE  /\ phase[a] # "serving" => phase'[a] # "serving"
         /\ phase[a] = "ended" => phase'[a] = "ended"
         /\ phase'[a] = "ended" => phase[a] = "ended" \/ End(a)
<1>1. ASSUME NEW m \in Messages, HandlerPanics(a, m)
      PROVE  phase[a] = "serving"
  BY <1>1 DEF HandlerPanics, IInv, HandlersInv, Busy
<1>2. phase \in [Actors -> {"serving", "ending", "ended"}]
  BY DEF IInv, TypeOK
<1>3. ASSUME NEW b \in Actors, NEW m \in Messages, HandlerPanics(b, m)
      PROVE  phase'[a] \in {phase[a], "ending"}
  BY <1>2, <1>3 DEF HandlerPanics
<1>4. ASSUME NEW b \in Actors, Leave(b)
      PROVE  phase'[a] \in {phase[a], "ending"}
  BY <1>2, <1>4 DEF Leave
<1>5. ASSUME NEW b \in Actors, End(b)
      PROVE  phase'[a] = phase[a] \/ End(a)
  BY <1>2, <1>5 DEF End
<1>6. phase'[a] \in {phase[a], "ending"} \/ End(a)
  BY <1>3, <1>4, <1>5 DEF Next, vars, lifeVars, HandlerEnds, Release, Call, Send,
     SendOutcome, Resume, Take, Forward, HandlerReturns, ContextStop, DropState
<1>7. QED
  BY <1>1, <1>6, LifeStep DEF Leave

\* A panic leaves the loop, and messages are dropped and refused at its end.
LEMMA FailuresStep == IInv /\ [Next]_vars => FailuresInv'
<1> SUFFICES ASSUME IInv, [Next]_vars, NEW a \in Actors, NEW m \in Messages, IsFor(m, a)'
             PROVE  /\ fate'[m] = "failed" => phase'[a] # "serving"
                    /\ fate'[m] \in {"lost", "rejected"} => phase'[a] = "ended"
                    /\ phase'[a] = "ended" => fate'[m] # "queued"
  BY DEF FailuresInv
<1>1. /\ fate \in [Messages -> Fates] /\ phase \in [Actors -> {"serving", "ending", "ended"}]
      /\ IsFor(m, a) /\ fate[m] = "failed" => phase[a] # "serving"
      /\ IsFor(m, a) /\ fate[m] \in {"lost", "rejected"} => phase[a] = "ended"
      /\ IsFor(m, a) /\ phase[a] = "ended" => fate[m] # "queued"
  BY DEF IInv, TypeOK, FailuresInv, Fates
<1>2. fate[m] # "unsent" => IsFor(m, a)
  BY AddressStep
<1>3. CASE fate'[m] = fate[m]
  <2>1. ASSUME End(a) PROVE fate'[m] # "queued"
    BY <1>1, <1>2, <1>3, <2>1 DEF End, Waiting
  <2>2. QED
    BY <1>1, <1>2, <1>3, <2>1, LifeEnds
<1>4. ASSUME NEW b \in Actors, Sends(m, b), IsFor(m, b)',
             fate'[m] = IF phase[b] = "ended" THEN "rejected" ELSE "queued"
      PROVE  /\ fate'[m] # "failed"
             /\ fate'[m] \in {"lost", "rejected"} => phase'[a] = "ended"
             /\ phase'[a] = "ended" => fate'[m] # "queued"
  <2>1. a = b /\ UNCHANGED phase
    BY <1>4, OneRecipientNext DEF Sends, lifeVars
  <2>2. QED
    BY <1>4, <2>1
<1>5. ASSUME NEW b \in Actors, Settles(b, m), fate'[m] \in {"done", "failed"}
      PROVE  fate'[m] = "failed" => phase'[a] # "serving"
  <2>1. a = b
    BY <1>2, <1>5, OneRecipient DEF Settles, Handling, IInv
  <2>2. QED
    BY <1>1, <1>5, <2>1 DEF Settles
<1>6. ASSUME NEW b \in Actors, End(b), m \in Waiting(b), fate'[m] = "lost"
      PROVE  phase'[a] = "ended"
  <2>1. a = b
    BY <1>2, <1>6, OneRecipient DEF Waiting, IInv
  <2>2. QED
    BY <1>1, <1>6, <2>1 DEF End
<1>7. QED
  BY <1>3, <1>4, <1>5, <1>6, FateStep

\* The messages of a call to be forwarded are sent in this order, and both are unless
\* the handler panicked.
LEMMA ForwardStep == IInv /\ [Next]_vars => ForwardInv'
<1> SUFFICES ASSUME IInv, [Next]_vars, NEW c \in Made', calls'[c].way = "forward_to"
             PROVE  /\ fate'[<<c, "ask">>] # "unsent"
                    /\ fate'[<<c, "value">>] # "unsent" =>
                         fate'[<<c, "ask">>] \in {"handling", "done"}
                    /\ fate'[<<c, "ask">>] = "done" => fate'[<<c, "value">>] # "unsent"
  BY DEF ForwardInv
<1> DEFINE ask == <<c, "ask">>
           value == <<c, "value">>
<1>1. TypeOK /\ TypeOK' /\ fate \in [Messages -> Fates]
  BY TypeStep DEF IInv, TypeOK, Fates
<1>2. c \in 1..MaxCalls
  <2>1. Made' = 1..Len(calls)' /\ Len(calls)' \in Nat /\ Len(calls)' <= MaxCalls
    BY <1>1, LenProperties DEF Made, TypeOK
  <2>2. QED
    BY <2>1, MaxCallsIsNat
<1>3. /\ ask \in Asks /\ ask \in Messages /\ ask[1] = c
      /\ value \in Values /\ value \in Messages /\ value[1] = c /\ ask # value
      /\ ask \notin Values
  BY <1>2, Sorts
<1>4. CASE c \in Made
  <2>1. /\ calls[c].way = "forward_to" /\ fate[ask] # "unsent"
        /\ fate[value] # "unsent" => fate[ask] \in {"handling", "done"}
        /\ fate[ask] = "done" => fate[value] # "unsent"
    BY <1>4, CallStep DEF IInv, ForwardInv
  <2>2. fate'[ask] # "unsent" /\ (fate[value] # "unsent" => fate'[value] # "unsent")
    BY <1>3, <2>1, FateStep
  <2>3. fate[ask] = "done" => fate'[ask] = "done"
    BY <1>3, FateStep DEF Waiting, Settles, Handling
  <2>4. ASSUME NEW a \in Actors, Settles(a, ask)
        PROVE  \/ fate'[ask] = "done" /\ fate[value] # "unsent"
               \/ fate'[ask] = "failed" /\ fate[value] = "unsent" /\ fate'[value] = "unsent"
    BY <1>1, <1>3, <2>1, <2>4 DEF Settles, Forwarded
  <2>5. fate'[ask] = fate[ask] \/ fate'[ask] = "done" \/ fate'[value] = "unsent"
        \/ fate[value] = "unsent"
    BY <1>3, <2>1, <2>4, FateStep DEF Waiting
  <2>6. ASSUME fate[value] = "unsent", fate'[value] # "unsent"
        PROVE  fate'[ask] = "handling"
    <3>1. PICK b \in Actors : Sends(value, b)
      BY <1>3, <2>6, FateStep DEF Waiting, Settles, Handling
    <3>2. fate[ask] = "handling" /\ fate'[ask] = fate[ask]
      BY <1>1, <1>3, <3>1 DEF Sends, Post
    <3>3. QED
      BY <3>2
  <2>7. ASSUME fate'[ask] = "done", fate[ask] # "done" PROVE fate[value] # "unsent"
    <3>1. PICK a \in Actors : Settles(a, ask)
      BY <1>3, <2>1, <2>7, FateStep
    <3>2. QED
      BY <2>4, <2>7, <3>1
  <2>8. QED
    BY <2>1, <2>2, <2>3, <2>5, <2>6, <2>7
<1>5. CASE c \notin Made
  <2>1. PICK x \in program.calls : Call(x)
    BY <1>5 DEF Made, Next, vars, HandlerEnds, Release, callVars, Send, SendOutcome, Resume, Take,
       Forward, HandlerReturns, HandlerPanics, ContextStop, Leave, DropState, End
  <2>2. PICK n \in 1..MaxCalls :
          /\ Made' = Made \cup {n} /\ calls'[n] = x
          /\ fate[<<n, "ask">>] = "unsent" /\ fate[<<n, "value">>] = "unsent"
          /\ IF x.way = "drop" THEN UNCHANGED <<fate, mailbox>> ELSE Sends(<<n, "ask">>, x.to)
    BY <2>1, CallEffect
  <2>3. c = n /\ Sends(ask, x.to)
    BY <1>5, <2>2
  <2>4. fate'[ask] \in {"queued", "rejected"} /\ fate'[value] = "unsent"
    BY <1>1, <1>3, <2>2, <2>3 DEF Sends, Post
  <2>5. QED
    BY <2>4
<1>6. QED
  BY <1>4, <1>5

\* Messages keep their order in a mailbox as long as both are in it.
LEMMA BeforeStep ==
  ASSUME IInv, [Next]_vars, NEW a \in Actors, NEW m \in Messages, NEW n \in Messages,
         IsFor(m, a), IsFor(n, a), Before(mailbox[a], m, n),
         fate[m] = "queued", fate'[m] = "queued", fate[n] = "queued", fate'[n] = "queued"
  PROVE  Before(mailbox'[a], m, n)
<1>1. /\ mailbox \in [Actors -> Seq(Messages)] /\ IsInjective(mailbox[a])
      /\ fate \in [Messages -> Fates]
  BY DEF IInv, TypeOK, HandlersInv, Fates
<1>2. ASSUME NEW x \in Messages, NEW b \in Actors, Sends(x, b)
      PROVE  Before(mailbox'[a], m, n)
  <2>1. mailbox'[a] = mailbox[a] \/ mailbox'[a] = Append(mailbox[a], x)
    BY <1>1, <1>2 DEF Sends, Post
  <2>2. QED
    BY <1>1, <2>1, AppendOrder
<1>3. ASSUME NEW b \in Actors, Take(b) PROVE Before(mailbox'[a], m, n)
  <2>1. CASE a = b
    <3>1. mailbox'[a] = Tail(mailbox[a]) /\ fate' = [fate EXCEPT ![Head(mailbox[a])] = "handling"]
      BY <1>1, <1>3, <2>1 DEF Take
    <3>2. m # Head(mailbox[a])
      BY <1>1, <3>1
    <3>3. QED
      BY <1>1, <3>1, <3>2, TailOrder
  <2>2. CASE a # b
    BY <1>1, <1>3, <2>2 DEF Take
  <2>3. QED
    BY <2>1, <2>2
<1>4. ASSUME NEW b \in Actors, End(b) PROVE Before(mailbox'[a], m, n)
  <2>1. a # b
    BY <1>4 DEF End, Waiting
  <2>2. QED
    BY <1>1, <1>4, <2>1 DEF End
<1>5. QED
  BY <1>2, <1>3, <1>4, FateCases DEF Settles

\* A message stays ahead of one that was sent later.
LEMMA AheadStep ==
  ASSUME IInv, [Next]_vars, NEW a \in Actors, NEW m \in Messages, NEW n \in Messages, m # n,
         IsFor(m, a), IsFor(n, a)', Ahead(a, m, n),
         fate[n] = "unsent" /\ fate'[n] # "unsent" => fate[m] # "unsent"
  PROVE  Ahead(a, m, n)'
<1>1. /\ mailbox \in [Actors -> Seq(Messages)] /\ IsInjective(mailbox[a])
      /\ fate \in [Messages -> Fates] /\ Range(mailbox[a]) = Waiting(a)
      /\ \A x, y \in Messages : Handling(a, x) /\ Handling(a, y) => x = y
      /\ Busy(a) => phase[a] = "serving"
  BY DEF IInv, TypeOK, HandlersInv, Fates
<1>2. /\ fate[n] \in {"handling", "done", "failed"} => fate[m] = "done"
      /\ fate[n] = "queued" => fate[m] \in {"queued", "handling", "done", "failed"}
      /\ fate[n] = "queued" /\ fate[m] = "queued" => Before(mailbox[a], m, n)
  BY DEF Ahead
<1>3. /\ fate[m] = "failed" => phase[a] # "serving"
      /\ fate[m] \in {"lost", "rejected"} => phase[a] = "ended"
  BY DEF IInv, FailuresInv
<1>4. fate[n] # "unsent" => IsFor(n, a)
  BY AddressStep
<1>5. /\ \A b \in Actors : IsFor(m, b) => b = a
      /\ \A b \in Actors : IsFor(n, b) /\ fate[n] # "unsent" => b = a
      /\ \A b \in Actors : IsFor(n, b)' => b = a
  BY <1>4, OneRecipient, OneRecipientNext DEF IInv
<1>6. fate[m] = "done" => fate'[m] = "done"
  BY FateStep DEF Waiting, Settles, Handling
<1>7. ASSUME fate'[n] \in {"handling", "done", "failed"} PROVE fate'[m] = "done"
  <2>1. CASE fate'[n] = fate[n]
    BY <1>2, <1>6, <1>7, <2>1
  <2>2. ASSUME NEW b \in Actors, Take(b), n \in Waiting(b), fate'[n] = "handling"
        PROVE  fate'[m] = "done"
    <3>1. a = b /\ fate[n] = "queued"
      BY <1>5, <2>2 DEF Waiting
    <3>2. n = Head(mailbox[a]) /\ phase[a] = "serving" /\ ~Busy(a)
      BY <1>1, <2>2, <3>1 DEF Take
    <3>3. fate[m] # "handling" /\ fate[m] # "failed"
      BY <1>3, <3>2 DEF Busy, Handling
    <3>4. fate[m] # "queued"
      BY <1>1, <1>2, <3>1, <3>2, TailOrder
    <3>5. QED
      BY <1>2, <1>6, <3>1, <3>3, <3>4
  <2>3. ASSUME NEW b \in Actors, Settles(b, n) PROVE fate'[m] = "done"
    BY <1>2, <1>6, <2>3 DEF Settles, Handling
  <2>4. QED
    BY <1>7, <2>1, <2>2, <2>3, FateStep
<1>8. ASSUME fate'[n] = "queued"
      PROVE  /\ fate'[m] \in {"queued", "handling", "done", "failed"}
             /\ fate'[m] = "queued" => Before(mailbox'[a], m, n)
  <2>1. CASE fate[n] = "queued"
    <3>1. fate[m] \in {"queued", "handling", "done", "failed"}
      BY <1>2, <2>1
    <3>2. ASSUME NEW b \in Actors, End(b), m \in Waiting(b) PROVE FALSE
      <4>1. n \in Waiting(b)
        BY <1>4, <1>5, <2>1, <3>2 DEF Waiting
      <4>2. QED
        BY <1>8, <3>2, <4>1 DEF End
    <3>3. /\ fate'[m] \in {"queued", "handling", "done", "failed"}
          /\ fate'[m] = "queued" => fate[m] = "queued"
      BY <3>1, <3>2, FateStep
    <3>4. ASSUME fate'[m] = "queued" PROVE Before(mailbox'[a], m, n)
      BY <1>2, <1>4, <1>8, <2>1, <3>3, <3>4, BeforeStep
    <3>5. QED
      BY <3>3, <3>4
  <2>2. CASE fate[n] # "queued"
    <3>1. Sends(n, a) /\ fate[n] = "unsent" /\ phase[a] # "ended"
      BY <1>5, <1>8, <2>2, FateStep
    <3>2. fate[m] \in {"queued", "handling", "done", "failed"}
      BY <1>1, <1>3, <1>8, <3>1 DEF Fates
    <3>3. fate'[m] = fate[m] /\ mailbox'[a] = Append(mailbox[a], n)
      BY <1>1, <3>1 DEF Sends, Post
    <3>4. fate[m] = "queued" => m \in Range(mailbox[a])
      BY <1>1 DEF Waiting
    <3>5. QED
      BY <1>1, <3>2, <3>3, <3>4, AppendOrder
  <2>3. QED
    BY <2>1, <2>2
<1>9. QED
  BY <1>7, <1>8 DEF Ahead

\* Equal calls stay in order: a value is sent when those of the calls before were.
LEMMA OrderStep == IInv /\ [Next]_vars => OrderInv'
<1> SUFFICES ASSUME IInv, [Next]_vars, NEW d \in Made', NEW c \in 1..(d - 1), NEW e,
                    e = calls'[d], calls'[c] = calls'[d], calls'[d].way = "forward_to"
             PROVE  /\ Ahead(e.to, <<c, "ask">>, <<d, "ask">>)'
                    /\ Ahead(e.back, <<c, "value">>, <<d, "value">>)'
  BY DEF OrderInv
<1>1. /\ TypeOK' /\ TypeOK /\ MaxCalls \in Nat
      /\ Made = 1..Len(calls) /\ Len(calls) \in Nat /\ Len(calls) <= MaxCalls
  BY Typing, TypeStep DEF IInv
<1>2. Made' = 1..Len(calls)' /\ Len(calls)' \in Nat /\ Len(calls)' <= MaxCalls
  BY <1>1, LenProperties DEF Made, TypeOK
<1>3. c \in 1..MaxCalls /\ d \in 1..MaxCalls /\ c # d /\ c < d /\ c \in Made'
  BY <1>1, <1>2
<1>4. e.to \in Actors /\ e.back \in Actors
  <2>1. calls'[d] \in CallRecords
    BY <1>1, <1>2, LenProperties DEF TypeOK
  <2>2. QED
    BY <2>1 DEF CallRecords
<1>5. /\ <<c, "ask">> \in Messages /\ <<d, "ask">> \in Messages /\ <<c, "ask">> # <<d, "ask">>
      /\ <<c, "value">> \in Messages /\ <<d, "value">> \in Messages
      /\ <<c, "value">> # <<d, "value">> /\ <<d, "value">> \in Values
      /\ <<c, "ask">> \in Asks /\ <<d, "ask">> \in Asks /\ <<c, "value">> \in Values
  BY <1>3, Sorts
<1>6. IsFor(<<d, "ask">>, e.to)' /\ IsFor(<<d, "value">>, e.back)'
  BY <1>5 DEF IsFor
<1>7. CASE d \in Made
  <2>1. c \in Made /\ calls[d] = e /\ calls[c] = e
    BY <1>1, <1>3, <1>7, CallStep
  <2>2. IsFor(<<c, "ask">>, e.to) /\ IsFor(<<c, "value">>, e.back)
    BY <1>5, <2>1 DEF IsFor
  <2>3. /\ Ahead(e.to, <<c, "ask">>, <<d, "ask">>)
        /\ Ahead(e.back, <<c, "value">>, <<d, "value">>)
    BY <1>7, <2>1 DEF IInv, OrderInv
  <2>4. /\ fate[<<d, "ask">>] # "unsent"
        /\ fate[<<c, "ask">>] = "done" => fate[<<c, "value">>] # "unsent"
    BY <1>7, <2>1 DEF IInv, ForwardInv
  <2>5. ASSUME fate[<<d, "value">>] = "unsent", fate'[<<d, "value">>] # "unsent"
        PROVE  fate[<<c, "value">>] # "unsent"
    <3>1. PICK b \in Actors : Sends(<<d, "value">>, b)
      BY <1>5, <2>5, FateStep DEF Waiting, Settles, Handling
    <3>2. fate[<<d, "ask">>] = "handling"
      BY <1>5, <3>1 DEF Sends
    <3>3. QED
      BY <2>3, <2>4, <3>2 DEF Ahead
  <2>6. Ahead(e.to, <<c, "ask">>, <<d, "ask">>)'
    BY <1>4, <1>5, <1>6, <2>2, <2>3, <2>4, AheadStep
  <2>7. Ahead(e.back, <<c, "value">>, <<d, "value">>)'
    BY <1>4, <1>5, <1>6, <2>2, <2>3, <2>5, AheadStep
  <2>8. QED
    BY <2>6, <2>7
<1>8. CASE d \notin Made
  <2>1. PICK x \in program.calls : Call(x)
    BY <1>8 DEF Made, Next, vars, HandlerEnds, Release, callVars, Send, SendOutcome, Resume, Take,
       Forward, HandlerReturns, HandlerPanics, ContextStop, Leave, DropState, End
  <2>2. PICK n \in 1..MaxCalls :
          /\ n = Len(calls) + 1 /\ Made' = Made \cup {n} /\ calls'[n] = x
          /\ fate[<<n, "ask">>] = "unsent" /\ fate[<<n, "value">>] = "unsent"
          /\ IF x.way = "drop" THEN UNCHANGED <<fate, mailbox>> ELSE Sends(<<n, "ask">>, x.to)
    BY <2>1, CallEffect
  <2>3. d = n /\ x = e /\ Sends(<<d, "ask">>, e.to)
    BY <1>8, <2>2
  <2>4. c \in Made /\ calls[c] = e
    BY <1>1, <1>3, <2>2, <2>3, CallStep
  <2>5. IsFor(<<c, "ask">>, e.to) /\ fate[<<c, "ask">>] # "unsent"
    BY <1>5, <2>4 DEF IsFor, IInv, ForwardInv
  <2>6. Ahead(e.to, <<c, "ask">>, <<d, "ask">>)
    BY <2>2, <2>3 DEF Ahead
  <2>7. Ahead(e.to, <<c, "ask">>, <<d, "ask">>)'
    BY <1>4, <1>5, <1>6, <2>5, <2>6, AheadStep
  <2>8. fate'[<<d, "value">>] = "unsent"
    <3>1. fate \in [Messages -> Fates] /\ <<d, "ask">> # <<d, "value">>
      BY <1>1 DEF TypeOK, Fates
    <3>2. QED
      BY <1>5, <2>2, <2>3, <3>1 DEF Sends, Post
  <2>9. Ahead(e.back, <<c, "value">>, <<d, "value">>)'
    BY <2>8 DEF Ahead
  <2>10. QED
    BY <2>7, <2>9
<1>9. QED
  BY <1>7, <1>8

-----------------------------------------------------------------------------
(* Theorems                                                                *)

\* The calls, handlers and handles of the actors fit together in every reachable
\* state, for all programs.
THEOREM Invariance == Spec => []IInv
<1>1. IInv /\ [Next]_vars => IInv'
  BY TypeStep, CallsStep, HandlersStep, AbandonedStep, RefuseStep, FailuresStep, ForwardStep,
     OrderStep DEF IInv
<1>2. QED
  BY InitIInv, <1>1, PTL DEF Spec

\* Fates, mailboxes, handles and calls have their types, and a mailbox holds what
\* waits for its actor.
THEOREM TypeCorrect == Spec => []TypeOK
<1>1. IInv => TypeOK
  BY DEF IInv
<1>2. QED
  BY Invariance, <1>1, PTL

\* A message whose sender holds the actor, a forwarded value and an outcome too, is
\* refused only by an actor that stopped or panicked.
THEOREM OnlyFailedRefuse == Spec => []OnlyFailedActorsRefuse
<1>1. IInv => OnlyFailedActorsRefuse
  BY DEF IInv
<1>2. QED
  BY Invariance, <1>1, PTL

\* Values that one actor forwards to another are handled in the order in which one
\* caller made the calls.
THEOREM ForwardsInOrder == Spec => []ForwardsKeepOrder
<1>1. IInv => ForwardsKeepOrder
  BY DEF IInv, OrderInv, Ahead, ForwardsKeepOrder
<1>2. QED
  BY Invariance, <1>1, PTL

\* Nobody awaits an actor that has ended: whoever waits for an answer waits for one
\* that can still come, or for a circle.
THEOREM NoneAwaitTheEnded == Spec => []NobodyAwaitsTheEnded
<1>1. ASSUME IInv, NEW p \in Parties, Blocked(p)
      PROVE  phase[calls[waits[p]].to] # "ended"
  <2> DEFINE c == waits[p]
             a == calls[c].to
  <2>1. c \in Made /\ Made \subseteq 1..MaxCalls /\ c \in 1..MaxCalls
        /\ fate[<<c, "ask">>] \in {"queued", "handling"}
    BY <1>1, Typing DEF Blocked, IInv, CallsInv
  <2>2. a \in Actors
    <3>1. calls[c] \in CallRecords
      BY <1>1, <2>1, LenProperties DEF Made, IInv, TypeOK
    <3>2. QED
      BY <3>1 DEF CallRecords
  <2>3. <<c, "ask">> \in Messages /\ IsFor(<<c, "ask">>, a)
    BY <2>1, Sorts DEF IsFor
  <2>4. CASE fate[<<c, "ask">>] = "queued"
    BY <1>1, <2>2, <2>3, <2>4 DEF IInv, FailuresInv
  <2>5. CASE fate[<<c, "ask">>] = "handling"
    BY <1>1, <2>2, <2>3, <2>5 DEF IInv, HandlersInv, Busy, Handling
  <2>6. QED
    BY <2>1, <2>4, <2>5
<1>2. IInv => NobodyAwaitsTheEnded
  BY <1>1 DEF NobodyAwaitsTheEnded
<1>3. QED
  BY Invariance, <1>2, PTL

\* Actors that await each other in a circle do so for good, whatever panics, stops or
\* lets go of its handles elsewhere.
THEOREM DeadlockForEver == Spec => DeadlockIsForEver
<1>1. ASSUME IInv, [Next]_vars, NEW a \in Actors, Stuck(a)
      PROVE  Stuck(a)'
  <2>1. PICK S \in SUBSET Actors : a \in S /\ Deadlocked(S)
    BY <1>1 DEF Stuck
  <2>2. ASSUME NEW x \in S
        PROVE  Blocked(x)' /\ calls'[waits'[x]].to \in S
    <3> DEFINE m == <<waits[x], "ask">>
               y == calls[waits[x]].to
    <3>1. /\ x \in Actors /\ x \in Parties /\ x \notin Tasks
          /\ \A z \in S : Blocked(z)
          /\ y \in S
      BY <2>1, ActorsAreNotTasks DEF Deadlocked, Parties
    <3>2. /\ waits[x] # 0 /\ waits[x] \in Made /\ Made \subseteq 1..MaxCalls
          /\ fate[m] \in {"queued", "handling"} /\ waits[y] # 0
      BY <1>1, <3>1, Typing DEF Blocked, IInv, CallsInv
    <3>3. m \in Messages /\ IsFor(m, y)
      BY <3>2, Sorts DEF IsFor
    <3>4. phase[y] = "serving"
      BY <1>1, <3>1, <3>2 DEF IInv, HandlersInv
    <3>5. \A b \in Actors : IsFor(m, b) => b = y
      BY <1>1, <3>1, <3>3, OneRecipient DEF IInv
    <3>6. fate'[m] \in {"queued", "handling"}
      BY <1>1, <3>2, <3>3, <3>4, <3>5, FateStep DEF Settles, Handling, End, Waiting
    <3>7. waits'[x] = waits[x]
      BY <1>1, <3>1, <3>2, WaitStep DEF Acts
    <3>8. calls'[waits'[x]] = calls[waits[x]]
      BY <1>1, <3>2, <3>7, CallStep
    <3>9. QED
      BY <3>1, <3>2, <3>6, <3>7, <3>8 DEF Blocked
  <2>3. QED
    BY <2>1, <2>2 DEF Stuck, Deadlocked
<1>2. IInv /\ [Next]_vars => \A a \in Actors : Stuck(a) => Stuck(a)'
  BY <1>1
<1>3. QED
  BY Invariance, <1>2, PTL DEF Spec, DeadlockIsForEver

-----------------------------------------------------------------------------
(* Refinement                                                              *)

\* What of the fates and of its phase the contract of an actor sees.
FateAt(a) == [m \in Messages |-> IF IsFor(m, a) THEN fate[m] ELSE "unsent"]
PhaseAt(a) == IF phase[a] = "serving" THEN "serving" ELSE "ending"

\* Nothing happens to the actor, its handles left out.
Quiet(a) ==
  /\ UNCHANGED <<mailbox[a], backlog[a], FateAt(a), PhaseAt(a)>>
  /\ a \in stopped' <=> a \in stopped

\* The contract of an actor sees its handler and its messages.
LEMMA Views ==
  ASSUME NEW a \in Actors
  PROVE  (Contract(a)!Busy <=> Busy(a)) /\ Contract(a)!Waiting = Waiting(a)
BY DEF Contract!Busy, Contract!Waiting, Busy, Waiting, Handling

\* A message whose fate does not change looks the same.
LEMMA FateAtStep ==
  ASSUME IInv, [Next]_vars, NEW a \in Actors, NEW m \in Messages,
         fate'[m] = fate[m] \/ ~IsFor(m, a)'
  PROVE  FateAt(a)'[m] = FateAt(a)[m]
BY AddressStep DEF FateAt

\* Handles are held by parties and by messages.
LEMMA OwnersType ==
  ASSUME IInv, NEW a \in Actors
  PROVE  Owners(a) \subseteq Parties \cup Messages
<1>1. TypeOK /\ Made \subseteq 1..MaxCalls
  BY Typing DEF IInv
<1>2. Asking(a) \subseteq Messages /\ Forwarding(a) \subseteq Messages /\ Watching(a) \subseteq Messages
  BY <1>1, Sorts DEF Asking, Forwarding, Watching
<1>3. QED
  BY <1>2 DEF Owners

\* Handles of the actor are dropped, or one comes with a call.
LEMMA OwnersCases ==
  ASSUME IInv, [Next]_vars, NEW a \in Actors
  PROVE  \/ Owners(a)' \subseteq Owners(a)
         \/ /\ Owners(a) # {} \/ Busy(a)
            /\ \E h \in Parties \cup Messages : Owners(a)' = Owners(a) \cup {h}
<1> SUFFICES ASSUME ~ Owners(a)' \subseteq Owners(a)
             PROVE  /\ Owners(a) # {} \/ Busy(a)
                    /\ \E h \in Parties \cup Messages : Owners(a)' = Owners(a) \cup {h}
  OBVIOUS
<1>1. PICK c \in program.calls : Call(c) /\ a \in {c.to, c.back}
  BY OwnersStep
<1>2. Owners(a) # {} \/ Busy(a)
  BY <1>1, CallerKnows
<1>3. PICK n \in 1..MaxCalls :
        /\ n \notin Made /\ Made' = Made \cup {n}
        /\ calls'[n] = c /\ \A d \in Made : calls'[d] = calls[d]
        /\ fate[<<n, "ask">>] = "unsent" /\ fate[<<n, "value">>] = "unsent"
        /\ IF c.way = "drop" THEN UNCHANGED <<fate, mailbox>> ELSE Sends(<<n, "ask">>, c.to)
  BY <1>1, CallEffect
<1>4. UNCHANGED <<held, watcher>> /\ Made \subseteq 1..MaxCalls /\ fate \in [Messages -> Fates]
  BY <1>1, Typing DEF Call, linkVars, IInv, TypeOK, Fates
<1>5. \A m \in Messages \ {<<n, "ask">>} : fate'[m] = fate[m]
  BY <1>3, <1>4 DEF Sends, Post
<1>6. c.way # "drop" => fate'[<<n, "ask">>] # "unsent"
  BY <1>3, <1>4, Sorts DEF Sends, Post
<1>7. \A d \in Made : <<d, "ask">> \in Messages \ {<<n, "ask">>} /\ <<d, "value">> \in Messages \ {<<n, "ask">>}
  BY <1>3, <1>4, Sorts
<1>8. Owners(a) \subseteq Owners(a)'
  <2>1. {p \in Parties : a \in held[p]} \subseteq Owners(a)'
    BY <1>4 DEF Owners
  <2>2. ASSUME NEW d \in Made, calls[d].to = a, fate[<<d, "ask">>] = "unsent"
        PROVE  <<d, "ask">> \in Owners(a)'
    BY <1>3, <1>5, <1>7, <2>2 DEF Owners, Asking
  <2>3. ASSUME NEW d \in Actors, a \in watcher[d], fate[<<d, "outcome">>] = "unsent"
        PROVE  <<d, "outcome">> \in Owners(a)'
    <3>1. fate'[<<d, "outcome">>] = "unsent"
      BY <1>3, <1>5, <2>3, Sorts
    <3>2. QED
      BY <1>4, <2>3, <3>1 DEF Owners, Watching
  <2>4. ASSUME NEW d \in Made, <<d, "value">> \in Forwarding(a), calls[d].back = a,
               calls[d].way = "forward_to", fate[<<d, "value">>] = "unsent",
               fate[<<d, "ask">>] \in {"unsent", "queued", "handling"}
        PROVE  <<d, "value">> \in Owners(a)'
    BY <1>3, <1>5, <1>7, <2>4 DEF Owners, Forwarding
  <2>5. ASSUME NEW x \in Owners(a)
        PROVE  \/ x \in {p \in Parties : a \in held[p]}
               \/ \E d \in Made : x = <<d, "ask">> /\ calls[d].to = a /\ fate[x] = "unsent"
               \/ \E d \in Actors : x = <<d, "outcome">> /\ a \in watcher[d] /\ fate[x] = "unsent"
               \/ \E d \in Made :
                    /\ x = <<d, "value">> /\ x \in Forwarding(a) /\ calls[d].back = a
                    /\ calls[d].way = "forward_to" /\ fate[x] = "unsent"
                    /\ fate[<<d, "ask">>] \in {"unsent", "queued", "handling"}
    BY DEF Owners, Asking, Watching, Forwarding
  <2>6. QED
    BY <2>1, <2>2, <2>3, <2>4, <2>5
<1> DEFINE new == IF c.way = "drop" THEN <<n, "ask">> ELSE <<n, "value">>
<1>9. Owners(a)' \subseteq Owners(a) \cup {new}
  <2>1. {p \in Parties : a \in held'[p]} \subseteq Owners(a)
    BY <1>4 DEF Owners
  <2>2. ASSUME NEW d \in Made', calls'[d].to = a, fate'[<<d, "ask">>] = "unsent"
        PROVE  <<d, "ask">> \in Owners(a) \cup {new}
    <3>1. CASE d = n
      BY <1>6, <2>2, <3>1
    <3>2. CASE d \in Made
      BY <1>3, <1>5, <1>7, <2>2, <3>2 DEF Owners, Asking
    <3>3. QED
      BY <1>3, <3>1, <3>2
  <2>3. ASSUME NEW d \in Actors, a \in watcher'[d], fate'[<<d, "outcome">>] = "unsent"
        PROVE  <<d, "outcome">> \in Owners(a)
    <3>1. fate[<<d, "outcome">>] = "unsent"
      BY <1>3, <1>5, <2>3, Sorts
    <3>2. QED
      BY <1>4, <2>3, <3>1 DEF Owners, Watching
  <2>4. ASSUME NEW d \in Made', calls'[d].back = a, calls'[d].way = "forward_to",
               fate'[<<d, "value">>] = "unsent",
               fate'[<<d, "ask">>] \in {"unsent", "queued", "handling"}
        PROVE  <<d, "value">> \in Owners(a) \cup {new}
    <3>1. CASE d = n
      BY <1>3, <2>4, <3>1
    <3>2. CASE d \in Made
      BY <1>3, <1>5, <1>7, <2>4, <3>2 DEF Owners, Forwarding
    <3>3. QED
      BY <1>3, <3>1, <3>2
  <2>5. ASSUME NEW x \in Owners(a)'
        PROVE  \/ x \in {p \in Parties : a \in held'[p]}
               \/ \E d \in Made' : x = <<d, "ask">> /\ calls'[d].to = a /\ fate'[x] = "unsent"
               \/ \E d \in Actors : x = <<d, "outcome">> /\ a \in watcher'[d] /\ fate'[x] = "unsent"
               \/ \E d \in Made' :
                    /\ x = <<d, "value">> /\ calls'[d].back = a
                    /\ calls'[d].way = "forward_to" /\ fate'[x] = "unsent"
                    /\ fate'[<<d, "ask">>] \in {"unsent", "queued", "handling"}
    BY DEF Owners, Asking, Watching, Forwarding
  <2> HIDE DEF new
  <2>6. ASSUME NEW x \in Owners(a)' PROVE x \in Owners(a) \cup {new}
    <3>1. CASE x \in {p \in Parties : a \in held'[p]}
      BY <2>1, <3>1
    <3>2. CASE \E d \in Made' : x = <<d, "ask">> /\ calls'[d].to = a /\ fate'[x] = "unsent"
      BY <2>2, <3>2
    <3>3. CASE \E d \in Actors : x = <<d, "outcome">> /\ a \in watcher'[d] /\ fate'[x] = "unsent"
      BY <2>3, <3>3
    <3>4. CASE \E d \in Made' :
                 /\ x = <<d, "value">> /\ calls'[d].back = a
                 /\ calls'[d].way = "forward_to" /\ fate'[x] = "unsent"
                 /\ fate'[<<d, "ask">>] \in {"unsent", "queued", "handling"}
      BY <2>4, <3>4
    <3>5. QED
      BY <2>5, <3>1, <3>2, <3>3, <3>4
  <2>7. QED
    BY <2>6
<1>10. <<n, "ask">> \in Messages /\ <<n, "value">> \in Messages
  BY <1>3, Sorts
<1>11. QED
  BY <1>2, <1>8, <1>9, <1>10

\* Steps of the actor that do nothing to its handles.
LEMMA OwnersSame ==
  ASSUME IInv, [Next]_vars, NEW a \in Actors, Take(a) \/ ContextStop(a) \/ Leave(a)
  PROVE  Owners(a)' = Owners(a)
<1>1. UNCHANGED <<calls, held, watcher>> /\ Made \subseteq 1..MaxCalls
  BY Typing DEF Take, ContextStop, Leave, callVars, linkVars, IInv
<1>2. ASSUME NEW m \in Messages
      PROVE  /\ fate'[m] = "unsent" <=> fate[m] = "unsent"
             /\ fate'[m] \in {"unsent", "queued", "handling"}
                  <=> fate[m] \in {"unsent", "queued", "handling"}
  <2>1. CASE Take(a)
    <3>1. PICK n \in Messages : fate[n] = "queued" /\ fate' = [fate EXCEPT ![n] = "handling"]
      BY <2>1, TakeEffect DEF Waiting
    <3>2. fate \in [Messages -> Fates]
      BY DEF IInv, TypeOK, Fates
    <3>3. QED
      BY <3>1, <3>2
  <2>2. CASE ContextStop(a) \/ Leave(a)
    BY <2>2 DEF ContextStop, Leave, callVars
  <2>3. QED
    BY <2>1, <2>2
<1>3. \A d \in Made : <<d, "ask">> \in Messages /\ <<d, "value">> \in Messages
  BY <1>1, Sorts
<1>4. \A d \in Actors : <<d, "outcome">> \in Messages
  BY Sorts
<1>5. Asking(a)' = Asking(a) /\ Watching(a)' = Watching(a) /\ Forwarding(a)' = Forwarding(a)
  BY <1>1, <1>2, <1>3 DEF Asking, Watching, Forwarding, Made
<1>6. \A m \in Asking(a) \cup Watching(a) \cup Forwarding(a) : fate'[m] = "unsent" <=> fate[m] = "unsent"
  BY <1>2, <1>3, <1>4 DEF Asking, Watching, Forwarding
<1>7. QED
  BY <1>1, <1>5, <1>6 DEF Owners

\* Steps that are not of the actor, and do not send to it, touch only its handles.
LEMMA QuietCase ==
  ASSUME IInv, [Next]_vars, NEW a \in Actors, Quiet(a)
  PROVE  [Contract(a)!Next]_(Contract(a)!vars)
<1>1. CASE Owners(a)' \subseteq Owners(a)
  <2>1. Contract(a)!Release
    BY <1>1 DEF Contract!Release, Quiet, FateAt, PhaseAt
  <2>2. QED
    BY <2>1 DEF Contract!Next
<1>2. ASSUME Owners(a) # {} \/ Busy(a), NEW h \in Parties \cup Messages,
             Owners(a)' = Owners(a) \cup {h}
      PROVE  Contract(a)!Next
  <2>1. Contract(a)!Acquire(h)
    BY <1>2, Views DEF Contract!Acquire, Quiet, FateAt, PhaseAt
  <2>2. QED
    BY <2>1 DEF Contract!Next
<1>3. QED
  BY <1>1, <1>2, OwnersCases

\* A message that is sent to the actor is accepted or refused; others are quiet.
LEMMA SendsCase ==
  ASSUME IInv, [Next]_vars, NEW a \in Actors, NEW m \in Messages, NEW b \in Actors,
         Sends(m, b), IsFor(m, b)'
  PROVE  [Contract(a)!Next]_(Contract(a)!vars)
<1>1. IInv'
  BY TypeStep, CallsStep, HandlersStep, AbandonedStep, RefuseStep, FailuresStep, ForwardStep,
     OrderStep DEF IInv
<1>2. \A n \in Messages \ {m} : fate'[n] = fate[n]
  BY SendsEffect DEF IInv, TypeOK
<1>3. UNCHANGED <<phase, stopped, backlog>>
  BY DEF Sends, lifeVars
<1>4. CASE a # b
  <2>1. ~IsFor(m, a)'
    <3>1. CASE m \in Outcomes
      <4>1. m[1] \in Actors /\ (IsFor(m, a)' => a \in watcher'[m[1]] /\ b \in watcher'[m[1]])
        BY <3>1, Sorts DEF IsFor
      <4>2. QED
        BY <1>1, <1>4, <4>1, OneExitHandle DEF IInv, TypeOK, CallsInv
    <3>2. CASE m \notin Outcomes
      BY <1>4, <3>2, Sorts DEF IsFor
    <3>3. QED
      BY <3>1, <3>2
  <2>2. FateAt(a)' = FateAt(a)
    <3>1. \A n \in Messages : FateAt(a)'[n] = FateAt(a)[n]
      BY <1>2, <2>1, FateAtStep
    <3>2. QED
      BY <3>1 DEF FateAt
  <2>3. mailbox'[a] = mailbox[a]
    BY <1>4, SendsEffect
  <2>4. Quiet(a)
    BY <1>3, <2>2, <2>3 DEF Quiet, PhaseAt
  <2>5. QED
    BY <2>4, QuietCase
<1>5. CASE a = b
  <2> DEFINE f == IF phase[a] = "ended" THEN "rejected" ELSE "queued"
  <2>1. FateAt(a)[m] = "unsent" /\ FateAt(a)'[m] = f
    <3>1. fate[m] = "unsent" /\ fate'[m] = f
      BY <1>5, SendsEffect DEF Sends, IInv, TypeOK
    <3>2. QED
      BY <1>5, <3>1 DEF FateAt
  <2>2. FateAt(a)' = [FateAt(a) EXCEPT ![m] = f]
    <3>1. \A n \in Messages \ {m} : FateAt(a)'[n] = FateAt(a)[n]
      BY <1>2, FateAtStep
    <3>2. QED
      BY <2>1, <3>1 DEF FateAt
  <2>3. Owners(a)' \subseteq Parties \cup Messages
    <3>1. TypeOK' /\ Made' \subseteq 1..MaxCalls
      <4>1. calls' \in Seq(CallRecords) /\ Len(calls') <= MaxCalls /\ DOMAIN calls' = 1..Len(calls')
            /\ Len(calls') \in Nat
        BY CallStep, LenProperties
      <4>2. QED
        BY <1>1, <4>1, MaxCallsIsNat DEF IInv, Made
    <3>2. /\ \A c \in Made' : <<c, "ask">> \in Messages /\ <<c, "value">> \in Messages
          /\ \A d \in Actors : <<d, "outcome">> \in Messages
      BY <3>1, Sorts
    <3>3. Asking(a)' \subseteq Messages
      BY <3>2, Zenon DEF Asking
    <3>4. Forwarding(a)' \subseteq Messages
      BY <3>2, Zenon DEF Forwarding
    <3>5. Watching(a)' \subseteq Messages
      BY <3>2, Zenon DEF Watching
    <3>6. QED
      BY <3>3, <3>4, <3>5 DEF Owners
  <2>4. Owners(a) # {} \/ Busy(a)
    BY <1>5 DEF Sends
  <2>5. CASE phase[a] = "ended"
    <3>1. Owners(a) # {}
      BY <2>4, <2>5 DEF IInv, HandlersInv
    <3>2. UNCHANGED mailbox
      BY <1>5, <2>5 DEF Sends, Post
    <3>3. Contract(a)!Reject(m)
      BY <1>3, <2>1, <2>2, <2>3, <2>5, <3>1, <3>2 DEF Contract!Reject, FateAt
    <3>4. QED
      BY <3>3 DEF Contract!Next
  <2>6. CASE phase[a] # "ended"
    <3>1. [r \in {a} |-> mailbox'[a]] = [[r \in {a} |-> mailbox[a]] EXCEPT ![a] = Append(@, m)]
      BY <1>5, <2>6 DEF Sends, Post, IInv, TypeOK
    <3>2. Contract(a)!Accept(a, m)
      BY <1>3, <2>1, <2>2, <2>3, <2>4, <2>6, <3>1, Views DEF Contract!Accept, FateAt
    <3>3. QED
      BY <3>2 DEF Contract!Next
  <2>7. QED
    BY <2>5, <2>6
<1>6. QED
  BY <1>4, <1>5

\* Taking a message is what the contract says it is; it is quiet for the others.
LEMMA TakeCase ==
  ASSUME IInv, [Next]_vars, NEW a \in Actors, NEW b \in Actors, Take(b)
  PROVE  [Contract(a)!Next]_(Contract(a)!vars)
<1>1. /\ fate \in [Messages -> Fates] /\ mailbox \in [Actors -> Seq(Messages)]
      /\ Range(mailbox[b]) = Waiting(b) /\ IsInjective(mailbox[b])
  BY DEF IInv, TypeOK, HandlersInv, Fates
<1>2. /\ phase[b] = "serving" /\ ~Busy(b) /\ mailbox[b] # <<>>
      /\ mailbox' = [mailbox EXCEPT ![b] = Tail(@)]
      /\ fate' = [fate EXCEPT ![Head(mailbox[b])] = "handling"]
      /\ UNCHANGED <<calls, watcher, phase, stopped, backlog>>
  BY DEF Take, lifeVars, linkVars
<1>3. PICK m \in Messages : m = Head(mailbox[b]) /\ IsFor(m, b) /\ fate[m] = "queued"
  BY <1>1, <1>2, TailEffect DEF Waiting
<1>4. \A n \in Messages \ {m} : FateAt(a)'[n] = FateAt(a)[n]
  BY <1>1, <1>2, <1>3, FateAtStep
<1>5. IsFor(m, a)' <=> a = b
  <2>1. IsFor(m, a)' <=> IsFor(m, a)
    BY <1>3, AddressStep
  <2>2. QED
    BY <1>3, <2>1, OneRecipient DEF IInv
<1>6. CASE a = b
  <2>1. FateAt(a)' = [FateAt(a) EXCEPT ![m] = "handling"]
    <3>1. FateAt(a)'[m] = "handling"
      BY <1>1, <1>2, <1>3, <1>5, <1>6 DEF FateAt
    <3>2. QED
      BY <1>3, <1>4, <3>1 DEF FateAt
  <2>2. [r \in {a} |-> mailbox'[a]] = [[r \in {a} |-> mailbox[a]] EXCEPT ![a] = Tail(@)]
    BY <1>1, <1>2, <1>6
  <2>3. Owners(a)' = Owners(a)
    BY <1>6, OwnersSame
  <2>4. Contract(a)!Take(a)
    BY <1>2, <1>3, <1>6, <2>1, <2>2, <2>3, Views DEF Contract!Take, FateAt
  <2>5. QED
    BY <2>4 DEF Contract!Next
<1>7. CASE a # b
  <2>1. FateAt(a)' = FateAt(a)
    <3>1. FateAt(a)'[m] = FateAt(a)[m]
      BY <1>3, <1>5, <1>7, FateAtStep
    <3>2. QED
      BY <1>4, <3>1 DEF FateAt
  <2>2. Quiet(a)
    BY <1>1, <1>2, <1>7, <2>1 DEF Quiet, PhaseAt
  <2>3. QED
    BY <2>2, QuietCase
<1>8. QED
  BY <1>6, <1>7

\* A handler of the actor returns or panics; those of others are quiet.
LEMMA SettlesCase ==
  ASSUME IInv, [Next]_vars, NEW a \in Actors, NEW b \in Actors, NEW m \in Messages,
         HandlerReturns(b, m) \/ HandlerPanics(b, m)
  PROVE  [Contract(a)!Next]_(Contract(a)!vars)
<1>1. /\ fate \in [Messages -> Fates] /\ phase \in [Actors -> {"serving", "ending", "ended"}]
      /\ IsFor(m, b) /\ fate[m] = "handling"
  BY DEF IInv, TypeOK, Fates, HandlerReturns, HandlerPanics, Handling
<1>2. \A n \in Messages \ {m} : FateAt(a)'[n] = FateAt(a)[n]
  BY <1>1, FateAtStep DEF HandlerReturns, HandlerPanics
<1>3. UNCHANGED <<mailbox, stopped, backlog>>
  BY DEF HandlerReturns, HandlerPanics, lifeVars
<1>4. IsFor(m, a)' <=> a = b
  BY <1>1, AddressStep, OneRecipient DEF IInv
<1>5. CASE a # b
  <2>1. FateAt(a)' = FateAt(a)
    <3>1. FateAt(a)'[m] = FateAt(a)[m]
      BY <1>4, <1>5, FateAtStep
    <3>2. QED
      BY <1>2, <3>1 DEF FateAt
  <2>2. phase'[a] = phase[a]
    BY <1>1, <1>5 DEF HandlerReturns, HandlerPanics, lifeVars
  <2>3. Quiet(a)
    BY <1>3, <2>1, <2>2 DEF Quiet, PhaseAt
  <2>4. QED
    BY <2>3, QuietCase
<1>6. CASE a = b
  <2>1. FateAt(a)[m] = "handling" /\ FateAt(a)'[m] = fate'[m]
    BY <1>1, <1>4, <1>6 DEF FateAt
  <2>2. FateAt(a)' = [FateAt(a) EXCEPT ![m] = fate'[m]]
    BY <1>2, <2>1 DEF FateAt
  <2>3. Owners(a)' \subseteq Owners(a)
    <3>1. UNCHANGED calls
      BY DEF HandlerReturns, HandlerPanics
    <3>2. ~ \E c \in program.calls : Call(c)
      <4>1. ASSUME NEW c \in program.calls, Call(c) PROVE FALSE
        <5>1. PICK n \in 1..MaxCalls : n \notin Made /\ Made' = Made \cup {n}
          BY <4>1, CallEffect
        <5>2. QED
          BY <3>1, <5>1 DEF Made
      <4>2. QED
        BY <4>1
    <3>3. QED
      BY <3>2, OwnersStep
  <2>4. CASE HandlerReturns(b, m)
    <3>1. fate'[m] = "done" /\ UNCHANGED phase
      BY <1>1, <2>4 DEF HandlerReturns, lifeVars
    <3>2. Contract(a)!Complete(m)
      BY <1>3, <2>1, <2>2, <2>3, <3>1 DEF Contract!Complete, FateAt
    <3>3. QED
      BY <3>2 DEF Contract!Next
  <2>5. CASE HandlerPanics(b, m)
    <3>1. fate'[m] = "failed" /\ phase'[a] = "ending"
      BY <1>1, <1>6, <2>5 DEF HandlerPanics
    <3>2. Contract(a)!Panic(m)
      BY <1>3, <2>1, <2>2, <2>3, <3>1 DEF Contract!Panic, FateAt
    <3>3. QED
      BY <3>2 DEF Contract!Next
  <2>6. QED
    BY <2>4, <2>5
<1>7. QED
  BY <1>5, <1>6

\* A stop request, the end of the loop and the end of the actor.
LEMMA LifeCase ==
  ASSUME IInv, [Next]_vars, NEW a \in Actors, NEW b \in Actors,
         ContextStop(b) \/ Leave(b) \/ End(b)
  PROVE  [Contract(a)!Next]_(Contract(a)!vars)
<1>1. /\ fate \in [Messages -> Fates] /\ phase \in [Actors -> {"serving", "ending", "ended"}]
      /\ mailbox \in [Actors -> Seq(Messages)] /\ backlog \in [Actors -> SUBSET Messages]
      /\ \A c \in Actors : Range(mailbox[c]) = Waiting(c) /\ (c \notin stopped => backlog[c] = {})
  BY DEF IInv, TypeOK, HandlersInv, Fates
<1>2. UNCHANGED <<calls, watcher>>
  BY DEF ContextStop, Leave, End, callVars, linkVars
<1>3. UNCHANGED fate => UNCHANGED FateAt(a)
  BY <1>2 DEF FateAt, IsFor, Made
<1>4. CASE ContextStop(b) /\ a # b
  <2>1. Quiet(a)
    BY <1>1, <1>3, <1>4 DEF ContextStop, Quiet, PhaseAt, callVars
  <2>2. QED
    BY <2>1, QuietCase
<1>5. CASE ContextStop(b) /\ a = b
  <2>1. Busy(a)
    BY <1>5, ActorsAreNotTasks DEF ContextStop, Acts, Busy
  <2>2. a \in stopped' /\ backlog'[a] = Waiting(a) /\ backlog[a] = {}
        /\ UNCHANGED <<fate, mailbox, phase>>
    BY <1>1, <1>5 DEF ContextStop, callVars
  <2>3. Contract(a)!Stop
    BY <1>3, <1>5, <2>1, <2>2, OwnersSame, Views DEF Contract!Stop, FateAt
  <2>4. QED
    BY <2>3 DEF Contract!Next
<1>6. CASE Leave(b) /\ a # b
  <2>1. Quiet(a)
    BY <1>1, <1>3, <1>6 DEF Leave, Quiet, PhaseAt, callVars
  <2>2. QED
    BY <2>1, QuietCase
<1>7. CASE Leave(b) /\ a = b
  <2>1. /\ phase[a] = "serving" /\ ~Busy(a) /\ (Owners(a) = {} \/ a \in stopped)
        /\ backlog[a] \cap Waiting(a) = {} /\ phase'[a] = "ending"
        /\ UNCHANGED <<fate, mailbox, stopped, backlog>>
    BY <1>1, <1>7 DEF Leave, callVars
  <2>2. Contract(a)!Leave
    BY <1>3, <1>7, <2>1, OwnersSame, Views DEF Contract!Leave, FateAt
  <2>3. QED
    BY <2>2 DEF Contract!Next
<1>8. ASSUME End(b), a # b
      PROVE  [Contract(a)!Next]_(Contract(a)!vars)
  <2>1. ASSUME NEW n \in Messages PROVE FateAt(a)'[n] = FateAt(a)[n]
    <3>1. CASE IsFor(n, a)'
      <4>1. IsFor(n, a)
        BY <1>2, <3>1 DEF IsFor, Made
      <4>2. n \notin Waiting(b)
        BY <1>8, <4>1, OneRecipient DEF Waiting, IInv
      <4>3. fate'[n] = fate[n]
        BY <1>8, <4>2 DEF End
      <4>4. QED
        BY <4>3, FateAtStep
    <3>2. CASE ~IsFor(n, a)'
      BY <3>2, FateAtStep
    <3>3. QED
      BY <3>1, <3>2
  <2>2. FateAt(a)' = FateAt(a)
    BY <2>1 DEF FateAt
  <2>3. Quiet(a)
    BY <1>1, <1>8, <2>2 DEF End, Quiet, PhaseAt
  <2>4. QED
    BY <2>3, QuietCase
<1>9. ASSUME End(b), a = b
      PROVE  Contract(a)!Next
  <2>1. /\ phase[a] = "ending" /\ phase'[a] = "ended" /\ UNCHANGED <<stopped, backlog>>
        /\ mailbox'[a] = <<>>
        /\ fate' = [m \in Messages |-> IF m \in Waiting(a) THEN "lost" ELSE fate[m]]
    BY <1>1, <1>9 DEF End
  <2>2. ASSUME NEW n \in Messages
        PROVE  FateAt(a)'[n] = IF n \in Range(mailbox[a]) THEN "lost" ELSE FateAt(a)[n]
    <3>1. IsFor(n, a)' <=> IsFor(n, a)
      BY <1>2 DEF IsFor, Made
    <3>2. n \in Range(mailbox[a]) <=> IsFor(n, a) /\ fate[n] = "queued"
      BY <1>1 DEF Waiting
    <3>3. QED
      BY <2>1, <3>1, <3>2 DEF FateAt, Waiting
  <2>3. FateAt(a)' = [m \in Messages |-> IF m \in Range(mailbox[a]) THEN "lost" ELSE FateAt(a)[m]]
    BY <2>2 DEF FateAt
  <2>4. Owners(a)' \subseteq Owners(a)
    <3>1. ~ \E c \in program.calls : Call(c)
      BY <1>1, <1>9 DEF Call, End, lifeVars
    <3>2. QED
      BY <3>1, OwnersStep
  <2>5. Contract(a)!Lose(a)
    <3>1. /\ [r \in {a} |-> mailbox'[a]] = [[r \in {a} |-> mailbox[a]] EXCEPT ![a] = <<>>]
          /\ [r \in {a} |-> mailbox[a]][a] = mailbox[a]
      BY <2>1
    <3>2. Contract(a)!Range([r \in {a} |-> mailbox[a]][a]) = Range(mailbox[a])
      BY <3>1 DEF Contract!Range, Range
    <3>3. QED
      BY <2>1, <2>3, <2>4, <3>1, <3>2 DEF Contract!Lose, FateAt
  <2>6. QED
    BY <2>5 DEF Contract!Next
<1>10. QED
  BY <1>4, <1>5, <1>6, <1>7, <1>8, <1>9

\* At first an actor serves, somebody holds it and nothing was sent to it.
LEMMA InitCase ==
  ASSUME Init, NEW a \in Actors
  PROVE  Contract(a)!Init
<1>1. Owners(a) # {}
  BY ActorsAreNotTasks DEF Init, Owners, Parties
<1>2. Owners(a) \subseteq Parties \cup Messages
  BY InitIInv, OwnersType
<1>3. QED
  BY <1>1, <1>2 DEF Init, Contract!Init

\* Whatever the others do, each actor is an actor of ActorContract: calls, forwarded
\* values, outcomes and the loss of handles come to it as steps of the contract.
THEOREM Implementation == Spec => EachKeepsItsContract
<1>1. ASSUME IInv, [Next]_vars, NEW a \in Actors
      PROVE  [Contract(a)!Next]_(Contract(a)!vars)
  <2>1. CASE UNCHANGED <<mailbox, fate, phase, stopped, backlog>>
    <3>1. \A m \in Messages : FateAt(a)'[m] = FateAt(a)[m]
      BY <1>1, <2>1, FateAtStep
    <3>2. Quiet(a)
      BY <2>1, <3>1 DEF Quiet, FateAt, PhaseAt
    <3>3. QED
      BY <1>1, <3>2, QuietCase
  <2>2. CASE \E m \in Messages, b \in Actors : Sends(m, b) /\ IsFor(m, b)'
    BY <1>1, <2>2, SendsCase
  <2>3. CASE \E b \in Actors : Take(b)
    BY <1>1, <2>3, TakeCase
  <2>4. CASE \E b \in Actors, m \in Messages : HandlerReturns(b, m) \/ HandlerPanics(b, m)
    BY <1>1, <2>4, SettlesCase
  <2>5. CASE \E b \in Actors : ContextStop(b) \/ Leave(b) \/ End(b)
    BY <1>1, <2>5, LifeCase
  <2>6. CASE \/ \E p \in Parties, b \in Actors : Release(p, b)
             \/ \E p \in Parties : Resume(p)
             \/ \E b \in Actors : DropState(b)
             \/ UNCHANGED vars
    BY <2>1, <2>6 DEF Release, Resume, DropState, vars, callVars, lifeVars
  <2>7. ASSUME NEW c \in program.calls, Call(c)
        PROVE  [Contract(a)!Next]_(Contract(a)!vars)
    <3>1. UNCHANGED <<phase, stopped, backlog>>
      BY <2>7 DEF Call, lifeVars
    <3>2. QED
      BY <1>1, <2>1, <2>2, <2>7, <3>1, CallSends
  <2>8. CASE \/ \E c \in Made : Send(c)
             \/ \E b, d \in Actors : SendOutcome(b, d)
             \/ \E b \in Actors, c \in Made : Forward(b, c)
    BY <1>1, <2>2, <2>8, OthersSend
  <2>9. QED
    BY <1>1, <2>3, <2>4, <2>5, <2>6, <2>7, <2>8 DEF Next, HandlerEnds
<1>2. Init => \A a \in Actors : Contract(a)!Init
  BY InitCase
<1>3. IInv /\ [Next]_vars => \A a \in Actors : [Contract(a)!Next]_(Contract(a)!vars)
  BY <1>1
<1>4. QED
  BY Invariance, <1>2, <1>3, PTL DEF Spec, EachKeepsItsContract
=============================================================================
