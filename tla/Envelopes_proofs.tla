-------------------------- MODULE Envelopes_proofs --------------------------
(***************************************************************************)
(* Proofs about Envelopes for any number of calls, client tasks and roles. *)
(* Every step there is a step of ActorLoop, so the invariant of ActorLoop  *)
(* holds there too; with it EnvInv is inductive (a lemma per conjunct),    *)
(* and it implies what the callers rely on.                                *)
(***************************************************************************)
EXTENDS Envelopes, ActorLoop_proofs

-----------------------------------------------------------------------------
(* Steps                                                                   *)

\* Calls and client tasks are different holders.
LEMMA Places ==
  Msgs \subseteq Holders /\ Clients \subseteq Holders /\ Msgs \cap Clients = {}
  BY CallsAreHolders DEF Clients

\* What the calls and the client tasks do is what holders do.
LEMMA EnvStep ==
  ASSUME EnvTypeOK, [EnvNext]_envVars
  PROVE  [Next]_vars
<1> USE Places
<1>1. CASE ActorStep
  BY <1>1 DEF ActorStep, Next
<1>2. CASE ClientStep
  BY <1>2 DEF ClientStep, Next
<1>3. ASSUME NEW c \in Clients, NEW r \in Roles, NEW m \in Msgs, MakeCall(c, r, m)
      PROVE  [Next]_vars
  BY <1>3 DEF MakeCall, Next
<1>4. ASSUME NEW m \in Msgs, PollSend(m)
      PROVE  [Next]_vars
  <2>1. dest[m] \in Roles /\ m \in Holders
    BY DEF EnvTypeOK
  <2>2. QED
    BY <1>4, <2>1 DEF PollSend, Next
<1>5. ASSUME NEW m \in Msgs,
             DropEnvelope(m) \/ IntoFuture(m) \/ CallSendingMethod(m) \/ PollReply(m)
      PROVE  [Next]_vars
  BY <1>5 DEF DropEnvelope, IntoFuture, CallSendingMethod, PollReply
<1>6. ASSUME NEW m \in Msgs, FinishSend(m) \/ Cancel(m)
      PROVE  [Next]_vars
  BY <1>6 DEF FinishSend, Cancel, Next
<1>7. CASE UNCHANGED envVars
  BY <1>7 DEF envVars
<1>8. QED
  BY <1>1, <1>2, <1>3, <1>4, <1>5, <1>6, <1>7 DEF EnvNext, CallStep

\* Only the poll of a call sends its message, or has it refused.
LEMMA OnlyPollsSend ==
  ASSUME EnvTypeOK, MailboxInv, [EnvNext]_envVars, NEW m \in Msgs
  PROVE  \/ fate'[m] = fate[m]
         \/ fate[m] \notin {"unsent", "rejected"} /\ fate'[m] \notin {"unsent", "rejected"}
         \/ /\ fate[m] = "unsent" /\ fate'[m] \in {"queued", "rejected"}
            /\ PollSend(m)
<1>1. TypeOK
  BY DEF EnvTypeOK
<1>2. ASSUME NEW n \in Msgs, PollSend(n)
      PROVE  /\ n = m \/ fate'[m] = fate[m]
             /\ fate[n] = "unsent" /\ fate'[n] \in {"queued", "rejected"}
  BY <1>1, <1>2 DEF PollSend, Send, TypeOK
<1>3. CASE ActorStep
  BY <1>1, <1>3, ActorEffect DEF ActorStep
<1>4. CASE ClientStep
  BY <1>4 DEF ClientStep, GetShell, ReleaseHandle, CloneHandle
<1>5. ASSUME NEW c \in Clients, NEW r \in Roles, NEW n \in Msgs, MakeCall(c, r, n)
      PROVE  fate' = fate
  BY <1>5 DEF MakeCall, CloneHandle
<1>6. ASSUME NEW n \in Msgs,
             \/ DropEnvelope(n) \/ IntoFuture(n) \/ CallSendingMethod(n)
             \/ FinishSend(n) \/ PollReply(n) \/ Cancel(n)
      PROVE  fate' = fate
  BY <1>6 DEF DropEnvelope, IntoFuture, CallSendingMethod, FinishSend, PollReply,
     Cancel, ReleaseHandle, vars
<1>7. CASE UNCHANGED envVars
  BY <1>7 DEF envVars, vars
<1>8. QED
  BY <1>2, <1>3, <1>4, <1>5, <1>6, <1>7 DEF EnvNext, CallStep

\* What is noted of a call when it is made stays as it is; making another call
\* is the only step that notes anything.
LEMMA NotesStay ==
  ASSUME EnvTypeOK, [EnvNext]_envVars
  PROVE  \/ UNCHANGED <<dest, caller, after>>
         \/ \E c \in Clients, r \in Roles, m \in Msgs : MakeCall(c, r, m)
  BY DEF EnvNext, CallStep, ActorStep, ClientStep, DropEnvelope, IntoFuture,
     CallSendingMethod, PollSend, FinishSend, PollReply, Cancel, Advance, callVars, envVars

-----------------------------------------------------------------------------
(* Each conjunct of the invariant is preserved by every step.              *)

\* A call owns an Arc of the actor from its envelope to the end of its send.
LEMMA EnvTypeStep ==
  ASSUME EnvTypeOK, MailboxInv, CallInv, [EnvNext]_envVars
  PROVE  EnvTypeOK'
<1> USE Places
<1>1. TypeOK /\ TypeOK'
  BY EnvStep, TypeStep DEF EnvTypeOK
<1>2. CASE ActorStep
  <2>1. UNCHANGED handles
    BY <1>1, <1>2, ActorEffect DEF ActorStep
  <2>2. QED
    BY <1>1, <1>2, <2>1 DEF ActorStep, EnvTypeOK, callVars
<1>3. CASE ClientStep
  <2>1. \A m \in Msgs : m \in handles' <=> m \in handles
    BY <1>3 DEF ClientStep, GetShell, ReleaseHandle, CloneHandle
  <2>2. QED
    BY <1>1, <1>3, <2>1 DEF ClientStep, EnvTypeOK, callVars
<1>4. ASSUME NEW c \in Clients, NEW r \in Roles, NEW m \in Msgs, MakeCall(c, r, m)
      PROVE  EnvTypeOK'
  <2>1. handles' = handles \cup {m} /\ call' = [call EXCEPT ![m] = "made"]
    BY <1>4 DEF MakeCall, CloneHandle
  <2>2. /\ dest' \in [Msgs -> Roles] /\ caller' \in [Msgs -> Clients]
        /\ after' \in [Msgs -> SUBSET Msgs]
    BY <1>4 DEF MakeCall, EnvTypeOK
  <2>3. QED
    BY <1>1, <2>1, <2>2 DEF EnvTypeOK
<1>5. ASSUME NEW m \in Msgs, PollSend(m)
      PROVE  EnvTypeOK'
  BY <1>1, <1>5 DEF PollSend, Send, EnvTypeOK, callVars
<1>6. ASSUME NEW m \in Msgs, DropEnvelope(m) \/ IntoFuture(m) \/ CallSendingMethod(m)
      PROVE  EnvTypeOK'
  <2>1. /\ UNCHANGED <<handles, dest, caller, after>>
        /\ call[m] \in {"made", "sending"}
        /\ \E to \in Pending : call' = [call EXCEPT ![m] = to]
    BY <1>6 DEF DropEnvelope, IntoFuture, CallSendingMethod, Advance, Pending,
       Background, vars
  <2>2. QED
    BY <1>1, <2>1 DEF EnvTypeOK, Pending
<1>7. ASSUME NEW m \in Msgs, FinishSend(m) \/ PollReply(m) \/ Cancel(m)
      PROVE  EnvTypeOK'
  <2>1. /\ UNCHANGED <<dest, caller, after>>
        /\ \E to \in {"gone", "refused", "sent", "waiting", "returned", "hungup"} :
             call' = [call EXCEPT ![m] = to]
    BY <1>7 DEF FinishSend, PollReply, Cancel, Advance
  <2>2. handles' = handles \ {m}
    BY <1>7 DEF FinishSend, PollReply, Cancel, ReleaseHandle, EnvTypeOK, Pending,
       Background, vars
  <2>3. QED
    BY <1>1, <2>1, <2>2 DEF EnvTypeOK, Pending, Background
<1>8. CASE UNCHANGED envVars
  BY <1>1, <1>8 DEF envVars, callVars, vars, EnvTypeOK
<1>9. QED
  BY <1>2, <1>3, <1>4, <1>5, <1>6, <1>7, <1>8 DEF EnvNext, CallStep

\* A caller learns of its message only what has become of it for good.
LEMMA CallStays ==
  ASSUME EnvTypeOK, MailboxInv, CallInv, [EnvNext]_envVars
  PROVE  CallInv'
<1>1. TypeOK /\ [Next]_vars
  BY EnvStep DEF EnvTypeOK
<1>2. SUFFICES ASSUME NEW m \in Msgs
      PROVE  /\ call'[m] \in {"none", "made"} => fate'[m] = "unsent"
             /\ call'[m] \in {"waiting", "sent"} => fate'[m] \notin {"unsent", "rejected"}
             /\ call'[m] = "returned" => fate'[m] = "done"
             /\ call'[m] = "hungup" => fate'[m] \in {"failed", "lost"}
             /\ call'[m] = "refused" => fate'[m] = "rejected"
  BY DEF CallInv
<1>3. CASE call'[m] = call[m]
  <2>1. fate[m] \in {"done", "failed", "lost", "rejected"} => fate'[m] = fate[m]
    BY <1>1, FateChanges DEF EnvTypeOK
  <2>2. fate[m] \notin {"unsent", "rejected"} => fate'[m] \notin {"unsent", "rejected"}
    BY OnlyPollsSend
  <2>3. call[m] \in {"none", "made"} => fate'[m] = fate[m]
    BY OnlyPollsSend DEF PollSend, Pending, Background, CallInv
  <2>4. QED
    BY <1>3, <2>1, <2>2, <2>3 DEF CallInv
<1>4. CASE call'[m] # call[m]
  <2>1. \/ call[m] = "none" /\ call'[m] = "made"
        \/ call[m] \in {"made", "sending"} /\ call'[m] \in Pending
        \/ FinishSend(m) /\ call' = [call EXCEPT ![m] = call'[m]]
        \/ PollReply(m)
        \/ call'[m] = "gone"
    BY <1>4 DEF EnvNext, CallStep, ActorStep, ClientStep, MakeCall, DropEnvelope, IntoFuture,
       CallSendingMethod, PollSend, FinishSend, PollReply, Cancel, Advance, Pending,
       Background, EnvTypeOK, callVars, envVars
  <2>2. fate'[m] = fate[m]
    BY <1>4 DEF EnvNext, CallStep, ActorStep, ClientStep, MakeCall, DropEnvelope,
       IntoFuture, CallSendingMethod, PollSend, FinishSend, PollReply, Cancel,
       CloneHandle, ReleaseHandle, callVars, envVars, vars
  <2>3. QED
    BY <2>1, <2>2 DEF CallInv, Pending, Background, FinishSend, PollReply, Advance, EnvTypeOK
<1>5. QED
  BY <1>3, <1>4

\* A refusal has a cause, for good.
LEMMA RefusedStep ==
  ASSUME IInv, EnvTypeOK, RefusedInv, [EnvNext]_envVars
  PROVE  RefusedInv'
<1>1. TypeOK /\ ControlInv /\ GuardInv /\ MailboxInv /\ [Next]_vars
  BY EnvStep DEF IInv
<1>2. ~running \/ ended = "panicked" => ~running' \/ ended' = "panicked"
  BY <1>1, OverForGood
<1>3. SUFFICES ASSUME NEW m \in Msgs, fate'[m] = "rejected"
               PROVE  ~running \/ ended = "panicked"
  BY <1>2 DEF RefusedInv
<1>4. CASE fate[m] = "rejected"
  BY <1>4 DEF RefusedInv
<1>5. CASE fate[m] # "rejected"
  <2>1. Send(m, dest[m], m) /\ dest[m] \in Roles /\ m \in Holders
    BY <1>1, <1>3, <1>5, OnlyPollsSend, Places DEF PollSend, EnvTypeOK
  <2>2. QED
    BY <1>1, <1>3, <2>1, RefusalCause
<1>6. QED
  BY <1>4, <1>5

\* A call whose result is known changes no more, and no call is unmade.
LEMMA ResultsStay ==
  ASSUME EnvTypeOK, [EnvNext]_envVars, NEW m \in Msgs
  PROVE  /\ call[m] \in {"sent", "returned", "hungup"} => call'[m] = call[m]
         /\ call[m] # "none" => call'[m] # "none"
  BY DEF EnvNext, CallStep, ActorStep, ClientStep, MakeCall, DropEnvelope, IntoFuture,
     CallSendingMethod, PollSend, FinishSend, PollReply, Cancel, Advance, Pending,
     Background, EnvTypeOK, callVars, envVars

\* What MakeCall notes of the new call.
LEMMA CallEffect ==
  ASSUME EnvTypeOK, CallInv, NEW c \in Clients, NEW r \in Roles, NEW m \in Msgs,
         MakeCall(c, r, m)
  PROVE  /\ call[m] = "none" /\ call'[m] = "made" /\ fate[m] = "unsent"
         /\ \A n \in after'[m] :
              n \in Msgs \ {m} /\ call[n] \in {"sent", "returned", "hungup"}
         /\ \A n \in Msgs \ {m} : after'[n] = after[n] /\ dest'[n] = dest[n]
         /\ UNCHANGED <<queue, fate>>
<1>1. call[m] = "none" /\ call'[m] = "made"
  BY DEF MakeCall, EnvTypeOK
<1>2. after'[m] = {n \in Msgs : caller[n] = c /\ call[n] \in {"sent", "returned", "hungup"}}
  BY DEF MakeCall, EnvTypeOK
<1>3. QED
  BY <1>1, <1>2 DEF MakeCall, CloneHandle, EnvTypeOK, CallInv

\* The calls a call comes after stay delivered.
LEMMA AfterStep ==
  ASSUME EnvTypeOK, CallInv, AfterInv, [EnvNext]_envVars
  PROVE  AfterInv'
<1>1. CASE UNCHANGED after
  <2>1. \A n \in Msgs : after[n] \subseteq Msgs
    BY DEF EnvTypeOK
  <2>2. QED
    BY <1>1, <2>1, ResultsStay DEF AfterInv
<1>2. ASSUME NEW c \in Clients, NEW r \in Roles, NEW k \in Msgs, MakeCall(c, r, k)
      PROVE  AfterInv'
  <2>1. SUFFICES ASSUME NEW n \in Msgs, NEW m \in after'[n]
                 PROVE  call'[n] # "none" /\ call'[m] \in {"sent", "returned", "hungup"}
    BY DEF AfterInv
  <2>2. CASE n = k
    BY <1>2, <2>1, <2>2, CallEffect, ResultsStay
  <2>3. CASE n # k
    <3>1. m \in after[n] /\ m \in Msgs
      BY <1>2, <2>1, <2>3, CallEffect DEF EnvTypeOK
    <3>2. QED
      BY <3>1, ResultsStay DEF AfterInv
  <2>4. QED
    BY <2>2, <2>3
<1>3. QED
  BY <1>1, <1>2, NotesStay

\* A message is in no channel but that of its role, behind all it comes after.
LEMMA LineStep ==
  ASSUME EnvTypeOK, MailboxInv, CallInv, AfterInv, LineInv, [EnvNext]_envVars
  PROVE  LineInv'
<1>1. TypeOK /\ [Next]_vars
  BY EnvStep DEF EnvTypeOK
<1>2. ASSUME NEW n \in Msgs, fate[n] = "unsent", NEW r \in Roles, NEW k \in Slots(r)
      PROVE  queue[r][k] # n
  BY <1>2 DEF MailboxInv
<1>3. ASSUME NEW n \in Msgs, NEW r \in Roles, NEW k \in Slots(r)', queue'[r][k] = n
      PROVE  r = dest'[n]
  <2>1. CASE \E i \in Slots(r) : queue[r][i] = queue'[r][k]
    <3>1. r = dest[n] /\ fate[n] = "queued"
      BY <1>3, <2>1 DEF LineInv, MailboxInv
    <3>2. dest'[n] = dest[n]
      BY <3>1, NotesStay, CallEffect
    <3>3. QED
      BY <3>1, <3>2
  <2>2. ASSUME NEW h \in Holders, Send(h, r, n),
               ~\E i \in Slots(r) : queue[r][i] = queue'[r][k]
        PROVE  r = dest'[n]
    <3>1. fate[n] = "unsent" /\ fate'[n] # "unsent"
      BY <1>1, <2>2 DEF Send, TypeOK
    <3>2. PollSend(n)
      BY <3>1, OnlyPollsSend
    <3>3. Send(n, dest[n], n) /\ dest'[n] = dest[n]
      BY <3>2 DEF PollSend, callVars
    <3>4. r # dest[n] => queue'[r] = queue[r]
      BY <1>1, <3>3 DEF Send, TypeOK
    <3>5. queue'[r] # queue[r]
      BY <2>2 DEF Slots
    <3>6. QED
      BY <3>3, <3>4, <3>5
  <2>3. QED
    BY <1>1, <1>3, <2>1, <2>2, QueueFill
<1>4. ASSUME NEW n \in Msgs, NEW r \in Roles, NEW m \in after'[n]
      PROVE  m # n /\ Ahead(r, m, n)'
  <2>1. CASE m \in after[n]
    <3>1. m # n /\ Ahead(r, m, n) /\ m \in Msgs
      BY <2>1 DEF LineInv, EnvTypeOK
    <3>2. fate[m] # "unsent"
      BY <2>1, <3>1 DEF AfterInv, CallInv
    <3>3. QED
      BY <1>1, <3>1, <3>2, AheadStays
  <2>2. ASSUME NEW c \in Clients, NEW s \in Roles, MakeCall(c, s, n)
        PROVE  m # n /\ Ahead(r, m, n)'
    <3>1. m # n /\ fate[n] = "unsent" /\ UNCHANGED queue
      BY <1>4, <2>2, CallEffect
    <3>2. QED
      BY <1>2, <3>1 DEF Ahead, Slots
  <2>3. QED
    BY <1>4, <2>1, <2>2, NotesStay, CallEffect
<1>5. QED
  BY <1>3, <1>4 DEF LineInv

\* A handler takes a message only when those it comes after were handled.
LEMMA OrderStep ==
  ASSUME IInv, EnvTypeOK, CallInv, AfterInv, LineInv, HappensBefore, [EnvNext]_envVars
  PROVE  HappensBefore'
<1>1. TypeOK /\ ControlInv /\ MailboxInv /\ FateInv /\ [Next]_vars
  BY EnvStep DEF IInv
<1>2. SUFFICES ASSUME NEW n \in Msgs, NEW m \in after'[n], dest'[m] = dest'[n],
                      fate'[n] \in {"handling", "done", "failed"}
               PROVE  fate'[m] \in {"done", "failed"}
  BY DEF HappensBefore
<1>3. fate[n] # "unsent"
  BY <1>1, <1>2, OnlyPollsSend
<1>4. m \in after[n] /\ m \in Msgs /\ dest[m] = dest[n]
  <2>1. after'[n] = after[n]
    BY <1>3, NotesStay, CallEffect
  <2>2. m \in after[n] /\ m \in Msgs
    BY <1>2, <2>1 DEF EnvTypeOK
  <2>3. fate[m] # "unsent"
    BY <2>2 DEF AfterInv, CallInv
  <2>4. dest'[m] = dest[m] /\ dest'[n] = dest[n]
    BY <1>3, <2>2, <2>3, NotesStay, CallEffect
  <2>5. QED
    BY <1>2, <2>2, <2>4
<1>5. CASE fate[m] \in {"done", "failed"}
  BY <1>1, <1>4, <1>5, FateChanges
<1>6. CASE fate[m] \notin {"done", "failed"}
  <2>1. fate[n] \notin {"handling", "done", "failed"}
    BY <1>4, <1>6 DEF HappensBefore
  <2>2. PICK r \in Roles : fate[n] = "queued" /\ TakeMessage(r) /\ queue[r][1] = n
    BY <1>1, <1>2, <2>1, FateChanges
  <2>3. 1 \in Slots(r) /\ pc = "poll"
    BY <1>1, <2>2, TakeEffect DEF TakeMessage
  <2>4. fate[m] # "queued"
    <3>1. SUFFICES ASSUME fate[m] = "queued" PROVE FALSE
      OBVIOUS
    <3>2. PICK s \in Roles : \E k \in Slots(s) : queue[s][k] = m
      BY <1>1, <1>4, <3>1 DEF MailboxInv
    <3>3. PICK k \in Slots(s) : queue[s][k] = m
      BY <3>2
    <3>4. s = r
      BY <1>4, <2>2, <2>3, <3>3 DEF LineInv
    <3>5. k < 1
      BY <1>4, <2>2, <2>3, <3>3, <3>4 DEF LineInv, Ahead
    <3>6. k \in 1..Len(queue[r])
      BY <3>3, <3>4 DEF Slots
    <3>7. QED
      BY <3>5, <3>6
  <2>5. fate[m] \notin {"handling", "lost"}
    BY <1>1, <1>4, <2>3 DEF FateInv, ControlInv, Looping
  <2>6. fate[m] \notin {"unsent", "rejected"}
    BY <1>4 DEF AfterInv, CallInv
  <2>7. QED
    BY <1>1, <1>4, <1>6, <2>4, <2>5, <2>6 DEF TypeOK
<1>7. QED
  BY <1>5, <1>6

-----------------------------------------------------------------------------
(* Theorems                                                                *)

LEMMA InitEnvInv == EnvInit => Init /\ IInv /\ EnvInv
<1> SUFFICES ASSUME EnvInit PROVE Init /\ IInv /\ EnvInv
  OBVIOUS
<1>1. Init /\ IInv /\ TypeOK
  BY InitIInv DEF EnvInit, IInv
<1>2. EnvTypeOK
  <2>1. dest \in [Msgs -> Roles]
    BY ConstantsAssumption DEF EnvInit, Roles
  <2>2. caller \in [Msgs -> Clients] /\ after \in [Msgs -> SUBSET Msgs]
    BY DEF EnvInit
  <2>3. \A m \in Msgs : m \notin handles
    BY Places DEF EnvInit
  <2>4. QED
    BY <1>1, <2>1, <2>2, <2>3 DEF EnvInit, EnvTypeOK, Pending, Background
<1>3. /\ \A m \in Msgs : fate[m] = "unsent" /\ call[m] = "none" /\ after[m] = {}
      /\ \A r \in Roles : Slots(r) = {}
  BY DEF EnvInit, Init, Slots
<1>4. QED
  BY <1>1, <1>2, <1>3
     DEF EnvInv, CallInv, RefusedInv, AfterInv, LineInv, HappensBefore

LEMMA StepEnvInv == IInv /\ EnvInv /\ [EnvNext]_envVars => IInv' /\ EnvInv' /\ [Next]_vars
<1> SUFFICES ASSUME IInv, EnvInv, [EnvNext]_envVars PROVE IInv' /\ EnvInv' /\ [Next]_vars
  OBVIOUS
<1>1. [Next]_vars /\ IInv'
  BY EnvStep, StepIInv DEF EnvInv
<1>2. EnvTypeOK' /\ CallInv' /\ RefusedInv'
  BY EnvTypeStep, CallStays, RefusedStep DEF EnvInv, IInv
<1>3. AfterInv' /\ LineInv'
  BY AfterStep, LineStep DEF EnvInv, IInv
<1>4. HappensBefore'
  BY OrderStep DEF EnvInv
<1>5. QED
  BY <1>1, <1>2, <1>3, <1>4 DEF EnvInv

\* The invariant of the calls holds throughout, and that of the actor's loop with
\* it, however many calls and client tasks there are.
THEOREM EnvInvariance == EnvSpec => [](IInv /\ EnvInv)
  BY InitEnvInv, StepEnvInv, PTL DEF EnvSpec

\* To the actor an envelope is a holder like any other: what was shown of ActorLoop
\* holds while calls are made on it.
THEOREM CallsActAsHolders == EnvSpec => Spec
  BY InitEnvInv, StepEnvInv, PTL DEF EnvSpec, Spec

\* A call that fails to be sent (EnvelopeErr::SendingError) means a stop or a panic.
THEOREM RefusedForAReason == EnvSpec => []RefusedMeansStopOrPanic
<1>1. EnvInv => RefusedMeansStopOrPanic
  BY DEF EnvInv, CallInv, RefusedInv, RefusedMeansStopOrPanic
<1>2. QED
  BY <1>1, EnvInvariance, PTL

\* An error of either kind reaches a caller only when the loop is over.
THEOREM ErrorsAreFinal == EnvSpec => []ErrorIsFinal
<1>1. ASSUME IInv, EnvInv, NEW m \in Msgs, call[m] \in {"refused", "hungup"}
      PROVE  ended # "no" /\ \A n \in Msgs : fate[n] # "handling"
  <2>1. fate[m] \in {"rejected", "failed", "lost"}
    BY <1>1 DEF EnvInv, CallInv
  <2>2. ended # "no"
    BY <1>1, <2>1 DEF IInv, FateInv, ControlInv, Looping
  <2>3. pc # "handler"
    BY <1>1, <2>2 DEF IInv, ControlInv, Looping
  <2>4. QED
    BY <1>1, <2>2, <2>3 DEF IInv, FateInv
<1>2. IInv /\ EnvInv => ErrorIsFinal
  BY <1>1 DEF ErrorIsFinal
<1>3. QED
  BY <1>2, EnvInvariance, PTL

\* What a task awaited before it made another call on the same role was handled
\* before that call is.
THEOREM AwaitedFirst == EnvSpec => []HappensBefore
<1>1. EnvInv => HappensBefore
  BY DEF EnvInv
<1>2. QED
  BY <1>1, EnvInvariance, PTL

\* Nobody awaits an answer from an actor that cannot give it: the message is not
\* in an actor that has joined, and the actor does not sleep on it while a handle
\* is left or after a stop.
THEOREM AwaitedCanCome == EnvSpec => []NoCallStranded
<1>1. ASSUME IInv, NEW m \in Msgs, fate[m] \in {"queued", "handling"}
      PROVE  pc # "joined"
  <2>1. CASE fate[m] = "queued"
    BY <1>1, <2>1 DEF IInv, ControlInv, MailboxInv, Slots
  <2>2. CASE fate[m] = "handling"
    BY <1>1, <2>2 DEF IInv, FateInv
  <2>3. QED
    BY <1>1, <2>1, <2>2
<1>2. ASSUME IInv, NEW m \in Msgs, fate[m] \in {"queued", "handling"},
             pc = "poll", handles # {} \/ ~running
      PROVE  \E r \in Roles : r \in enabled /\ queue[r] # <<>>
  <2>1. CASE ~running
    BY <1>2, <2>1, StopWakes DEF StoppedNeverSleeps
  <2>2. CASE running
    <3>1. enabled = Branches
      BY <1>2, <2>2, HeldListens DEF ListensWhileHeld
    <3>2. fate[m] = "queued"
      BY <1>2 DEF IInv, FateInv
    <3>3. PICK r \in Roles : \E i \in Slots(r) : queue[r][i] = m
      BY <1>2, <3>2 DEF IInv, MailboxInv
    <3>4. queue[r] # <<>>
      BY <3>3 DEF Slots
    <3>5. QED
      BY <3>1, <3>4, Branching
  <2>3. QED
    BY <1>2, <2>1, <2>2 DEF IInv, TypeOK
<1>3. IInv => NoCallStranded
  BY <1>1, <1>2 DEF NoCallStranded
<1>4. QED
  BY <1>3, EnvInvariance, PTL
=============================================================================
