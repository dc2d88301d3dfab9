----------------------------- MODULE Envelopes -----------------------------
(***************************************************************************)
(* The calls made on an actor.  A role method only prepares an `Envelope`; *)
(* the caller then drops it, awaits it, or turns it into the future of     *)
(* `ignore_return` or `forward_to`, which act alike on the caller's side   *)
(* of the actor.  An envelope owns an Arc of the actor until it has been sent, so  *)
(* a call is one of the holders of ActorLoop, and every step here is a     *)
(* step of the holders there.                                              *)
(*                                                                         *)
(* The holders that are not calls are client tasks.  A task that received  *)
(* its handle from Context::get_shell stands for the actor's own handlers. *)
(***************************************************************************)
EXTENDS ActorLoopInv

ASSUME CallsAreHolders == Msgs \subseteq Holders

Clients == Holders \ Msgs

VARIABLES
  call,     \* call -> how far the caller's side of it has come
  dest,     \* call -> the role of its method
  caller,   \* call -> the client task that made it
  after     \* history: call -> the caller's calls awaited before it was made

callVars == <<call, dest, caller, after>>
envVars == <<vars, callVars>>

(***************************************************************************)
(* "made" is an Envelope nobody consumed yet; "spawned" a dropped one, now *)
(* owned by a background task; "sending" an ignore_return or forward_to    *)
(* future, "abandoned" when it was dropped before its first poll and so    *)
(* dropped the envelope in it; "caster" the ReturnCaster of an await,      *)
(* "waiting" once it has sent.  The result is "sent" for Ok(()),           *)
(* "returned" for Ok(value), "refused" for a sending error and "hungup"    *)
(* for Hangup.                                                             *)
(***************************************************************************)
Background == {"spawned", "abandoned"}
Pending == Background \cup {"sending", "caster"}

EnvTypeOK ==
  /\ TypeOK
  /\ call \in [Msgs -> Pending \cup {"none", "made", "waiting", "sent",
                "returned", "refused", "hungup", "gone"}]
  /\ dest \in [Msgs -> Roles]
  /\ caller \in [Msgs -> Clients]
  /\ after \in [Msgs -> SUBSET Msgs]
  /\ \A m \in Msgs : m \in handles <=> call[m] \in Pending \cup {"made"}

EnvInit ==
  /\ Init /\ handles \subseteq Clients
  /\ call = [m \in Msgs |-> "none"]
  /\ dest = [m \in Msgs |-> 1]
  /\ \E c \in Clients : caller = [m \in Msgs |-> c]
  /\ after = [m \in Msgs |-> {}]

Advance(m, to) ==
  /\ call' = [call EXCEPT ![m] = to]
  /\ UNCHANGED <<dest, caller, after>>

-----------------------------------------------------------------------------
\* A role method of the shell: Envelope::new(payload, self.get_shell()).
MakeCall(c, r, m) ==
  /\ call[m] = "none"
  /\ CloneHandle(c, m)
  /\ call' = [call EXCEPT ![m] = "made"]
  /\ dest' = [dest EXCEPT ![m] = r]
  /\ caller' = [caller EXCEPT ![m] = c]
  /\ after' = [after EXCEPT ![m] =
       {n \in Msgs :
          caller[n] = c /\ call[n] \in {"sent", "returned", "hungup"}}]

\* Envelope::drop, of the value or inside a future that was never polled.
DropEnvelope(m) ==
  /\ \/ call[m] = "made" /\ Advance(m, "spawned")
     \/ call[m] = "sending" /\ fate[m] = "unsent" /\ Advance(m, "abandoned")
  /\ UNCHANGED vars

\* Envelope::into_future takes the message out of the envelope at once.
IntoFuture(m) ==
  /\ call[m] = "made"
  /\ Advance(m, "caster")
  /\ UNCHANGED vars

\* Envelope::ignore_return and forward_to are async: nothing runs yet.
CallSendingMethod(m) ==
  /\ call[m] = "made"
  /\ Advance(m, "sending")
  /\ UNCHANGED vars

\* The future, or the spawned task, is polled as far as the channel's send.
PollSend(m) ==
  /\ call[m] \in Pending
  /\ Send(m, dest[m], m)
  /\ UNCHANGED callVars

\* The rest of that poll: the Arc is dropped, then the result is known.
FinishSend(m) ==
  /\ call[m] \in Pending /\ fate[m] # "unsent"
  /\ ReleaseHandle(m)
  /\ \/ call[m] \in Background /\ Advance(m, "gone")
     \/ /\ call[m] \notin Background /\ fate[m] = "rejected"
        /\ Advance(m, "refused")
     \/ fate[m] # "rejected" /\ call[m] = "sending" /\ Advance(m, "sent")
     \/ fate[m] # "rejected" /\ call[m] = "caster" /\ Advance(m, "waiting")

\* Mutant: the end of the oneshot is not noticed.
PollReply_ValueOnly(m) ==
  /\ call[m] = "waiting"
  /\ fate[m] = "done" /\ Advance(m, "returned")
  /\ UNCHANGED vars

\* ReturnCaster::poll on the oneshot: the handler's value or a dropped sender.
PollReply(m) ==
  /\ call[m] = "waiting"
  /\ \/ fate[m] = "done" /\ Advance(m, "returned")
     \/ fate[m] \in {"failed", "lost"} /\ Advance(m, "hungup")
  /\ UNCHANGED vars

\* Mutant: the sender future, and the Arc in it, outlives its caster.
Cancel_KeepsArc(m) ==
  /\ \/ call[m] = "caster" /\ fate[m] = "unsent" /\ UNCHANGED vars
     \/ call[m] = "waiting" /\ UNCHANGED vars
  /\ Advance(m, "gone")

\* A ReturnCaster is dropped, by a timeout or a select! of the caller's.
Cancel(m) ==
  /\ \/ call[m] = "caster" /\ fate[m] = "unsent" /\ ReleaseHandle(m)
     \/ call[m] = "waiting" /\ UNCHANGED vars
  /\ Advance(m, "gone")

-----------------------------------------------------------------------------
CallStep(m) ==
  \/ DropEnvelope(m) \/ IntoFuture(m) \/ CallSendingMethod(m)
  \/ PollSend(m) \/ FinishSend(m) \/ PollReply(m) \/ Cancel(m)

\* The task, its handlers and the exit handle are those of ActorLoop.  The owner of
\* the exit handle keeps it: to drop it is a step nothing else here can see.
ActorStep ==
  /\ LoopStep \/ TimerElapses \/ ContextStop \/ HandlerEnds
     \/ PollExitHandle
  /\ UNCHANGED callVars

ClientStep ==
  /\ \/ \E c \in Clients : GetShell(c) \/ ReleaseHandle(c)
     \/ \E c, d \in Clients : CloneHandle(c, d)
  /\ UNCHANGED callVars

EnvNext ==
  \/ ActorStep
  \/ ClientStep
  \/ \E c \in Clients, r \in Roles, m \in Msgs : MakeCall(c, r, m)
  \/ \E m \in Msgs : CallStep(m)

EnvSpec == EnvInit /\ [][EnvNext]_envVars

(***************************************************************************)
(* As in ActorLoop; a spawned task runs, a poll that has begun ends and a  *)
(* caller that awaits polls when it is woken.  Callers need not consume an *)
(* envelope or poll a future they hold.                                    *)
(***************************************************************************)
EnvFairSpec ==
  /\ EnvSpec
  /\ WF_envVars(LoopStep /\ UNCHANGED callVars)
  /\ \A r \in Roles : SF_envVars(TakeMessage(r) /\ UNCHANGED callVars)
  /\ WF_envVars(TimerElapses /\ UNCHANGED callVars)
  /\ WF_envVars(HandlerEnds /\ UNCHANGED callVars)
  /\ \A m \in Msgs :
       /\ WF_envVars(call[m] \in Background /\ PollSend(m))
       /\ WF_envVars(FinishSend(m))
       /\ WF_envVars(PollReply(m))

-----------------------------------------------------------------------------
\* EnvelopeErr::SendingError: a call holds the actor up until it is sent, so a
\* refused call means a panic or a stop and never an actor that shut down idle.
RefusedMeansStopOrPanic ==
  (\E m \in Msgs : call[m] = "refused") => ~running \/ ended = "panicked"

\* An error reaches a caller only when the loop is over: none of its messages
\* will be handled later.
ErrorIsFinal ==
  (\E m \in Msgs : call[m] \in {"refused", "hungup"}) =>
    ended # "no" /\ \A m \in Msgs : fate[m] # "handling"

\* Two calls of one task to one role are handled in order if the first was
\* awaited, for its value or only for its delivery, before the second was made.
HappensBefore ==
  \A n \in Msgs : \A m \in after[n] :
    dest[m] = dest[n] /\ fate[n] \in {"handling", "done", "failed"} =>
      fate[m] \in {"done", "failed"}

\* A caller awaits an answer that can still come: what it sent is in no actor that
\* has joined, and while a handle is left, or after a stop, the select! that the
\* actor polls has a message to take.  (With the last handle gone an actor may
\* sleep on an answer it owes until the watchdog ends it, or for good.)
NoCallStranded ==
  \A m \in Msgs :
    call[m] = "waiting" /\ fate[m] \in {"queued", "handling"} =>
      /\ pc # "joined"
      /\ pc = "poll" /\ (handles # {} \/ ~running) =>
           \E r \in Roles : r \in enabled /\ queue[r] # <<>>

\* Whoever awaits a call while somebody, itself included, keeps a handle gets
\* an answer.
AwaitResolvesWhileHeld ==
  \A m \in Msgs :
    call[m] = "waiting" /\ handles # {} ~> call[m] # "waiting" \/ handles = {}

-----------------------------------------------------------------------------
(* The inductive invariant: with that of ActorLoop it implies the three    *)
(* invariants above.                                                       *)

\* What the caller's side of a call says of its message.
CallInv ==
  \A m \in Msgs :
    /\ call[m] \in {"none", "made"} => fate[m] = "unsent"
    /\ call[m] \in {"waiting", "sent"} => fate[m] \notin {"unsent", "rejected"}
    /\ call[m] = "returned" => fate[m] = "done"
    /\ call[m] = "hungup" => fate[m] \in {"failed", "lost"}
    /\ call[m] = "refused" => fate[m] = "rejected"

\* Nothing is refused before the loop is over for a reason.
RefusedInv ==
  (\E m \in Msgs : fate[m] = "rejected") => ~running \/ ended = "panicked"

\* The calls awaited before a call was made have been delivered and stay so.
AfterInv ==
  \A n \in Msgs : \A m \in after[n] :
    call[n] # "none" /\ call[m] \in {"sent", "returned", "hungup"}

\* Messages wait in the channel of their role, awaited calls ahead of later ones.
LineInv ==
  \A n \in Msgs, r \in Roles :
    /\ \A k \in Slots(r) : queue[r][k] = n => r = dest[n]
    /\ \A m \in after[n] : m # n /\ Ahead(r, m, n)

EnvInv ==
  /\ EnvTypeOK
  /\ CallInv
  /\ RefusedInv
  /\ AfterInv
  /\ LineInv
  /\ HappensBefore

-----------------------------------------------------------------------------
(* What the documentation says and the code does not do.                   *)

\* src/core/returnval.rs:103: "The message will not be sent to the actor if
\* this Future isn't processed".
UnpolledIsNotSent ==
  [][\A m \in Msgs :
       call[m] = "abandoned" /\ fate[m] = "unsent"
         => fate'[m] = "unsent"]_envVars
=============================================================================
