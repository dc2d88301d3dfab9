--------------------------- MODULE Subscriptions ---------------------------
(***************************************************************************)
(* Futures and streams whose values are sent to an actor.  Both            *)
(* `send_when_ready` and `feed_to` spawn a task that owns the source and   *)
(* an Arc of the actor: the task is one of the holders of ActorLoop, and   *)
(* every step here is a step of the holders there.                         *)
(*                                                                         *)
(* A source is whatever the program hands over.  It yields when it likes,  *)
(* a future at most once, and it may stay pending for ever.                *)
(***************************************************************************)
EXTENDS ActorLoopInv

CONSTANTS
  Futures,    \* tasks spawned by send_when_ready
  Streams     \* tasks spawned by feed_to

Feeds == Futures \cup Streams
Owners == Holders \ Feeds     \* the program's own handles

ASSUME FeedsAreHolders == Feeds \subseteq Holders /\ Futures \cap Streams = {}

VARIABLES
  feed,    \* feed -> how far its task has come
  dest,    \* feed -> the role it was cast to
  item,    \* feed -> the message it is sending, a set of at most one
  sent     \* history: feed -> its messages in the order of the source

feedVars == <<feed, dest, item, sent>>
subVars == <<vars, feedVars>>

SubTypeOK ==
  /\ TypeOK
  /\ feed \in [Feeds -> {"none", "pending", "sending", "gone"}]
  /\ dest \in [Feeds -> Roles]
  /\ item \in [Feeds -> {{}} \cup {{m} : m \in Msgs}]
  /\ sent \in [Feeds -> Seq(Msgs)]
  /\ \A f \in Feeds :
       /\ f \in handles <=> feed[f] \in {"pending", "sending"}
       /\ feed[f] # "sending" => item[f] = {}

SubInit ==
  /\ Init /\ handles \subseteq Owners
  /\ feed = [f \in Feeds |-> "none"]
  /\ dest = [f \in Feeds |-> 1]
  /\ item = [f \in Feeds |-> {}]
  /\ sent = [f \in Feeds |-> <<>>]

-----------------------------------------------------------------------------
\* send_when_ready or feed_to is called with a copy of the owner's handle.
Subscribe(o, f, r) ==
  /\ feed[f] = "none"
  /\ CloneHandle(o, f)
  /\ feed' = [feed EXCEPT ![f] = "pending"]
  /\ dest' = [dest EXCEPT ![f] = r]
  /\ UNCHANGED <<item, sent>>

\* The source is ready with a value, which into_payload turns into a message.
Yield(f, m) ==
  /\ feed[f] = "pending"
  /\ fate[m] = "unsent" /\ \A g \in Feeds : m \notin item[g]
  /\ feed' = [feed EXCEPT ![f] = "sending"]
  /\ item' = [item EXCEPT ![f] = {m}]
  /\ sent' = [sent EXCEPT ![f] = Append(@, m)]
  /\ UNCHANGED <<vars, dest>>

\* actor.enqueue(envelope).await
Enqueue(f, m) ==
  /\ feed[f] = "sending" /\ m \in item[f]
  /\ Send(f, dest[f], m)
  /\ UNCHANGED feedVars

\* What follows: a stream goes on to its next item unless the actor refused
\* this one, the task of a future is over.
Continue(f, m) ==
  /\ feed[f] = "sending" /\ m \in item[f]
  /\ \/ /\ f \in Streams /\ fate[m] \notin {"unsent", "rejected"}
        /\ feed' = [feed EXCEPT ![f] = "pending"]
        /\ UNCHANGED vars
     \/ /\ \/ f \in Streams /\ fate[m] = "rejected"
           \/ f \in Futures /\ fate[m] # "unsent"
        /\ ReleaseHandle(f)
        /\ feed' = [feed EXCEPT ![f] = "gone"]
  /\ item' = [item EXCEPT ![f] = {}]
  /\ UNCHANGED <<dest, sent>>

\* Mutant: the task keeps its handle when the stream is over.
StreamEnds_KeepsArc(f) ==
  /\ f \in Streams /\ feed[f] = "pending"
  /\ feed' = [feed EXCEPT ![f] = "gone"]
  /\ UNCHANGED <<vars, dest, item, sent>>

\* `while let Some(msg)` ends.
StreamEnds(f) ==
  /\ f \in Streams /\ feed[f] = "pending"
  /\ ReleaseHandle(f)
  /\ feed' = [feed EXCEPT ![f] = "gone"]
  /\ UNCHANGED <<dest, item, sent>>

-----------------------------------------------------------------------------
FeedStep(f) == \E m \in Msgs : Enqueue(f, m) \/ Continue(f, m)

SourceStep(f) == StreamEnds(f) \/ \E m \in Msgs : Yield(f, m)

OwnerStep ==
  /\ \/ \E o \in Owners : GetShell(o) \/ ReleaseHandle(o)
     \/ \E o, p \in Owners : CloneHandle(o, p)
  /\ UNCHANGED feedVars

\* The task, its handlers and the exit handle are those of ActorLoop.
ActorStep ==
  /\ LoopStep \/ TimerElapses \/ ContextStop \/ HandlerEnds
     \/ PollExitHandle \/ DropExitHandle
  /\ UNCHANGED feedVars

SubNext ==
  \/ ActorStep
  \/ OwnerStep
  \/ \E o \in Owners, f \in Feeds, r \in Roles : Subscribe(o, f, r)
  \/ \E f \in Feeds : FeedStep(f) \/ SourceStep(f)

SubSpec == SubInit /\ [][SubNext]_subVars

(***************************************************************************)
(* As in ActorLoop, and a spawned task runs.  A source need never yield.   *)
(***************************************************************************)
SubFairSpec ==
  /\ SubSpec
  /\ WF_subVars(LoopStep /\ UNCHANGED feedVars)
  /\ \A r \in Roles : SF_subVars(TakeMessage(r) /\ UNCHANGED feedVars)
  /\ WF_subVars(TimerElapses /\ UNCHANGED feedVars)
  /\ WF_subVars(HandlerEnds /\ UNCHANGED feedVars)
  /\ \A f \in Feeds : WF_subVars(FeedStep(f))

-----------------------------------------------------------------------------
Handled(m) == fate[m] \in {"handling", "done", "failed"}

\* The items of a stream are handled in its order and without a gap: none
\* overtakes, and none is handled after one that was refused, lost or broke the
\* actor.
StreamHasNoGap ==
  \A f \in Streams : \A j \in DOMAIN sent[f] : \A i \in 1..(j - 1) :
    Handled(sent[f][j]) => fate[sent[f][i]] = "done"

\* A pending future or stream keeps the actor going: unless a handler stopped it
\* or panicked, whatever a source yields is accepted.
SourcesAreNotRefused ==
  (\E f \in Feeds : \E i \in DOMAIN sent[f] : fate[sent[f][i]] = "rejected")
    => ~running \/ ended = "panicked"

\* An actor stays for its sources and no longer: what a source that keeps its
\* handle has sent is handled for as long as the loop goes on.
SourcesAreServed ==
  \A f \in Feeds, m \in Msgs :
    m \in item[f]
      ~> fate[m] \in {"done", "failed"} \/ handles = {} \/ ended # "no"

-----------------------------------------------------------------------------
(* The inductive invariant: with that of ActorLoop it implies the two      *)
(* invariants above.                                                       *)

Sent(f) == 1..Len(sent[f])

\* Of all a task was handed, only the latest item can be unsent or refused: it
\* is the one the task is sending, or the one it ended with.
SentInv ==
  \A f \in Feeds :
    /\ feed[f] = "none" => Sent(f) = {}
    /\ feed[f] = "sending" => Sent(f) # {} /\ item[f] = {sent[f][Len(sent[f])]}
    /\ \A i \in Sent(f) :
         /\ fate[sent[f][i]] = "unsent" => feed[f] = "sending" /\ i = Len(sent[f])
         /\ fate[sent[f][i]] = "rejected" =>
              feed[f] \in {"sending", "gone"} /\ i = Len(sent[f])

\* No message comes from two places of the sources.
ApartInv ==
  \A f, g \in Feeds : \A i \in Sent(f), j \in Sent(g) :
    sent[f][i] = sent[g][j] => f = g /\ i = j

\* The items of a source wait in the channel of its role, in its order.
LineInv ==
  \A f \in Feeds, r \in Roles :
    /\ \A i \in Sent(f), k \in Slots(r) : sent[f][i] = queue[r][k] => r = dest[f]
    /\ \A i, j \in Sent(f) : i < j => Ahead(r, sent[f][i], sent[f][j])

\* What StreamHasNoGap says, of futures as well.
GapInv ==
  \A f \in Feeds : \A i, j \in Sent(f) :
    i < j /\ Handled(sent[f][j]) => fate[sent[f][i]] = "done"

SubInv ==
  /\ SubTypeOK
  /\ SentInv
  /\ ApartInv
  /\ LineInv
  /\ GapInv
  /\ SourcesAreNotRefused

-----------------------------------------------------------------------------
(* What the documentation says and the code does not do.                   *)

\* src/sendable.rs:44: "If an actor explicitly shuts down with an active stream,
\* the stream will be dropped with any remaining items unread".
ShutdownDropsStreams ==
  \A f \in Streams : pc = "joined" /\ feed[f] = "pending" ~> feed[f] = "gone"
=============================================================================
