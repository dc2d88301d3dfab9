------------------------ MODULE Subscriptions_proofs ------------------------
(***************************************************************************)
(* Proofs about Subscriptions for any number of futures, streams, roles    *)
(* and messages.  Every step there is a step of ActorLoop, so the          *)
(* invariant of ActorLoop holds there too; with it SubInv is inductive (a  *)
(* lemma per conjunct), and it implies what the sources rely on.           *)
(***************************************************************************)
EXTENDS Subscriptions, ActorLoop_proofs

-----------------------------------------------------------------------------
(* Steps                                                                   *)

\* The tasks and the owners are different holders.
LEMMA Places ==
  /\ Feeds \subseteq Holders /\ Owners \subseteq Holders
  /\ Feeds \cap Owners = {}
  /\ Streams \subseteq Feeds /\ Futures \subseteq Feeds
  BY FeedsAreHolders DEF Owners, Feeds

\* What a task does, and what the owner does, is what holders do.
LEMMA SubStep ==
  ASSUME SubTypeOK, [SubNext]_subVars
  PROVE  [Next]_vars
<1> USE Places
<1>1. CASE ActorStep
  BY <1>1 DEF ActorStep, Next
<1>2. CASE OwnerStep
  BY <1>2 DEF OwnerStep, Next
<1>3. ASSUME NEW o \in Owners, NEW f \in Feeds, NEW r \in Roles, Subscribe(o, f, r)
      PROVE  [Next]_vars
  BY <1>3 DEF Subscribe, Next
<1>4. ASSUME NEW f \in Feeds, NEW m \in Msgs, Enqueue(f, m)
      PROVE  [Next]_vars
  <2>1. dest[f] \in Roles /\ f \in Holders
    BY DEF SubTypeOK
  <2>2. QED
    BY <1>4, <2>1 DEF Enqueue, Next
<1>5. ASSUME NEW f \in Feeds, NEW m \in Msgs, Continue(f, m)
      PROVE  [Next]_vars
  BY <1>5 DEF Continue, Next
<1>6. ASSUME NEW f \in Feeds, StreamEnds(f)
      PROVE  [Next]_vars
  BY <1>6 DEF StreamEnds, Next
<1>7. ASSUME NEW f \in Feeds, NEW m \in Msgs, Yield(f, m)
      PROVE  [Next]_vars
  BY <1>7 DEF Yield
<1>8. CASE UNCHANGED subVars
  BY <1>8 DEF subVars
<1>9. QED
  BY <1>1, <1>2, <1>3, <1>4, <1>5, <1>6, <1>7, <1>8
     DEF SubNext, FeedStep, SourceStep

\* Only a task that sends its item makes a message sent, or refused.
LEMMA OnlyTasksSend ==
  ASSUME SubTypeOK, MailboxInv, [SubNext]_subVars, NEW m \in Msgs
  PROVE  \/ fate'[m] = fate[m]
         \/ fate[m] \notin {"unsent", "rejected"} /\ fate'[m] \notin {"unsent", "rejected"}
         \/ /\ fate[m] = "unsent" /\ fate'[m] \in {"queued", "rejected"}
            /\ \E f \in Feeds : Enqueue(f, m)
<1>1. TypeOK /\ [Next]_vars
  BY SubStep DEF SubTypeOK
<1>2. ASSUME NEW f \in Feeds, NEW n \in Msgs, Enqueue(f, n)
      PROVE  n = m \/ fate'[m] = fate[m]
  BY <1>1, <1>2 DEF Enqueue, Send, TypeOK
<1>3. CASE ActorStep
  BY <1>1, <1>3, ActorEffect DEF ActorStep
<1>4. CASE OwnerStep
  BY <1>4 DEF OwnerStep, GetShell, ReleaseHandle, CloneHandle
<1>5. ASSUME NEW o \in Owners, NEW f \in Feeds, NEW r \in Roles, Subscribe(o, f, r)
      PROVE  fate' = fate
  BY <1>5 DEF Subscribe, CloneHandle
<1>6. ASSUME NEW f \in Feeds, NEW n \in Msgs, Continue(f, n) \/ Yield(f, n)
      PROVE  fate' = fate
  BY <1>6 DEF Continue, Yield, ReleaseHandle, vars
<1>7. ASSUME NEW f \in Feeds, StreamEnds(f)
      PROVE  fate' = fate
  BY <1>7 DEF StreamEnds, ReleaseHandle
<1>8. CASE UNCHANGED subVars
  BY <1>8 DEF subVars, vars
<1>9. ASSUME NEW f \in Feeds, Enqueue(f, m)
      PROVE  fate[m] = "unsent" /\ fate'[m] \in {"queued", "rejected"}
  BY <1>1, <1>9 DEF Enqueue, Send, TypeOK
<1>10. QED
  BY <1>2, <1>3, <1>4, <1>5, <1>6, <1>7, <1>8, <1>9 DEF SubNext, FeedStep, SourceStep

\* What a task has handed over grows only by what its source yields.
LEMMA SentGrows ==
  ASSUME SubTypeOK, [SubNext]_subVars, sent' # sent
  PROVE  \E f \in Feeds, m \in Msgs : Yield(f, m)
  BY DEF SubNext, FeedStep, SourceStep, ActorStep, OwnerStep, Subscribe, Enqueue,
     Continue, StreamEnds, feedVars, subVars

LEMMA YieldEffect ==
  ASSUME SubTypeOK, NEW f \in Feeds, NEW m \in Msgs, Yield(f, m)
  PROVE  /\ sent' \in [Feeds -> Seq(Msgs)]
         /\ Len(sent[f]) \in Nat /\ Len(sent'[f]) = Len(sent[f]) + 1
         /\ Sent(f)' = Sent(f) \cup {Len(sent[f]) + 1}
         /\ \A i \in Sent(f) : sent'[f][i] = sent[f][i] /\ i < Len(sent[f]) + 1 /\ i \in Nat
         /\ sent'[f][Len(sent[f]) + 1] = m
         /\ \A g \in Feeds \ {f} : sent'[g] = sent[g] /\ Sent(g)' = Sent(g)
<1>1. sent[f] \in Seq(Msgs) /\ Len(sent[f]) \in Nat
  BY LenProperties DEF SubTypeOK
<1>2. /\ Append(sent[f], m) \in Seq(Msgs)
      /\ Len(Append(sent[f], m)) = Len(sent[f]) + 1
      /\ \A i \in 1..Len(sent[f]) : Append(sent[f], m)[i] = sent[f][i]
      /\ Append(sent[f], m)[Len(sent[f]) + 1] = m
  BY <1>1, AppendProperties
<1>3. /\ sent' \in [Feeds -> Seq(Msgs)] /\ sent'[f] = Append(sent[f], m)
      /\ \A g \in Feeds \ {f} : sent'[g] = sent[g]
  BY <1>2 DEF SubTypeOK, Yield
<1>4. QED
  BY <1>1, <1>2, <1>3 DEF Sent

-----------------------------------------------------------------------------
(* Each conjunct of the invariant is preserved by every step.              *)

\* A task owns an Arc of the actor from its subscription to its end.
LEMMA SubTypeStep ==
  ASSUME SubTypeOK, MailboxInv, [SubNext]_subVars
  PROVE  SubTypeOK'
<1> USE Places
<1>1. TypeOK'
  BY SubStep, TypeStep DEF SubTypeOK
<1>2. CASE ActorStep
  <2>1. UNCHANGED handles
    BY <1>2, ActorEffect DEF ActorStep, SubTypeOK
  <2>2. QED
    BY <1>1, <1>2, <2>1 DEF ActorStep, SubTypeOK, feedVars
<1>3. CASE OwnerStep
  <2>1. \A f \in Feeds : f \in handles' <=> f \in handles
    BY <1>3 DEF OwnerStep, GetShell, ReleaseHandle, CloneHandle
  <2>2. QED
    BY <1>1, <1>3, <2>1 DEF OwnerStep, SubTypeOK, feedVars
<1>4. ASSUME NEW o \in Owners, NEW f \in Feeds, NEW r \in Roles, Subscribe(o, f, r)
      PROVE  SubTypeOK'
  BY <1>1, <1>4 DEF Subscribe, CloneHandle, SubTypeOK
<1>5. ASSUME NEW f \in Feeds, NEW m \in Msgs, Yield(f, m)
      PROVE  SubTypeOK'
  <2>1. sent' \in [Feeds -> Seq(Msgs)]
    BY <1>5, YieldEffect
  <2>2. QED
    BY <1>1, <1>5, <2>1 DEF Yield, SubTypeOK, vars
<1>6. ASSUME NEW f \in Feeds, NEW m \in Msgs, Enqueue(f, m)
      PROVE  SubTypeOK'
  BY <1>1, <1>6 DEF Enqueue, Send, SubTypeOK, feedVars
<1>7. ASSUME NEW f \in Feeds, NEW m \in Msgs, Continue(f, m)
      PROVE  SubTypeOK'
  <2>1. \/ feed'[f] = "pending" /\ feed' = [feed EXCEPT ![f] = "pending"] /\ handles' = handles
        \/ /\ feed'[f] = "gone" /\ feed' = [feed EXCEPT ![f] = "gone"]
           /\ handles' = handles \ {f}
    BY <1>7 DEF Continue, ReleaseHandle, SubTypeOK, vars
  <2>2. feed[f] = "sending" /\ item' = [item EXCEPT ![f] = {}] /\ UNCHANGED <<dest, sent>>
    BY <1>7 DEF Continue
  <2>3. QED
    BY <1>1, <2>1, <2>2 DEF SubTypeOK
<1>8. ASSUME NEW f \in Feeds, StreamEnds(f)
      PROVE  SubTypeOK'
  BY <1>1, <1>8 DEF StreamEnds, ReleaseHandle, SubTypeOK
<1>9. CASE UNCHANGED subVars
  BY <1>1, <1>9 DEF subVars, feedVars, vars, SubTypeOK
<1>10. QED
  BY <1>2, <1>3, <1>4, <1>5, <1>6, <1>7, <1>8, <1>9 DEF SubNext, FeedStep, SourceStep

\* Only the latest item of a task can be unsent or refused.
LEMMA SentStep ==
  ASSUME SubTypeOK, MailboxInv, SentInv, [SubNext]_subVars
  PROVE  SentInv'
<1> USE Places
<1>0. \A f \in Feeds : /\ \A i \in Sent(f) : sent[f][i] \in Msgs
                       /\ Len(sent[f]) \in Nat
                       /\ Sent(f) # {} => Len(sent[f]) \in Sent(f)
  <2>1. \A f \in Feeds : sent[f] \in Seq(Msgs) /\ Len(sent[f]) \in Nat
    BY LenProperties DEF SubTypeOK
  <2>2. QED
    BY <2>1, ElementOfSeq DEF Sent
<1>1. ASSUME UNCHANGED feedVars, \A m \in Msgs : ~\E f \in Feeds : Enqueue(f, m)
      PROVE  SentInv'
  <2>1. \A m \in Msgs : \/ fate'[m] = fate[m]
                        \/ fate'[m] \notin {"unsent", "rejected"}
    BY <1>1, OnlyTasksSend
  <2>2. QED
    BY <1>0, <1>1, <2>1 DEF SentInv, Sent, feedVars
<1>2. ASSUME NEW f \in Feeds, NEW m \in Msgs, Enqueue(f, m)
      PROVE  SentInv'
  <2>1. /\ feed[f] = "sending" /\ Sent(f) # {}
        /\ m = sent[f][Len(sent[f])] /\ UNCHANGED feedVars
    BY <1>2 DEF Enqueue, SentInv
  <2>2. fate'[m] # "unsent" /\ \A n \in Msgs \ {m} : fate'[n] = fate[n]
    BY <1>2 DEF Enqueue, Send, SubTypeOK, TypeOK
  <2>3. \A g \in Feeds : \A i \in Sent(g) :
          sent[g][i] = m => feed[g] = "sending" /\ i = Len(sent[g])
    BY <1>2, <1>0 DEF SentInv, Enqueue, Send
  <2>4. QED
    BY <1>0, <2>1, <2>2, <2>3 DEF SentInv, Sent, feedVars
<1>3. ASSUME NEW o \in Owners, NEW f \in Feeds, NEW r \in Roles, Subscribe(o, f, r)
      PROVE  SentInv'
  <2>1. /\ feed[f] = "none" /\ feed' = [feed EXCEPT ![f] = "pending"]
        /\ UNCHANGED <<item, sent, fate>>
    BY <1>3 DEF Subscribe, CloneHandle
  <2>2. Sent(f) = {}
    BY <2>1 DEF SentInv
  <2>3. QED
    BY <1>0, <2>1, <2>2 DEF SentInv, Sent, SubTypeOK
<1>4. ASSUME NEW f \in Feeds, NEW m \in Msgs, Yield(f, m)
      PROVE  SentInv'
  <2>1. /\ feed[f] = "pending" /\ feed' = [feed EXCEPT ![f] = "sending"]
        /\ item' = [item EXCEPT ![f] = {m}] /\ fate' = fate /\ fate[m] = "unsent"
    BY <1>4 DEF Yield, vars
  <2> DEFINE n == Len(sent[f])
  <2>2. /\ n \in Nat /\ Len(sent'[f]) = n + 1 /\ Sent(f)' = Sent(f) \cup {n + 1}
        /\ \A i \in Sent(f) : sent'[f][i] = sent[f][i]
        /\ sent'[f][n + 1] = m
        /\ \A g \in Feeds \ {f} : sent'[g] = sent[g] /\ Sent(g)' = Sent(g)
    BY <1>4, YieldEffect
  <2>3. \A i \in Sent(f) : fate[sent[f][i]] \notin {"unsent", "rejected"}
    BY <2>1 DEF SentInv
  <2>4. \A g \in Feeds \ {f} : feed'[g] = feed[g] /\ item'[g] = item[g]
    BY <2>1 DEF SubTypeOK
  <2>5. feed'[f] = "sending" /\ item'[f] = {m}
    BY <2>1 DEF SubTypeOK
  <2> HIDE DEF n
  <2>6. QED
    BY <2>1, <2>2, <2>3, <2>4, <2>5 DEF SentInv
<1>5. ASSUME NEW f \in Feeds, NEW m \in Msgs, Continue(f, m)
      PROVE  SentInv'
  <2>1. /\ feed[f] = "sending" /\ m = sent[f][Len(sent[f])] /\ fate[m] # "unsent"
        /\ \A g \in Feeds \ {f} : feed'[g] = feed[g] /\ item'[g] = item[g]
        /\ UNCHANGED <<sent, fate>>
    BY <1>5 DEF Continue, ReleaseHandle, SentInv, SubTypeOK, vars
  <2>2. \/ feed'[f] = "pending" /\ fate[m] # "rejected"
        \/ feed'[f] = "gone"
    BY <1>5 DEF Continue, SubTypeOK
  <2>3. QED
    BY <1>0, <2>1, <2>2 DEF SentInv, Sent
<1>6. ASSUME NEW f \in Feeds, StreamEnds(f)
      PROVE  SentInv'
  <2>1. /\ feed[f] = "pending" /\ feed' = [feed EXCEPT ![f] = "gone"]
        /\ UNCHANGED <<item, sent, fate>>
    BY <1>6 DEF StreamEnds, ReleaseHandle
  <2>2. QED
    BY <1>0, <2>1 DEF SentInv, Sent, SubTypeOK
<1>7. QED
  BY <1>1, <1>2, <1>3, <1>4, <1>5, <1>6
     DEF SubNext, FeedStep, SourceStep, ActorStep, OwnerStep, subVars

\* A source yields what no source has yielded.
LEMMA FreshItem ==
  ASSUME SubTypeOK, SentInv, NEW f \in Feeds, NEW m \in Msgs, Yield(f, m),
         NEW g \in Feeds, NEW i \in Sent(g)
  PROVE  sent[g][i] # m
  BY DEF SentInv, Yield

LEMMA ApartStep ==
  ASSUME SubTypeOK, SentInv, ApartInv, [SubNext]_subVars
  PROVE  ApartInv'
<1>1. CASE sent' = sent
  BY <1>1 DEF ApartInv, Sent
<1>2. ASSUME NEW f \in Feeds, NEW m \in Msgs, Yield(f, m)
      PROVE  ApartInv'
  <2> DEFINE n == Len(sent[f])
  <2>1. /\ n \in Nat /\ Sent(f)' = Sent(f) \cup {n + 1}
        /\ \A i \in Sent(f) : sent'[f][i] = sent[f][i]
        /\ sent'[f][n + 1] = m
        /\ \A g \in Feeds \ {f} : sent'[g] = sent[g] /\ Sent(g)' = Sent(g)
    BY <1>2, YieldEffect
  <2>2. \A g \in Feeds : \A i \in Sent(g) : sent[g][i] # m
    BY <1>2, FreshItem
  <2> HIDE DEF n
  <2>3. \A g \in Feeds : \A i \in Sent(g)' :
          \/ i \in Sent(g) /\ sent'[g][i] = sent[g][i]
          \/ g = f /\ i = n + 1 /\ sent'[g][i] = m
    BY <2>1
  <2>4. QED
    BY <2>2, <2>3 DEF ApartInv
<1>3. QED
  BY <1>1, <1>2, SentGrows

\* The messages of a task, before and after a step: the same ones, at the same
\* places, or one more that is unsent.
LEMMA SentPast ==
  ASSUME SubTypeOK, SentInv, [SubNext]_subVars, NEW f \in Feeds, NEW i \in Sent(f)'
  PROVE  \/ /\ i \in Sent(f) /\ sent'[f][i] = sent[f][i] /\ dest'[f] = dest[f]
         \/ /\ \E m \in Msgs : Yield(f, m) /\ sent'[f][i] = m
            /\ i = Len(sent'[f]) /\ fate[sent'[f][i]] = "unsent" /\ UNCHANGED vars
<1>1. CASE sent' = sent
  <2>1. i \in Sent(f)
    BY <1>1 DEF Sent
  <2>2. feed[f] # "none"
    BY <2>1 DEF SentInv
  <2>3. dest'[f] = dest[f]
    BY <2>2 DEF SubTypeOK, SubNext, FeedStep, SourceStep, ActorStep, OwnerStep,
       Subscribe, Yield, Enqueue, Continue, StreamEnds, feedVars, subVars
  <2>4. QED
    BY <1>1, <2>1, <2>3
<1>2. ASSUME NEW g \in Feeds, NEW m \in Msgs, Yield(g, m)
      PROVE  \/ i \in Sent(f) /\ sent'[f][i] = sent[f][i]
             \/ f = g /\ sent'[f][i] = m /\ i = Len(sent'[f])
  BY <1>2, YieldEffect
<1>3. ASSUME NEW g \in Feeds, NEW m \in Msgs, Yield(g, m)
      PROVE  fate[m] = "unsent" /\ UNCHANGED vars /\ UNCHANGED dest
  BY <1>3 DEF Yield
<1>4. QED
  BY <1>1, <1>2, <1>3, SentGrows

\* Sources are served by the channel of the role they were cast to, in order.
LEMMA LineStep ==
  ASSUME SubTypeOK, MailboxInv, SentInv, ApartInv, LineInv, [SubNext]_subVars
  PROVE  LineInv'
<1>1. TypeOK /\ [Next]_vars
  BY SubStep DEF SubTypeOK
<1>2. ASSUME NEW f \in Feeds, NEW r \in Roles, NEW i \in Sent(f)', NEW k \in Slots(r)',
             sent'[f][i] = queue'[r][k]
      PROVE  r = dest'[f]
  <2>1. CASE \E l \in Slots(r) : queue[r][l] = queue'[r][k]
    <3>1. PICK l \in Slots(r) : queue[r][l] = queue'[r][k]
      BY <2>1
    <3>2. fate[queue[r][l]] = "queued"
      BY DEF MailboxInv
    <3>3. i \in Sent(f) /\ sent'[f][i] = sent[f][i] /\ dest'[f] = dest[f]
      BY <1>2, <3>1, <3>2, SentPast
    <3>4. QED
      BY <1>2, <3>1, <3>3 DEF LineInv
  <2>2. ASSUME NEW h \in Holders, NEW m \in Msgs, m = queue'[r][k], Send(h, r, m),
               ~\E l \in Slots(r) : queue[r][l] = queue'[r][k]
        PROVE  r = dest'[f]
    <3>1. fate[m] = "unsent" /\ fate'[m] # "unsent"
      BY <1>1, <2>2 DEF Send, TypeOK
    <3>2. PICK g \in Feeds : Enqueue(g, m)
      BY <3>1, OnlyTasksSend
    <3>3. Send(g, dest[g], m) /\ m \in item[g] /\ feed[g] = "sending" /\ UNCHANGED feedVars
      BY <3>2 DEF Enqueue
    <3>4. r = dest[g]
      <4>1. r # dest[g] => queue'[r] = queue[r]
        BY <1>1, <3>3 DEF Send, TypeOK
      <4>2. queue'[r] # queue[r]
        BY <1>2, <2>2 DEF Slots
      <4>3. QED
        BY <4>1, <4>2
    <3>5. Sent(g) # {} /\ m = sent[g][Len(sent[g])]
      BY <3>3 DEF SentInv
    <3>6. Len(sent[g]) \in Sent(g)
      <4>1. Len(sent[g]) \in Nat
        BY LenProperties DEF SubTypeOK
      <4>2. QED
        BY <3>5, <4>1 DEF Sent
    <3>7. i \in Sent(f) /\ sent[f][i] = m /\ dest'[f] = dest[f]
      BY <1>2, <2>2, <3>3 DEF feedVars, Sent
    <3>8. f = g
      BY <3>5, <3>6, <3>7 DEF ApartInv
    <3>9. QED
      BY <3>4, <3>7, <3>8
  <2>3. QED
    BY <1>1, <2>1, <2>2, QueueFill
<1>3. ASSUME NEW f \in Feeds, NEW r \in Roles, NEW i \in Sent(f)', NEW j \in Sent(f)', i < j
      PROVE  \A k, l \in Slots(r)' :
               queue'[r][k] = sent'[f][i] /\ queue'[r][l] = sent'[f][j] => k < l
  <2>1. i \in Nat /\ j \in Nat /\ i <= Len(sent'[f]) /\ j <= Len(sent'[f]) /\ Len(sent'[f]) \in Nat
    <3>1. Len(sent'[f]) \in Nat
      BY SubTypeStep, LenProperties DEF SubTypeOK
    <3>2. QED
      BY <3>1 DEF Sent
  <2>2. i # Len(sent'[f])
    BY <1>3, <2>1
  <2>3. i \in Sent(f) /\ sent'[f][i] = sent[f][i]
    BY <2>2, SentPast
  <2>4. CASE j \in Sent(f) /\ sent'[f][j] = sent[f][j]
    <3>1. sent[f][i] # sent[f][j] /\ Ahead(r, sent[f][i], sent[f][j])
      BY <1>3, <2>1, <2>3, <2>4 DEF ApartInv, LineInv
    <3>2. sent[f] \in Seq(Msgs) /\ Len(sent[f]) \in Nat
      BY LenProperties DEF SubTypeOK
    <3>3. sent[f][i] \in Msgs /\ sent[f][j] \in Msgs
      BY <2>3, <2>4, <3>2, ElementOfSeq DEF Sent
    <3>4. i # Len(sent[f])
      BY <1>3, <2>1, <2>4, <3>2 DEF Sent
    <3>5. fate[sent[f][i]] # "unsent"
      BY <2>3, <3>4 DEF SentInv
    <3>6. \A k, l \in Slots(r)' :
            queue'[r][k] = sent[f][i] /\ queue'[r][l] = sent[f][j] => k < l
      <4> DEFINE x == sent[f][i]
                 y == sent[f][j]
      <4>1. x \in Msgs /\ y \in Msgs /\ x # y /\ fate[x] # "unsent" /\ Ahead(r, x, y)
        BY <3>1, <3>3, <3>5
      <4> HIDE DEF x, y
      <4>2. PICK u \in Msgs, v \in Msgs : u = x /\ v = y
        BY <4>1
      <4>3. Ahead(r, u, v)'
        BY <1>1, <4>1, <4>2, AheadStays
      <4>4. \A k, l \in Slots(r)' : queue'[r][k] = u /\ queue'[r][l] = v => k < l
        BY <4>3 DEF Ahead
      <4>5. QED
        BY <4>2, <4>4 DEF x, y
    <3>7. QED
      BY <2>3, <2>4, <3>6
  <2>5. CASE fate[sent'[f][j]] = "unsent" /\ UNCHANGED vars
    <3>1. \A l \in Slots(r)' : queue'[r][l] # sent'[f][j]
      BY <2>5 DEF MailboxInv, Slots, vars
    <3>2. QED
      BY <3>1
  <2>6. QED
    BY <2>4, <2>5, SentPast
<1>4. QED
  BY <1>2, <1>3 DEF LineInv, Ahead

\* An item is taken by a handler only when the items before it were handled.
LEMMA GapStep ==
  ASSUME IInv, SubTypeOK, SentInv, LineInv, GapInv, [SubNext]_subVars
  PROVE  GapInv'
<1>1. TypeOK /\ ControlInv /\ MailboxInv /\ FateInv /\ [Next]_vars
  BY SubStep DEF IInv
<1>2. SUFFICES ASSUME NEW f \in Feeds, NEW i \in Sent(f)', NEW j \in Sent(f)', i < j,
                      fate'[sent'[f][j]] \in {"handling", "done", "failed"}
               PROVE  fate'[sent'[f][i]] = "done"
  BY DEF GapInv, Handled
<1>3. i \in Nat /\ j \in Nat /\ j <= Len(sent'[f]) /\ Len(sent'[f]) \in Nat
  <2>1. Len(sent'[f]) \in Nat
    BY SubTypeStep, LenProperties DEF SubTypeOK
  <2>2. QED
    BY <2>1 DEF Sent
<1>4. i \in Sent(f) /\ sent'[f][i] = sent[f][i]
  BY <1>2, <1>3, SentPast
<1>5. j \in Sent(f) /\ sent'[f][j] = sent[f][j]
  <2>1. fate[sent'[f][j]] = "unsent" /\ UNCHANGED vars => fate'[sent'[f][j]] = "unsent"
    BY DEF vars
  <2>2. QED
    BY <1>2, <2>1, SentPast
<1> DEFINE x == sent[f][i]
           y == sent[f][j]
<1>6. x \in Msgs /\ y \in Msgs /\ i # Len(sent[f])
  <2>1. sent[f] \in Seq(Msgs) /\ Len(sent[f]) \in Nat
    BY LenProperties DEF SubTypeOK
  <2>2. x \in Msgs /\ y \in Msgs
    BY <1>4, <1>5, <2>1, ElementOfSeq DEF Sent
  <2>3. QED
    BY <1>2, <1>3, <1>5, <2>1, <2>2 DEF Sent
<1>7. fate[x] \notin {"unsent", "rejected"}
  BY <1>4, <1>6 DEF SentInv
<1>8. CASE fate[x] = "done"
  BY <1>1, <1>4, <1>6, <1>8, FateChanges
<1>9. CASE fate[x] # "done"
  <2>1. fate[y] \notin {"handling", "done", "failed"}
    BY <1>2, <1>4, <1>5, <1>9 DEF GapInv, Handled
  <2>2. PICK r \in Roles : fate[y] = "queued" /\ TakeMessage(r) /\ queue[r][1] = y
    BY <1>1, <1>2, <1>5, <1>6, <2>1, FateChanges
  <2>3. 1 \in Slots(r) /\ pc = "poll"
    BY <1>1, <2>2, TakeEffect DEF TakeMessage
  <2>4. fate[x] # "queued"
    <3>1. SUFFICES ASSUME fate[x] = "queued" PROVE FALSE
      OBVIOUS
    <3>2. PICK s \in Roles : \E k \in Slots(s) : queue[s][k] = x
      BY <1>1, <1>6, <3>1 DEF MailboxInv
    <3>3. PICK k \in Slots(s) : queue[s][k] = x
      BY <3>2
    <3>4. s = r
      BY <1>4, <1>5, <2>2, <2>3, <3>3 DEF LineInv
    <3>5. k < 1
      BY <1>2, <1>4, <1>5, <2>2, <2>3, <3>3, <3>4 DEF LineInv, Ahead
    <3>6. k \in 1..Len(queue[r])
      BY <3>3, <3>4 DEF Slots
    <3>7. QED
      BY <3>5, <3>6
  <2>5. fate[x] \notin {"handling", "lost", "failed"}
    BY <1>1, <1>6, <2>3 DEF FateInv, ControlInv, Looping
  <2>6. QED
    BY <1>1, <1>6, <1>7, <1>9, <2>4, <2>5 DEF TypeOK
<1>10. QED
  BY <1>8, <1>9

\* The handle of the task that was refused kept the actor going until a handler
\* stopped it or panicked.
LEMMA RefusedStep ==
  ASSUME IInv, SubTypeOK, SentInv, SourcesAreNotRefused, [SubNext]_subVars
  PROVE  SourcesAreNotRefused'
<1>1. TypeOK /\ ControlInv /\ GuardInv /\ MailboxInv /\ [Next]_vars
  BY SubStep DEF IInv
<1>2. \A f \in Feeds : DOMAIN sent[f] = Sent(f) /\ DOMAIN sent'[f] = Sent(f)'
  BY SubTypeStep, LenProperties DEF SubTypeOK, Sent
<1>3. ~running \/ ended = "panicked" => ~running' \/ ended' = "panicked"
  BY <1>1, OverForGood
<1>4. SUFFICES ASSUME NEW f \in Feeds, NEW i \in Sent(f)', fate'[sent'[f][i]] = "rejected"
               PROVE  ~running \/ ended = "panicked"
  BY <1>2, <1>3 DEF SourcesAreNotRefused
<1>5. i \in Sent(f) /\ sent'[f][i] = sent[f][i]
  <2>1. fate[sent'[f][i]] = "unsent" /\ UNCHANGED vars => fate'[sent'[f][i]] = "unsent"
    BY DEF vars
  <2>2. QED
    BY <1>4, <2>1, SentPast
<1>6. sent[f][i] \in Msgs
  BY <1>5, ElementOfSeq DEF SubTypeOK, Sent
<1>7. CASE fate[sent[f][i]] = "rejected"
  BY <1>2, <1>5, <1>7 DEF SourcesAreNotRefused
<1>8. CASE fate[sent[f][i]] # "rejected"
  <2>1. PICK g \in Feeds : Enqueue(g, sent[f][i])
    BY <1>1, <1>4, <1>5, <1>6, <1>8, OnlyTasksSend
  <2>2. Send(g, dest[g], sent[f][i]) /\ dest[g] \in Roles /\ g \in Holders
    BY <2>1, Places DEF Enqueue, SubTypeOK
  <2>3. QED
    BY <1>1, <1>4, <1>5, <1>6, <2>2, RefusalCause
<1>9. QED
  BY <1>7, <1>8

-----------------------------------------------------------------------------
(* Theorems                                                                *)

LEMMA InitSubInv == SubInit => Init /\ IInv /\ SubInv
<1> SUFFICES ASSUME SubInit PROVE Init /\ IInv /\ SubInv
  OBVIOUS
<1>2. Init /\ IInv /\ TypeOK
  BY InitIInv DEF SubInit, IInv
<1>3. SubTypeOK
  <2>1. sent \in [Feeds -> Seq(Msgs)]
    BY DEF SubInit
  <2>2. dest \in [Feeds -> Roles]
    BY ConstantsAssumption DEF SubInit, Roles
  <2>3. \A f \in Feeds : f \notin handles
    BY Places DEF SubInit
  <2>4. QED
    BY <1>2, <2>1, <2>2, <2>3 DEF SubInit, SubTypeOK
<1>4. \A f \in Feeds : Sent(f) = {} /\ DOMAIN sent[f] = {}
  BY DEF SubInit, Sent
<1>5. QED
  BY <1>2, <1>3, <1>4
     DEF SubInit, SubInv, SentInv, ApartInv, LineInv, GapInv, SourcesAreNotRefused

LEMMA StepSubInv == IInv /\ SubInv /\ [SubNext]_subVars => IInv' /\ SubInv' /\ [Next]_vars
<1>1. SUFFICES ASSUME IInv, SubInv, [SubNext]_subVars PROVE IInv' /\ SubInv' /\ [Next]_vars
  OBVIOUS
<1>2. [Next]_vars /\ IInv'
  BY <1>1, SubStep, StepIInv DEF SubInv
<1>3. SubTypeOK' /\ SentInv' /\ ApartInv'
  BY <1>1, SubTypeStep, SentStep, ApartStep DEF SubInv, IInv
<1>4. LineInv'
  BY <1>1, LineStep DEF SubInv, IInv
<1>5. GapInv' /\ SourcesAreNotRefused'
  BY <1>1, GapStep, RefusedStep DEF SubInv
<1>6. QED
  BY <1>2, <1>3, <1>4, <1>5 DEF SubInv

\* The invariant of the sources holds throughout, and that of the actor's loop
\* with it, however many futures and streams send to the actor.
THEOREM SubInvariance == SubSpec => [](IInv /\ SubInv)
  BY InitSubInv, StepSubInv, PTL DEF SubSpec

\* To the actor the tasks of futures and streams are holders like any other:
\* what was shown of ActorLoop holds while sources are sent to it.
THEOREM TasksAreHolders == SubSpec => Spec
  BY InitSubInv, StepSubInv, PTL DEF SubSpec, Spec

\* The items of a stream are handled in its order and without a gap (`feed_to`).
THEOREM NoGap == SubSpec => []StreamHasNoGap
<1>1. SubInv => StreamHasNoGap
  <2>1. SUFFICES ASSUME SubInv, NEW f \in Streams, NEW j \in DOMAIN sent[f],
                        NEW i \in 1..(j - 1), Handled(sent[f][j])
                 PROVE  fate[sent[f][i]] = "done"
    BY DEF StreamHasNoGap
  <2>2. f \in Feeds /\ sent[f] \in Seq(Msgs)
    BY <2>1, Places DEF SubInv, SubTypeOK
  <2>3. DOMAIN sent[f] = Sent(f) /\ Len(sent[f]) \in Nat
    BY <2>2, LenProperties DEF Sent
  <2>4. i \in Sent(f) /\ i < j /\ j \in Sent(f)
    BY <2>1, <2>3 DEF Sent
  <2>5. QED
    BY <2>1, <2>2, <2>4 DEF SubInv, GapInv
<1>2. QED
  BY <1>1, SubInvariance, PTL

\* While its task lives a source keeps the actor going: what it yields is refused
\* only by an actor that a handler stopped or broke.
THEOREM NotRefused == SubSpec => []SourcesAreNotRefused
<1>1. SubInv => SourcesAreNotRefused
  BY DEF SubInv
<1>2. QED
  BY <1>1, SubInvariance, PTL
=============================================================================
