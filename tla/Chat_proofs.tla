---------------------------- MODULE Chat_proofs ----------------------------
(***************************************************************************)
(* Proofs about the chat room for any number of connections and lines:     *)
(* who is announced when, and that everybody hears the same.               *)
(***************************************************************************)
EXTENDS Chat, SequenceTheorems, TLAPS

-----------------------------------------------------------------------------
(* Queues                                                                  *)

\* What is appended is in the queue, once if it was not there.
LEMMA AppendSet ==
  ASSUME NEW S, NEW s \in Seq(S), NEW x \in S
  PROVE  /\ Append(s, x) \in Seq(S) /\ Append(s, x) # <<>>
         /\ Len(Append(s, x)) = Len(s) + 1 /\ Len(s) \in Nat
         /\ ToSet(Append(s, x)) = ToSet(s) \cup {x}
         /\ \A e : Once(s, e) /\ (x = e => e \notin ToSet(s)) => Once(Append(s, x), e)
<1> DEFINE t == Append(s, x)
           n == Len(s)
<1>1. /\ DOMAIN s = 1..n /\ n \in Nat
      /\ t \in Seq(S) /\ t # <<>> /\ Len(t) = n + 1 /\ DOMAIN t = 1..(n + 1)
      /\ \A k \in 1..n : t[k] = s[k]
      /\ t[n + 1] = x
  BY AppendProperties, LenProperties
<1> HIDE DEF t, n
<1>2. ToSet(t) = ToSet(s) \cup {x}
  BY <1>1 DEF ToSet
<1>3. ASSUME NEW e, Once(s, e), x = e => e \notin ToSet(s)
      PROVE  Once(t, e)
  <2> SUFFICES ASSUME NEW j \in 1..(n + 1), NEW k \in 1..(n + 1), t[j] = e, t[k] = e
               PROVE  j = k
    BY <1>1 DEF Once
  <2>1. CASE x = e
    <3>1. \A l \in 1..n : s[l] # e
      BY <1>1, <1>3, <2>1 DEF ToSet
    <3>2. QED
      BY <1>1, <3>1
  <2>2. CASE x # e
    <3>1. j \in 1..n /\ k \in 1..n
      BY <1>1, <2>2
    <3>2. QED
      BY <1>1, <1>3, <3>1 DEF Once
  <2>3. QED
    BY <2>1, <2>2
<1>4. QED
  BY <1>1, <1>2, <1>3 DEF t, n

\* What is taken from a queue that had it once is not in it any more.
LEMMA TailSet ==
  ASSUME NEW S, NEW s \in Seq(S), s # <<>>
  PROVE  /\ Head(s) \in S /\ Tail(s) \in Seq(S)
         /\ Len(Tail(s)) = Len(s) - 1 /\ Len(s) \in Nat \ {0}
         /\ ToSet(s) = ToSet(Tail(s)) \cup {Head(s)}
         /\ \A e : Once(s, e) => Once(Tail(s), e) /\ (Head(s) = e => e \notin ToSet(Tail(s)))
<1> DEFINE t == Tail(s)
           n == Len(s)
<1>1. /\ DOMAIN s = 1..n /\ n \in Nat \ {0}
      /\ Head(s) \in S /\ t \in Seq(S) /\ Len(t) = n - 1 /\ DOMAIN t = 1..(n - 1)
      /\ \A k \in 1..(n - 1) : t[k] = s[k + 1]
      /\ Head(s) = s[1]
  BY HeadTailProperties, LenProperties, EmptySeq
<1> HIDE DEF t, n
<1>2. ToSet(s) = ToSet(t) \cup {s[1]}
  <2>1. ASSUME NEW k \in 1..n PROVE s[k] \in ToSet(t) \cup {s[1]}
    <3>1. k # 1 => k - 1 \in 1..(n - 1) /\ t[k - 1] = s[k]
      BY <1>1
    <3>2. QED
      BY <1>1, <3>1 DEF ToSet
  <2>2. ASSUME NEW k \in 1..(n - 1) PROVE t[k] \in ToSet(s)
    BY <1>1 DEF ToSet
  <2>3. s[1] \in ToSet(s)
    BY <1>1 DEF ToSet
  <2>4. QED
    BY <1>1, <2>1, <2>2, <2>3 DEF ToSet
<1>3. ASSUME NEW e, Once(s, e)
      PROVE  Once(t, e) /\ (s[1] = e => e \notin ToSet(t))
  <2>1. \A j, k \in 1..n : s[j] = e /\ s[k] = e => j = k
    BY <1>1, <1>3 DEF Once
  <2>2. Once(t, e)
    <3> SUFFICES ASSUME NEW j \in 1..(n - 1), NEW k \in 1..(n - 1), t[j] = e, t[k] = e
                 PROVE  j = k
      BY <1>1 DEF Once
    <3>1. j + 1 \in 1..n /\ k + 1 \in 1..n /\ s[j + 1] = e /\ s[k + 1] = e
      BY <1>1
    <3>2. QED
      BY <2>1, <3>1
  <2>3. ASSUME s[1] = e, NEW k \in 1..(n - 1) PROVE t[k] # e
    <3>1. k + 1 \in 1..n /\ k + 1 # 1 /\ t[k] = s[k + 1] /\ 1 \in 1..n
      BY <1>1
    <3>2. QED
      BY <2>1, <2>3, <3>1
  <2>4. QED
    BY <1>1, <2>2, <2>3 DEF ToSet
<1>4. QED
  BY <1>1, <1>2, <1>3 DEF t, n

LEMMA EmptySet ==
  /\ ToSet(<<>>) = {} /\ DOMAIN <<>> = {} /\ Len(<<>>) = 0
  /\ \A e : Once(<<>>, e)
  /\ \A S : <<>> \in Seq(S)
<1>1. <<>> \in Seq({}) /\ Len(<<>>) = 0
  BY EmptySeq
<1>2. DOMAIN <<>> = 1..0
  BY <1>1, LenProperties
<1>3. DOMAIN <<>> = {}
  BY <1>2
<1>4. QED
  BY <1>1, <1>3 DEF ToSet, Once

-----------------------------------------------------------------------------
(* Messages                                                                *)

LEMMA RelayMsg ==
  ASSUME NEW m \in RelayMsgs
  PROVE  /\ m[2] \in Ids
         /\ \/ m[1] = "leaves" /\ m = <<"leaves", m[2], 0>>
            \/ m[1] = "line" /\ m[3] \in 1..MaxLines /\ m = <<"line", m[2], m[3]>>
  BY DEF RelayMsgs

LEMMA Text ==
  ASSUME NEW t \in Texts
  PROVE  /\ t[2] \in Ids /\ t[1] \in {"line", "entered", "left"}
         /\ t[1] = "line" => t[3] \in 1..MaxLines /\ t = <<"line", t[2], t[3]>>
         /\ t[1] # "line" => t = <<t[1], t[2], 0>>
  BY DEF Texts

LEMMA SomeTexts ==
  ASSUME NEW i \in Ids
  PROVE  /\ <<"entered", i, 0>> \in Texts /\ <<"left", i, 0>> \in Texts
         /\ \A n \in 1..MaxLines : <<"line", i, n>> \in Texts \cap RelayMsgs
         /\ <<"leaves", i, 0>> \in RelayMsgs
  BY DEF Texts, RelayMsgs

LEMMA ClientMsg ==
  ASSUME NEW m \in ClientMsgs
  PROVE  \/ m[1] = "error"
         \/ m[1] = "line" /\ m[2] \in 1..MaxLines /\ m = <<"line", m[2]>>
         \/ m[1] = "out" /\ m[2] \in Texts /\ m = <<"out", m[2]>>
  BY DEF ClientMsgs

-----------------------------------------------------------------------------
(* The stack of broadcasts                                                 *)

\* A broadcast is put on top of those that are in progress.
LEMMA Push ==
  ASSUME NEW f \in Frames, NEW below \in Seq(Frames)
  PROVE  LET s == <<f>> \o below
         IN  /\ s \in Seq(Frames) /\ s # <<>> /\ Head(s) = f
             /\ ToSet(s) = {f} \cup ToSet(below)
             /\ \A k \in DOMAIN s : k # 1 => k - 1 \in DOMAIN below /\ s[k] = below[k - 1]
<1> DEFINE s == <<f>> \o below
           n == Len(below)
<1>1. <<f>> \in Seq(Frames) /\ Len(<<f>>) = 1 /\ <<f>>[1] = f
  OBVIOUS
<1>2. n \in Nat /\ DOMAIN below = 1..n
  BY LenProperties
<1> HIDE DEF n
<1>3. /\ s \in Seq(Frames) /\ Len(s) = n + 1
      /\ \A k \in 1..(n + 1) : s[k] = IF k <= 1 THEN <<f>>[k] ELSE below[k - 1]
  BY <1>1, <1>2, ConcatProperties DEF n
<1> HIDE DEF s
<1>4. DOMAIN s = 1..(n + 1) /\ s # <<>> /\ s[1] = f
  <2>1. DOMAIN s = 1..(n + 1)
    BY <1>3, LenProperties
  <2>2. QED
    BY <1>1, <1>2, <1>3, <2>1, EmptySet
<1>5. ASSUME NEW k \in DOMAIN s, k # 1
      PROVE  k - 1 \in DOMAIN below /\ s[k] = below[k - 1]
  BY <1>2, <1>3, <1>4, <1>5
<1>6. ASSUME NEW k \in DOMAIN below PROVE k + 1 \in DOMAIN s /\ s[k + 1] = below[k]
  BY <1>2, <1>3, <1>4
<1>7. ToSet(s) = {f} \cup ToSet(below)
  BY <1>2, <1>4, <1>5, <1>6 DEF ToSet
<1>8. Head(s) = f
  BY <1>3, <1>4
<1>9. QED
  BY <1>3, <1>4, <1>5, <1>7, <1>8 DEF s

Found(s, i) == \E f \in ToSet(s) : i \in f.dead
FoundBelow(s, i) == \E k \in DOMAIN s \ {1} : i \in s[k].dead

LEMMA FoundWhere ==
  ASSUME NEW s \in Seq(Frames), s # <<>>
  PROVE  /\ Head(s) = s[1] /\ Head(s) \in Frames /\ 1 \in DOMAIN s
         /\ \A i : Found(s, i) <=> i \in Head(s).dead \/ FoundBelow(s, i)
<1>1. /\ DOMAIN s = 1..Len(s) /\ Len(s) \in Nat \ {0} /\ Head(s) = s[1]
      /\ Head(s) \in Frames
  BY HeadTailProperties, LenProperties, EmptySeq
<1>2. ASSUME NEW i PROVE Found(s, i) <=> i \in Head(s).dead \/ FoundBelow(s, i)
  <2>1. 1 \in DOMAIN s
    BY <1>1
  <2>2. Found(s, i) <=> \E k \in DOMAIN s : i \in s[k].dead
    BY DEF Found, ToSet
  <2>3. QED
    BY <1>1, <2>1, <2>2 DEF FoundBelow
<1>3. QED
  BY <1>1, <1>2

\* What is known of a client changes only the innermost broadcast.
LEMMA ChangeTop ==
  ASSUME NEW s \in Seq(Frames), s # <<>>, NEW f \in Frames
  PROVE  LET u == [s EXCEPT ![1] = f]
         IN  /\ u \in Seq(Frames) /\ u # <<>> /\ DOMAIN u = DOMAIN s /\ Head(u) = f
             /\ \A k \in DOMAIN s \ {1} : u[k] = s[k]
             /\ \A i : Found(u, i) <=> i \in f.dead \/ FoundBelow(s, i)
<1> DEFINE u == [s EXCEPT ![1] = f]
<1>1. /\ DOMAIN s = 1..Len(s) /\ Len(s) \in Nat \ {0} /\ Head(s) \in Frames
  BY FoundWhere, LenProperties, EmptySeq
<1>2. /\ u \in Seq(Frames) /\ Len(u) = Len(s)
      /\ \A k \in 1..Len(s) : u[k] = IF k = 1 THEN f ELSE s[k]
  BY <1>1, ExceptSeq
<1>3. DOMAIN u = DOMAIN s
  OBVIOUS
<1> HIDE DEF u
<1>4. u # <<>>
  BY <1>1, <1>2, EmptySet
<1>5. Head(u) = f
  BY <1>1, <1>2, <1>4, FoundWhere
<1>6. \A k \in DOMAIN s \ {1} : u[k] = s[k]
  BY <1>1, <1>2
<1>7. ASSUME NEW i PROVE Found(u, i) <=> i \in f.dead \/ FoundBelow(s, i)
  <2>1. Found(u, i) <=> i \in Head(u).dead \/ FoundBelow(u, i)
    BY <1>2, <1>4, FoundWhere
  <2>2. FoundBelow(u, i) <=> FoundBelow(s, i)
    BY <1>3, <1>6 DEF FoundBelow
  <2>3. QED
    BY <1>5, <2>1, <2>2
<1>8. QED
  BY <1>2, <1>3, <1>4, <1>5, <1>6, <1>7 DEF u

LEMMA FrameChange ==
  ASSUME NEW A, NEW T, NEW D, NEW f \in [text : A, todo : T, dead : D], NEW dead
  PROVE  [f EXCEPT !.dead = dead] = [text |-> f.text, todo |-> f.todo, dead |-> dead]
  OBVIOUS

LEMMA AnswerChange ==
  ASSUME frames \in Seq(Frames), frames # <<>>, NEW i \in Ids, NEW ok \in BOOLEAN,
         Answer(i, ok)
  PROVE  LET todo == Head(frames).todo \ {i}
             dead == IF ok THEN Head(frames).dead ELSE Head(frames).dead \cup {i}
         IN  /\ asked' = 0 /\ todo \in SUBSET Ids /\ dead \in SUBSET Ids
             /\ frames' = [frames EXCEPT ![1] =
                             [text |-> Head(frames).text, todo |-> todo, dead |-> dead]]
<1> DEFINE todo == Head(frames).todo \ {i}
           dead == IF ok THEN Head(frames).dead ELSE Head(frames).dead \cup {i}
<1>1. Head(frames) \in Frames /\ Head(frames) = frames[1] /\ 1 \in DOMAIN frames
  BY FoundWhere
<1>2. todo \in SUBSET Ids /\ dead \in SUBSET Ids
  BY <1>1 DEF Frames
<1>3. frames' = [frames EXCEPT ![1] =
                   [text |-> frames[1].text, todo |-> frames[1].todo \ {i},
                    dead |-> IF ok THEN frames[1].dead ELSE frames[1].dead \cup {i}]]
  BY DEF Answer
<1>4. asked' = 0
  BY DEF Answer
<1>5. QED
  BY <1>1, <1>2, <1>3, <1>4

-----------------------------------------------------------------------------
(* Steps of the network                                                    *)

LEMMA InitInv == Init => IInv
<1> SUFFICES ASSUME Init PROVE IInv
  OBVIOUS
<1>1. TypeOK
  BY BoundsAreNat, EmptySet DEF Init, TypeOK, Clients, Ids
<1>2. BornInv /\ StackInv
  BY EmptySet DEF Init, BornInv, StackInv, Lacks
<1>3. AskedInv
  BY EmptySet DEF Init, AskedInv
<1>4. LostInv
  BY EmptySet DEF Init, LostInv, Clients
<1>5. LineInv /\ LogInv
  BY EmptySet DEF Init, LineInv, LogInv, Clients
<1>6. AnnouncedOnce /\ SeenInv
  BY EmptySet DEF Init, AnnouncedOnce, IsInjective, SeenInv, Clients
<1>7. QED
  BY <1>1, <1>2, <1>3, <1>4, <1>5, <1>6 DEF IInv

LEMMA QuietInv ==
  ASSUME IInv, TypeOK', wire' \subseteq wire,
         UNCHANGED <<relaying, users, frames, asked, started, phase, inbox, read,
                     tasks, log, seen>>
  PROVE  IInv'
<1>1. BornInv' /\ StackInv' /\ AskedInv'
  BY DEF IInv, BornInv, StackInv, AskedInv, Lacks, Gone, Clients
<1>2. LostInv'
  BY DEF IInv, LostInv, Lost, Silent, Gone, Clients
<1>3. LineInv' /\ LogInv' /\ AnnouncedOnce'
  BY DEF IInv, LineInv, LogInv, AnnouncedOnce, Clients
<1>4. SeenInv'
  BY DEF IInv, SeenInv, Lost, Lacks, Clients
<1>5. QED
  BY <1>1, <1>2, <1>3, <1>4 DEF IInv

LEMMA NetworkInv ==
  ASSUME IInv, NEW i \in Ids,
         Connect \/ EndOfStream(i) \/ Break(i) \/ UNCHANGED vars
  PROVE  IInv'
<1>1. CASE Connect
  <2>1. TypeOK'
    BY <1>1, BoundsAreNat DEF IInv, TypeOK, Connect, serverVars, clientVars, netVars, Clients
  <2>2. QED
    BY <1>1, <2>1, QuietInv DEF Connect, serverVars, clientVars, netVars
<1>2. CASE EndOfStream(i)
  <2>1. TypeOK'
    BY <1>2 DEF IInv, TypeOK, EndOfStream, serverVars, clientVars, Clients
  <2>2. QED
    BY <1>2, <2>1, QuietInv DEF EndOfStream, serverVars, clientVars
<1>3. CASE Break(i)
  <2>1. TypeOK'
    BY <1>3 DEF IInv, TypeOK, Break, serverVars, clientVars, Clients
  <2>2. QED
    BY <1>3, <2>1, QuietInv DEF Break, serverVars, clientVars
<1>4. CASE UNCHANGED vars
  <2>1. TypeOK'
    BY <1>4 DEF IInv, TypeOK, vars, serverVars, clientVars, netVars, Clients
  <2>2. QED
    BY <1>4, <2>1, QuietInv DEF vars, serverVars, clientVars, netVars
<1>5. QED
  BY <1>1, <1>2, <1>3, <1>4

\* A message is put into, or taken from, the mailbox of i.
LEMMA MailAppend ==
  ASSUME inbox \in [Ids -> Seq(ClientMsgs)], NEW i \in Ids, NEW m \in ClientMsgs,
         inbox' = [inbox EXCEPT ![i] = Append(@, m)]
  PROVE  /\ inbox' \in [Ids -> Seq(ClientMsgs)]
         /\ \A j \in Ids : j # i => inbox'[j] = inbox[j]
         /\ Len(inbox'[i]) = Len(inbox[i]) + 1 /\ Len(inbox[i]) \in Nat
         /\ ToSet(inbox'[i]) = ToSet(inbox[i]) \cup {m}
         /\ \A e : Once(inbox[i], e) /\ (m = e => e \notin ToSet(inbox[i]))
                     => Once(inbox'[i], e)
<1>1. inbox[i] \in Seq(ClientMsgs) /\ inbox'[i] = Append(inbox[i], m)
  OBVIOUS
<1>2. \A j \in Ids : j # i => inbox'[j] = inbox[j]
  OBVIOUS
<1>3. inbox'[i] \in Seq(ClientMsgs)
  BY <1>1, AppendSet
<1>4. inbox' \in [Ids -> Seq(ClientMsgs)]
  BY <1>1, <1>3
<1>5. QED
  BY <1>1, <1>2, <1>4, AppendSet

LEMMA MailTake ==
  ASSUME inbox \in [Ids -> Seq(ClientMsgs)], NEW i \in Ids, inbox[i] # <<>>,
         inbox' = [inbox EXCEPT ![i] = Tail(@)]
  PROVE  /\ inbox' \in [Ids -> Seq(ClientMsgs)] /\ Head(inbox[i]) \in ClientMsgs
         /\ \A j \in Ids : j # i => inbox'[j] = inbox[j]
         /\ Len(inbox'[i]) = Len(inbox[i]) - 1 /\ Len(inbox[i]) \in Nat \ {0}
         /\ ToSet(inbox[i]) = ToSet(inbox'[i]) \cup {Head(inbox[i])}
         /\ \A e : Once(inbox[i], e) =>
                     Once(inbox'[i], e) /\ (Head(inbox[i]) = e => e \notin ToSet(inbox'[i]))
<1>1. inbox[i] \in Seq(ClientMsgs) /\ inbox'[i] = Tail(inbox[i])
  OBVIOUS
<1>2. \A j \in Ids : j # i => inbox'[j] = inbox[j]
  OBVIOUS
<1>3. inbox'[i] \in Seq(ClientMsgs)
  BY <1>1, TailSet
<1>4. inbox' \in [Ids -> Seq(ClientMsgs)]
  BY <1>1, <1>3
<1>5. QED
  BY <1>1, <1>2, <1>4, TailSet

\* A line that is read is a new one.
LEMMA FeedInv ==
  ASSUME IInv, NEW i \in Ids, ReadLine(i) \/ ReadError(i)
  PROVE  IInv'
<1>1. TypeOK /\ i \in Clients
  BY DEF IInv, TypeOK, ReadLine, ReadError, Feed
<1>2. PICK m \in ClientMsgs :
        /\ Feed(i, m)
        /\ \/ m = <<"error">> /\ m[1] = "error" /\ read' = read
           \/ /\ m = <<"line", read[i] + 1>> /\ m[1] = "line"
              /\ read[i] + 1 \in 1..MaxLines
              /\ read' = [read EXCEPT ![i] = @ + 1]
  <2>1. CASE ReadError(i)
    <3>1. <<"error">> \in ClientMsgs /\ <<"error">>[1] = "error"
      BY DEF ClientMsgs
    <3>2. QED
      BY <2>1, <3>1 DEF ReadError
  <2>2. CASE ReadLine(i)
    <3>1. read[i] + 1 \in 1..MaxLines
      BY <1>1, <2>2, BoundsAreNat DEF ReadLine, TypeOK
    <3>2. <<"line", read[i] + 1>> \in ClientMsgs /\ <<"line", read[i] + 1>>[1] = "line"
      BY <3>1 DEF ClientMsgs
    <3>3. QED
      BY <2>2, <3>1, <3>2 DEF ReadLine
  <2>3. QED
    BY <2>1, <2>2
<1>3. /\ inbox' = IF Gone(i) THEN inbox ELSE [inbox EXCEPT ![i] = Append(@, m)]
      /\ feeding' \subseteq feeding
      /\ UNCHANGED <<listening, relaying, users, frames, asked, started, phase, backlog,
                     wire, tasks, log, seen>>
  BY <1>2 DEF Feed, serverVars
<1>4. read' \in [Ids -> 0..MaxLines] /\ \A j \in Ids : read[j] <= read'[j]
  <2>1. read \in [Ids -> 0..MaxLines] /\ MaxLines \in Nat
    BY <1>1, BoundsAreNat DEF TypeOK
  <2>2. CASE read' = read
    BY <2>1, <2>2
  <2>3. CASE read' = [read EXCEPT ![i] = @ + 1] /\ read[i] + 1 \in 1..MaxLines
    <3>1. \A j \in Ids : read'[j] = IF j = i THEN read[i] + 1 ELSE read[j]
      BY <2>1, <2>3
    <3>2. read' \in [Ids -> 0..MaxLines]
      BY <2>1, <2>3
    <3>3. QED
      BY <2>1, <3>1, <3>2
  <2>4. QED
    BY <1>2, <2>2, <2>3
<1>5. /\ inbox' \in [Ids -> Seq(ClientMsgs)]
      /\ \A j \in Ids : /\ j # i => inbox'[j] = inbox[j]
                        /\ Len(inbox[j]) <= Len(inbox'[j])
                        /\ ToSet(inbox[j]) \subseteq ToSet(inbox'[j])
                        /\ ToSet(inbox'[j]) \subseteq ToSet(inbox[j]) \cup {m}
                        /\ \A e : Once(inbox[j], e) /\ (m = e => e \notin ToSet(inbox[j]))
                                    => Once(inbox'[j], e)
  <2>1. \A j \in Ids : Len(inbox[j]) \in Nat
    BY <1>1, LenProperties DEF TypeOK
  <2>2. CASE Gone(i)
    BY <1>1, <1>3, <2>1, <2>2 DEF TypeOK
  <2>3. CASE ~Gone(i)
    <3>1. inbox' = [inbox EXCEPT ![i] = Append(@, m)]
      BY <1>3, <2>3
    <3>2. inbox \in [Ids -> Seq(ClientMsgs)]
      BY <1>1 DEF TypeOK
    <3>3. /\ inbox' \in [Ids -> Seq(ClientMsgs)]
          /\ \A j \in Ids : j # i => inbox'[j] = inbox[j]
          /\ Len(inbox'[i]) = Len(inbox[i]) + 1
          /\ ToSet(inbox'[i]) = ToSet(inbox[i]) \cup {m}
          /\ \A e : Once(inbox[i], e) /\ (m = e => e \notin ToSet(inbox[i]))
                      => Once(inbox'[i], e)
      BY <3>1, <3>2, MailAppend
    <3>4. QED
      BY <2>1, <3>3
  <2>4. QED
    BY <2>2, <2>3
<1>6. TypeOK'
  <2>1. \A j \in Ids : backlog[j] <= Len(inbox'[j]) /\ (phase[j] = "serving" => backlog[j] = 0)
    <3>1. \A j \in Ids : Len(inbox[j]) \in Nat /\ Len(inbox'[j]) \in Nat
      BY <1>1, <1>5, LenProperties DEF TypeOK
    <3>2. QED
      BY <1>1, <1>5, <3>1 DEF TypeOK
  <2>2. QED
    BY <1>1, <1>3, <1>4, <1>5, <2>1 DEF TypeOK, Clients
<1>7. BornInv'
  BY <1>1, <1>2, <1>3, <1>5 DEF IInv, BornInv, Clients, TypeOK
<1>8. StackInv' /\ LogInv' /\ AnnouncedOnce'
  BY <1>3 DEF IInv, StackInv, Lacks, LogInv, AnnouncedOnce, Clients
<1>9. AskedInv'
  <2>1. m[1] # "out" /\ \A t : m # <<"out", t>>
    BY <1>2
  <2>2. \A j \in Ids : \A e \in ToSet(inbox'[j]) : e[1] = "out" => e \in ToSet(inbox[j])
    BY <1>5, <2>1
  <2>3. \A j \in Ids : asked # 0 => Once(inbox'[j], <<"out", Head(frames).text>>)
    BY <1>5, <2>1 DEF IInv, AskedInv
  <2>4. asked # 0 => asked \in Ids
    BY <1>1, BoundsAreNat DEF TypeOK, Ids
  <2>5. asked # 0 => \E e \in ToSet(inbox'[asked]) : e[1] = "out"
    BY <1>5, <2>4 DEF IInv, AskedInv
  <2>6. QED
    BY <1>3, <2>2, <2>3, <2>5 DEF IInv, AskedInv, Lacks, Gone
<1>10. LostInv'
  BY <1>3 DEF IInv, LostInv, Lost, Silent, Gone, Clients
<1>11. LineInv'
  <2> SUFFICES ASSUME NEW j \in Ids, NEW n \in 1..MaxLines
               PROVE  LET said   == <<"line", j, n>>
                          unread == <<"line", n>> \in ToSet(inbox'[j])
                      IN  /\ Once(inbox'[j], <<"line", n>>) /\ Once(relaying, said)
                          /\ unread => said \notin tasks \cup ToSet(relaying) \cup ToSet(log)
                          /\ said \in tasks => said \notin ToSet(relaying) \cup ToSet(log)
                          /\ said \in ToSet(relaying) => said \notin ToSet(log)
                          /\ unread \/ said \in tasks \cup ToSet(relaying) \cup ToSet(log) =>
                               j \in Clients /\ n <= read'[j]
    BY <1>3 DEF LineInv, Clients
  <2> DEFINE said == <<"line", j, n>>
             unread == <<"line", n>> \in ToSet(inbox[j])
  <2>1. /\ Once(inbox[j], <<"line", n>>) /\ Once(relaying, said)
        /\ unread => said \notin tasks \cup ToSet(relaying) \cup ToSet(log)
        /\ said \in tasks => said \notin ToSet(relaying) \cup ToSet(log)
        /\ said \in ToSet(relaying) => said \notin ToSet(log)
        /\ unread \/ said \in tasks \cup ToSet(relaying) \cup ToSet(log) =>
             j \in Clients /\ n <= read[j]
    BY DEF IInv, LineInv
  <2>2. n <= read[j] => n <= read'[j]
    BY <1>1, <1>4 DEF TypeOK
  <2>3. CASE j = i /\ m = <<"line", n>>
    <3>1. n = read[i] + 1 /\ n = read'[i]
      BY <1>1, <1>2, <2>3 DEF TypeOK
    <3>2. ~(n <= read[i]) /\ n <= read'[i]
      BY <1>1, <3>1 DEF TypeOK
    <3>3. ~unread /\ said \notin tasks \cup ToSet(relaying) \cup ToSet(log)
      BY <2>1, <2>3, <3>2
    <3>4. Once(inbox'[j], <<"line", n>>)
      BY <1>5, <2>1, <3>3
    <3>5. QED
      BY <1>1, <2>1, <2>3, <3>2, <3>3, <3>4
  <2>4. CASE ~(j = i /\ m = <<"line", n>>)
    <3>1. (<<"line", n>> \in ToSet(inbox'[j])) <=> unread
      BY <1>5, <2>4
    <3>2. Once(inbox'[j], <<"line", n>>)
      BY <1>5, <2>1, <2>4
    <3>3. QED
      BY <2>1, <2>2, <3>1, <3>2
  <2>5. QED
    BY <2>3, <2>4
<1>12. SeenInv'
  BY <1>3 DEF IInv, SeenInv, Lost, Lacks, Clients
<1>13. QED
  BY <1>6, <1>7, <1>8, <1>9, <1>10, <1>11, <1>12 DEF IInv

-----------------------------------------------------------------------------
(* Steps of the clients                                                    *)

\* A handler takes a message and may stop its actor; it never ends it.
LEMMA TakeStep ==
  ASSUME TypeOK, NEW i \in Ids, NEW what, NEW stop \in BOOLEAN,
         Take(i, what), StopIf(i, stop)
  PROVE  /\ i \in Clients /\ ~Gone(i)
         /\ inbox' \in [Ids -> Seq(ClientMsgs)]
         /\ phase' \in [Ids -> {"serving", "stopping", "ended", "idled"}]
         /\ backlog' \in [Ids -> Nat]
         /\ \A j \in Ids : /\ backlog'[j] <= Len(inbox'[j])
                           /\ phase'[j] = "serving" => backlog'[j] = 0
         /\ \A j \in Ids : /\ Gone(j)' <=> Gone(j)
                           /\ j # i => inbox'[j] = inbox[j] /\ phase'[j] = phase[j]
         /\ Head(inbox[i]) \in ClientMsgs /\ Head(inbox[i])[1] = what
         /\ ToSet(inbox[i]) = ToSet(inbox'[i]) \cup {Head(inbox[i])}
<1>1. /\ i \in Clients /\ ~Gone(i) /\ inbox[i] # <<>> /\ Head(inbox[i])[1] = what
      /\ inbox' = [inbox EXCEPT ![i] = Tail(@)]
  BY DEF Take
<1>2. inbox \in [Ids -> Seq(ClientMsgs)]
  BY DEF TypeOK
<1>3. /\ inbox' \in [Ids -> Seq(ClientMsgs)] /\ Head(inbox[i]) \in ClientMsgs
      /\ \A j \in Ids : j # i => inbox'[j] = inbox[j]
      /\ Len(inbox'[i]) = Len(inbox[i]) - 1 /\ Len(inbox[i]) \in Nat \ {0}
      /\ ToSet(inbox[i]) = ToSet(inbox'[i]) \cup {Head(inbox[i])}
  BY <1>1, <1>2, MailTake
<1>4. /\ backlog \in [Ids -> Nat]
      /\ \A j \in Ids : /\ backlog[j] <= Len(inbox[j])
                        /\ phase[j] = "serving" => backlog[j] = 0
      /\ phase \in [Ids -> {"serving", "stopping", "ended", "idled"}]
  BY DEF TypeOK
<1>5. CASE stop /\ phase[i] = "serving"
  <2>1. /\ phase' = [phase EXCEPT ![i] = "stopping"]
        /\ backlog' = [backlog EXCEPT ![i] = Len(inbox[i]) - 1]
    BY <1>5 DEF StopIf
  <2>2. \A j \in Ids : Gone(j)' <=> Gone(j)
    BY <1>4, <1>5, <2>1 DEF Gone
  <2>3. /\ backlog' \in [Ids -> Nat]
        /\ \A j \in Ids : /\ backlog'[j] <= Len(inbox'[j])
                          /\ phase'[j] = "serving" => backlog'[j] = 0
    <3>1. \A j \in Ids : backlog'[j] = IF j = i THEN Len(inbox[i]) - 1 ELSE backlog[j]
      BY <1>4, <2>1
    <3>2. Len(inbox'[i]) = Len(inbox[i]) - 1 /\ Len(inbox[i]) - 1 \in Nat
      BY <1>3
    <3>3. backlog' \in [Ids -> Nat]
      BY <1>4, <2>1, <3>2
    <3>4. \A j \in Ids : j # i => Len(inbox'[j]) = Len(inbox[j])
      BY <1>3
    <3>5. \A j \in Ids : phase'[j] = IF j = i THEN "stopping" ELSE phase[j]
      BY <1>4, <2>1
    <3>6. QED
      BY <1>4, <3>1, <3>2, <3>3, <3>4, <3>5
  <2>4. QED
    BY <1>1, <1>3, <1>4, <2>1, <2>2, <2>3
<1>6. CASE ~(stop /\ phase[i] = "serving")
  <2>1. /\ phase' = phase
        /\ backlog' = [backlog EXCEPT ![i] = IF backlog[i] = 0 THEN 0 ELSE backlog[i] - 1]
    BY <1>6 DEF StopIf
  <2>2. /\ backlog' \in [Ids -> Nat]
        /\ \A j \in Ids : /\ backlog'[j] <= Len(inbox'[j])
                          /\ phase'[j] = "serving" => backlog'[j] = 0
    <3> DEFINE left == IF backlog[i] = 0 THEN 0 ELSE backlog[i] - 1
    <3>1. /\ left \in Nat /\ left <= Len(inbox[i]) - 1
          /\ phase[i] = "serving" => left = 0
      BY <1>3, <1>4
    <3> HIDE DEF left
    <3>2. backlog' = [backlog EXCEPT ![i] = left]
      BY <2>1 DEF left
    <3>3. backlog' \in [Ids -> Nat]
      BY <1>4, <3>1, <3>2
    <3>4. \A j \in Ids : backlog'[j] = IF j = i THEN left ELSE backlog[j]
      BY <1>4, <3>2
    <3>5. \A j \in Ids : Len(inbox'[j]) = IF j = i THEN Len(inbox[i]) - 1 ELSE Len(inbox[j])
      BY <1>3
    <3>6. QED
      BY <1>4, <2>1, <3>1, <3>3, <3>4, <3>5
  <2>3. QED
    BY <1>1, <1>3, <1>4, <2>1, <2>2 DEF Gone
<1>7. QED
  BY <1>5, <1>6

\* A line goes from the mailbox into a task.
LEMMA OnReadInv ==
  ASSUME IInv, NEW i \in Ids, OnReadLine(i) \/ OnReadError(i)
  PROVE  IInv'
<1> DEFINE m == Head(inbox[i])
<1>1. TypeOK
  BY DEF IInv
<1>2. PICK new \in SUBSET RelayMsgs :
        /\ Take(i, m[1]) /\ \E stop \in BOOLEAN : StopIf(i, stop)
        /\ tasks' = tasks \cup new
        /\ \/ m[1] = "error" /\ new = {}
           \/ \E n \in 1..MaxLines : m = <<"line", n>> /\ new = {<<"line", i, n>>}
  <2>1. CASE OnReadError(i)
    <3>1. m[1] = "error" /\ Take(i, m[1]) /\ StopIf(i, TRUE) /\ tasks' = tasks \cup {}
      BY <2>1 DEF OnReadError, Take
    <3>2. QED
      BY <3>1
  <2>2. CASE OnReadLine(i)
    <3>1. /\ m[1] = "line" /\ Take(i, m[1]) /\ StopIf(i, FALSE)
          /\ tasks' = tasks \cup {<<"line", i, m[2]>>}
      BY <2>2 DEF OnReadLine, Take
    <3>2. m \in ClientMsgs
      BY <1>1, <3>1, TakeStep
    <3>3. m[2] \in 1..MaxLines /\ m = <<"line", m[2]>>
      BY <3>1, <3>2, ClientMsg
    <3>4. <<"line", i, m[2]>> \in RelayMsgs
      BY <3>3, SomeTexts
    <3>5. QED
      BY <3>1, <3>3, <3>4
  <2>3. QED
    BY <2>1, <2>2
<1>3. UNCHANGED <<listening, relaying, users, frames, asked, started, feeding, wire, read,
                  log, seen>>
  BY DEF OnReadLine, OnReadError, serverVars, netVars
<1>4. /\ i \in Clients /\ ~Gone(i)
      /\ inbox' \in [Ids -> Seq(ClientMsgs)]
      /\ phase' \in [Ids -> {"serving", "stopping", "ended", "idled"}]
      /\ backlog' \in [Ids -> Nat]
      /\ \A j \in Ids : /\ backlog'[j] <= Len(inbox'[j])
                        /\ phase'[j] = "serving" => backlog'[j] = 0
      /\ \A j \in Ids : /\ Gone(j)' <=> Gone(j)
                        /\ j # i => inbox'[j] = inbox[j] /\ phase'[j] = phase[j]
      /\ ToSet(inbox[i]) = ToSet(inbox'[i]) \cup {m}
      /\ \A e : Once(inbox[i], e) =>
                  Once(inbox'[i], e) /\ (m = e => e \notin ToSet(inbox'[i]))
  <2>1. PICK stop \in BOOLEAN : Take(i, m[1]) /\ StopIf(i, stop)
    BY <1>2
  <2>2. /\ i \in Clients /\ ~Gone(i)
        /\ inbox' \in [Ids -> Seq(ClientMsgs)]
        /\ phase' \in [Ids -> {"serving", "stopping", "ended", "idled"}]
        /\ backlog' \in [Ids -> Nat]
        /\ \A j \in Ids : /\ backlog'[j] <= Len(inbox'[j])
                          /\ phase'[j] = "serving" => backlog'[j] = 0
    BY <1>1, <2>1, TakeStep
  <2>3. \A j \in Ids : Gone(j)' <=> Gone(j)
    BY <1>1, <2>1, TakeStep
  <2>4. \A j \in Ids : j # i => inbox'[j] = inbox[j] /\ phase'[j] = phase[j]
    BY <1>1, <2>1, TakeStep
  <2>5. ToSet(inbox[i]) = ToSet(inbox'[i]) \cup {m}
    BY <1>1, <2>1, TakeStep
  <2>6. \A e : Once(inbox[i], e) =>
                Once(inbox'[i], e) /\ (Head(inbox[i]) = e => e \notin ToSet(inbox'[i]))
    <3>1. inbox \in [Ids -> Seq(ClientMsgs)]
      BY <1>1 DEF TypeOK
    <3>2. inbox[i] # <<>> /\ inbox' = [inbox EXCEPT ![i] = Tail(@)]
      BY <2>1 DEF Take
    <3>3. QED
      BY <3>1, <3>2, MailTake
  <2>7. QED
    BY <2>2, <2>3, <2>4, <2>5, <2>6
<1> HIDE DEF m
<1>5. m[1] # "out"
  BY <1>2
<1>6. TypeOK'
  BY <1>1, <1>2, <1>3, <1>4 DEF TypeOK, Clients
<1>7. BornInv'
  BY <1>3, <1>4 DEF IInv, BornInv, Clients
<1>8. StackInv' /\ LogInv' /\ AnnouncedOnce' /\ SeenInv'
  <2>1. StackInv' /\ LogInv' /\ AnnouncedOnce'
    BY <1>3 DEF IInv, StackInv, Lacks, LogInv, AnnouncedOnce, Clients
  <2>2. SeenInv'
    BY <1>3 DEF IInv, SeenInv, Lacks, Lost, Clients
  <2>3. QED
    BY <2>1, <2>2
<1>9. AskedInv'
  <2>1. \A j \in Ids : /\ ToSet(inbox'[j]) \subseteq ToSet(inbox[j])
                       /\ \A e \in ToSet(inbox[j]) : e[1] = "out" => e \in ToSet(inbox'[j])
    BY <1>4, <1>5
  <2>2. \A j \in Ids : asked # 0 => Once(inbox'[j], <<"out", Head(frames).text>>)
    BY <1>4 DEF IInv, AskedInv
  <2>3. asked # 0 => asked \in Ids
    BY <1>1, BoundsAreNat DEF TypeOK, Ids
  <2>4. asked # 0 => ~Gone(asked)'
    BY <1>3, <1>4, <2>3 DEF IInv, AskedInv
  <2>5. asked # 0 => \E e \in ToSet(inbox'[asked]) : e[1] = "out"
    BY <2>1, <2>3 DEF IInv, AskedInv
  <2>6. QED
    BY <1>3, <2>1, <2>2, <2>4, <2>5 DEF IInv, AskedInv, Lacks
<1>10. LostInv'
  <2>1. \A j \in Clients : j \in Ids
    BY <1>1, BoundsAreNat DEF TypeOK, Clients, Ids
  <2>2. \A j \in Ids : <<"leaves", j, 0>> \in tasks' => <<"leaves", j, 0>> \in tasks
    BY <1>2
  <2>3. QED
    BY <1>3, <1>4, <2>1, <2>2 DEF IInv, LostInv, Lost, Silent, Clients
<1>11. LineInv'
  <2> SUFFICES ASSUME NEW j \in Ids, NEW n \in 1..MaxLines
               PROVE  LET said   == <<"line", j, n>>
                          unread == <<"line", n>> \in ToSet(inbox'[j])
                      IN  /\ Once(inbox'[j], <<"line", n>>) /\ Once(relaying, said)
                          /\ unread => said \notin tasks' \cup ToSet(relaying) \cup ToSet(log)
                          /\ said \in tasks' => said \notin ToSet(relaying) \cup ToSet(log)
                          /\ said \in ToSet(relaying) => said \notin ToSet(log)
                          /\ unread \/ said \in tasks' \cup ToSet(relaying) \cup ToSet(log) =>
                               j \in Clients /\ n <= read[j]
    BY <1>3 DEF LineInv, Clients
  <2> DEFINE said == <<"line", j, n>>
             unread == <<"line", n>> \in ToSet(inbox[j])
  <2>1. /\ Once(inbox[j], <<"line", n>>) /\ Once(relaying, said)
        /\ unread => said \notin tasks \cup ToSet(relaying) \cup ToSet(log)
        /\ said \in tasks => said \notin ToSet(relaying) \cup ToSet(log)
        /\ said \in ToSet(relaying) => said \notin ToSet(log)
        /\ unread \/ said \in tasks \cup ToSet(relaying) \cup ToSet(log) =>
             j \in Clients /\ n <= read[j]
    BY DEF IInv, LineInv
  <2>2. /\ ToSet(inbox'[j]) \subseteq ToSet(inbox[j])
        /\ Once(inbox'[j], <<"line", n>>)
    BY <1>4, <2>1
  <2>3. CASE j = i /\ m = <<"line", n>>
    <3>1. unread /\ <<"line", n>> \notin ToSet(inbox'[j])
      BY <1>4, <2>1, <2>3
    <3>2. QED
      BY <2>1, <2>2, <3>1
  <2>4. CASE ~(j = i /\ m = <<"line", n>>)
    <3>1. said \in tasks' <=> said \in tasks
      BY <1>2, <2>4
    <3>2. QED
      BY <2>1, <2>2, <3>1
  <2>5. QED
    BY <2>3, <2>4
<1>12. QED
  BY <1>6, <1>7, <1>8, <1>9, <1>10, <1>11 DEF IInv

\* The latest broadcast learns what became of its text at i.
LEMMA AnswerStep ==
  ASSUME frames \in Seq(Frames), NEW i \in Ids, NEW ok \in BOOLEAN,
         Lacks(i), Answer(i, ok), users' = users
  PROVE  /\ asked' = 0 /\ frames' \in Seq(Frames) /\ frames' # <<>>
         /\ Head(frames').text = Head(frames).text
         /\ \A k \in DOMAIN frames' : k # 1 => k \in DOMAIN frames /\ frames'[k] = frames[k]
         /\ \A j : Lacks(j)' <=> Lacks(j) /\ j # i
         /\ \A j : Lost(j)' <=> Lost(j) \/ (~ok /\ j = i)
<1> DEFINE todo == Head(frames).todo \ {i}
           dead == IF ok THEN Head(frames).dead ELSE Head(frames).dead \cup {i}
<1>1. frames # <<>> /\ i \in Head(frames).todo
  BY DEF Lacks
<1> DEFINE f == [text |-> Head(frames).text, todo |-> todo, dead |-> dead]
<1>2. /\ asked' = 0 /\ frames' = [frames EXCEPT ![1] = f]
      /\ todo \in SUBSET Ids /\ dead \in SUBSET Ids
  BY <1>1, AnswerChange
<1>3. \A j : j \in dead <=> j \in Head(frames).dead \/ (~ok /\ j = i)
  OBVIOUS
<1> HIDE DEF dead
<1>4. \A j : j \in todo <=> j \in Head(frames).todo /\ j # i
  OBVIOUS
<1> HIDE DEF todo
<1>5. f \in Frames /\ f.text = Head(frames).text /\ f.todo = todo /\ f.dead = dead
  <2>1. Head(frames).text \in Texts
    BY <1>1, FoundWhere DEF Frames
  <2>2. QED
    BY <1>2, <2>1 DEF Frames
<1> HIDE DEF f
<1>6. /\ frames' \in Seq(Frames) /\ frames' # <<>> /\ DOMAIN frames' = DOMAIN frames
      /\ Head(frames') = f
      /\ \A k \in DOMAIN frames \ {1} : frames'[k] = frames[k]
      /\ \A j : Found(frames', j) <=> j \in dead \/ FoundBelow(frames, j)
  BY <1>1, <1>2, <1>5, ChangeTop
<1>7. ASSUME NEW j PROVE Lacks(j)' <=> Lacks(j) /\ j # i
  BY <1>1, <1>4, <1>5, <1>6 DEF Lacks
<1>8. ASSUME NEW j PROVE Lost(j)' <=> Lost(j) \/ (~ok /\ j = i)
  <2>1. Lost(j)' <=> j \notin users \/ Found(frames', j)
    BY DEF Lost, Found
  <2>2. Lost(j) <=> j \notin users \/ Found(frames, j)
    BY DEF Lost, Found
  <2>3. Found(frames, j) <=> j \in Head(frames).dead \/ FoundBelow(frames, j)
    BY <1>1, FoundWhere
  <2>4. QED
    BY <1>3, <1>6, <2>1, <2>2, <2>3
<1>9. QED
  BY <1>2, <1>5, <1>6, <1>7, <1>8

\* A client gets a text that all who are not lost get, too.
LEMMA OnSendOutInv ==
  ASSUME IInv, NEW i \in Ids, OnSendOut(i)
  PROVE  IInv'
<1> DEFINE m == Head(inbox[i])
           text == Head(frames).text
           ok == i \in wire
<1>1. /\ TypeOK /\ Take(i, "out") /\ StopIf(i, ~ok) /\ Answer(i, ok)
      /\ UNCHANGED <<listening, relaying, users, started, feeding, wire, read, tasks, log>>
  BY DEF IInv, OnSendOut, netVars
<1>2. /\ i \in Clients /\ ~Gone(i)
      /\ inbox' \in [Ids -> Seq(ClientMsgs)]
      /\ phase' \in [Ids -> {"serving", "stopping", "ended", "idled"}]
      /\ backlog' \in [Ids -> Nat]
      /\ \A j \in Ids : /\ backlog'[j] <= Len(inbox'[j])
                        /\ phase'[j] = "serving" => backlog'[j] = 0
      /\ \A j \in Ids : /\ Gone(j)' <=> Gone(j)
                        /\ j # i => inbox'[j] = inbox[j] /\ phase'[j] = phase[j]
      /\ ToSet(inbox[i]) = ToSet(inbox'[i]) \cup {m}
      /\ m[1] = "out"
  BY <1>1, TakeStep
<1>3. \A e : Once(inbox[i], e) => Once(inbox'[i], e) /\ (m = e => e \notin ToSet(inbox'[i]))
  <2>1. inbox \in [Ids -> Seq(ClientMsgs)]
    BY <1>1 DEF TypeOK
  <2>2. inbox[i] # <<>> /\ inbox' = [inbox EXCEPT ![i] = Tail(@)]
    BY <1>1 DEF Take
  <2>3. QED
    BY <2>1, <2>2, MailTake
<1> HIDE DEF m
<1>4. /\ i = asked /\ asked # 0 /\ m = <<"out", text>> /\ Lacks(i)
  <2>1. i = asked /\ m = <<"out", text>>
    BY <1>2 DEF IInv, AskedInv
  <2>2. i # 0
    BY DEF Ids
  <2>3. QED
    BY <2>1, <2>2 DEF IInv, AskedInv
<1>5. frames \in Seq(Frames)
  BY <1>1 DEF TypeOK
<1>6. /\ asked' = 0 /\ frames' \in Seq(Frames) /\ frames' # <<>>
      /\ Head(frames').text = text
      /\ \A k \in DOMAIN frames' : k # 1 => k \in DOMAIN frames /\ frames'[k] = frames[k]
      /\ \A j : Lacks(j)' <=> Lacks(j) /\ j # i
      /\ \A j : Lost(j)' <=> Lost(j) \/ (~ok /\ j = i)
  <2>1. ok \in BOOLEAN /\ Answer(i, ok) /\ users' = users
    BY <1>1
  <2> HIDE DEF ok
  <2>2. /\ asked' = 0 /\ frames' \in Seq(Frames) /\ frames' # <<>>
        /\ Head(frames').text = text
    BY <1>4, <1>5, <2>1, AnswerStep
  <2>3. \A k \in DOMAIN frames' : k # 1 => k \in DOMAIN frames /\ frames'[k] = frames[k]
    BY <1>4, <1>5, <2>1, AnswerStep
  <2>4. \A j : Lacks(j)' <=> Lacks(j) /\ j # i
    BY <1>4, <1>5, <2>1, AnswerStep
  <2>5. \A j : Lost(j)' <=> Lost(j) \/ (~ok /\ j = i)
    BY <1>4, <1>5, <2>1, AnswerStep
  <2>6. QED
    BY <2>2, <2>3, <2>4, <2>5
<1>7. /\ log \in Seq(Texts) /\ log # <<>> /\ text = log[Len(log)] /\ Len(log) \in Nat \ {0}
      /\ text \in Texts
  <2>1. log \in Seq(Texts) /\ log # <<>> /\ text = log[Len(log)]
    BY <1>1, <1>4 DEF IInv, StackInv, TypeOK
  <2>2. Len(log) \in Nat \ {0} /\ Len(log) \in 1..Len(log)
    BY <2>1, EmptySeq
  <2>3. QED
    BY <2>1, <2>2, ElementOfSeq
<1>8. /\ seen \in [Ids -> Seq(Texts)]
      /\ seen' = IF ok THEN [seen EXCEPT ![i] = Append(@, text)] ELSE seen
  <2>1. m[2] = text
    BY <1>4
  <2>2. seen' = IF ok THEN [seen EXCEPT ![i] = Append(@, m[2])] ELSE seen
    BY DEF OnSendOut, m
  <2>3. QED
    BY <1>1, <2>1, <2>2 DEF TypeOK
<1>9. /\ seen' \in [Ids -> Seq(Texts)]
      /\ \A j \in Ids : j # i => seen'[j] = seen[j]
  <2>1. Append(seen[i], text) \in Seq(Texts)
    BY <1>7, <1>8, AppendSet
  <2>2. QED
    BY <1>8, <2>1
<1>10. TypeOK'
  <2>1. /\ frames' \in Seq(Frames) /\ asked' \in 0..started /\ started \in Nat
        /\ seen' \in [Ids -> Seq(Texts)]
    BY <1>1, <1>6, <1>9 DEF TypeOK
  <2>2. UNCHANGED <<listening, relaying, users, started, feeding, wire, read, tasks, log>>
    BY <1>1
  <2>3. QED
    BY <1>1, <1>2, <2>1, <2>2 DEF TypeOK, Clients
<1>11. BornInv'
  BY <1>1, <1>2, <1>9 DEF IInv, BornInv, Clients
<1>12. StackInv'
  <2>1. \A j \in Ids : Lacks(j)' => j \in users' /\ log' # <<>> /\ Head(frames').text = log'[Len(log')]
    BY <1>1, <1>6 DEF IInv, StackInv
  <2>2. \A k \in DOMAIN frames' : k # 1 => frames'[k].todo = {}
    BY <1>6 DEF IInv, StackInv
  <2>3. QED
    BY <2>1, <2>2 DEF StackInv
<1>13. AskedInv'
  <2>1. ASSUME NEW j \in Ids, NEW e \in ToSet(inbox'[j]), e[1] = "out"
        PROVE  FALSE
    <3>1. e \in ToSet(inbox[j])
      BY <1>2
    <3>2. j = i /\ e = <<"out", text>>
      BY <1>4, <2>1, <3>1 DEF IInv, AskedInv
    <3>3. Once(inbox[i], <<"out", text>>)
      BY <1>4 DEF IInv, AskedInv
    <3>4. QED
      BY <1>3, <1>4, <2>1, <3>2, <3>3
  <2>2. QED
    BY <1>6, <2>1 DEF AskedInv
<1>14. LostInv'
  <2>1. \A j \in Clients : j \in Ids
    BY <1>1, BoundsAreNat DEF TypeOK, Clients, Ids
  <2>2. ASSUME NEW j \in Clients, Lost(j)'
        PROVE  Silent(j)'
    <3>1. Lost(j) \/ j \notin wire
      BY <1>6, <2>2
    <3>2. Silent(j)
      BY <3>1 DEF IInv, LostInv, Silent
    <3>3. QED
      BY <1>1, <1>2, <2>1, <3>2 DEF Silent
  <2>3. \A j \in Ids : <<"leaves", j, 0>> \in tasks \cup ToSet(relaying) => j \in Clients /\ Gone(j)'
    BY <1>2 DEF IInv, LostInv
  <2>4. QED
    BY <1>1, <2>2, <2>3 DEF LostInv, Clients
<1>15. LineInv'
  <2>1. \A j \in Ids, n \in 1..MaxLines :
          /\ <<"line", n>> \in ToSet(inbox'[j]) <=> <<"line", n>> \in ToSet(inbox[j])
          /\ Once(inbox[j], <<"line", n>>) => Once(inbox'[j], <<"line", n>>)
    <3>1. \A n : <<"line", n>> # m
      BY <1>4
    <3>2. QED
      BY <1>2, <1>3, <3>1
  <2>2. QED
    BY <1>1, <2>1 DEF IInv, LineInv, Clients
<1>16. LogInv' /\ AnnouncedOnce'
  BY <1>1 DEF IInv, LogInv, AnnouncedOnce, Clients
<1>17. SeenInv'
  <2> SUFFICES ASSUME NEW j \in Clients, NEW p \in DOMAIN log, log[p] = <<"entered", j, 0>>
               PROVE  /\ Len(seen'[j]) <= Len(log) - p + 1
                      /\ \A k \in 1..Len(seen'[j]) : seen'[j][k] = log[p + k - 1]
                      /\ Lost(j)' \/ Len(seen'[j]) = Len(log) - p + (IF Lacks(j)' THEN 0 ELSE 1)
    BY <1>1 DEF SeenInv, Clients
  <2>1. /\ Len(seen[j]) <= Len(log) - p + 1
        /\ \A k \in 1..Len(seen[j]) : seen[j][k] = log[p + k - 1]
        /\ Lost(j) \/ Len(seen[j]) = Len(log) - p + (IF Lacks(j) THEN 0 ELSE 1)
    BY DEF IInv, SeenInv
  <2>2. j \in Ids
    BY <1>1, BoundsAreNat DEF TypeOK, Clients, Ids
  <2>3. CASE j # i
    <3>1. seen'[j] = seen[j]
      BY <1>9, <2>2, <2>3
    <3>2. (Lost(j)' <=> Lost(j)) /\ (Lacks(j)' <=> Lacks(j))
      BY <1>6, <2>3
    <3>3. QED
      BY <2>1, <3>1, <3>2
  <2>4. CASE j = i /\ ~ok
    <3>1. seen'[j] = seen[j] /\ Lost(j)'
      BY <1>6, <1>8, <2>4
    <3>2. QED
      BY <2>1, <3>1
  <2>5. CASE j = i /\ ok
    <3>1. ~Lost(i)
      BY <1>2, <2>5 DEF IInv, LostInv, Silent
    <3>2. Len(seen[i]) = Len(log) - p
      BY <1>4, <2>1, <2>5, <3>1
    <3>3. /\ DOMAIN log = 1..Len(log) /\ p \in 1..Len(log)
      BY <1>7, LenProperties
    <3>4. /\ Len(seen'[i]) = Len(log) - p + 1
          /\ seen'[i][Len(log) - p + 1] = text
          /\ \A k \in 1..(Len(log) - p) : seen'[i][k] = seen[i][k]
      BY <1>7, <1>8, <2>5, <3>2, AppendProperties
    <3>5. ASSUME NEW k \in 1..(Len(log) - p + 1) PROVE seen'[i][k] = log[p + k - 1]
      <4>1. CASE k = Len(log) - p + 1
        <5>1. p + k - 1 = Len(log)
          BY <1>7, <3>3, <4>1
        <5>2. QED
          BY <1>7, <3>4, <4>1, <5>1
      <4>2. CASE k # Len(log) - p + 1
        <5>1. k \in 1..(Len(log) - p)
          BY <1>7, <3>3, <4>2
        <5>2. QED
          BY <2>1, <2>5, <3>2, <3>4, <5>1
      <4>3. QED
        BY <4>1, <4>2
    <3>6. ~Lacks(i)'
      BY <1>6
    <3>7. QED
      BY <1>7, <2>5, <3>3, <3>4, <3>5, <3>6
  <2>6. QED
    BY <2>3, <2>4, <2>5
<1>18. QED
  BY <1>10, <1>11, <1>12, <1>13, <1>14, <1>15, <1>16, <1>17 DEF IInv

\* A client's end answers the Server if it waits for it.
LEMMA EndInv ==
  ASSUME IInv, NEW i \in Ids, End(i)
  PROVE  IInv'
<1>1. /\ TypeOK /\ i \in Clients /\ ~Gone(i)
      /\ IF phase[i] = "stopping" THEN backlog[i] = 0 ELSE i \notin users \cup feeding
      /\ phase' = [phase EXCEPT ![i] = IF phase[i] = "stopping" THEN "ended" ELSE "idled"]
      /\ inbox' = [inbox EXCEPT ![i] = <<>>]
      /\ tasks' = tasks \cup {<<"leaves", i, 0>>}
      /\ IF asked = i THEN Answer(i, FALSE) ELSE UNCHANGED <<asked, frames>>
      /\ UNCHANGED <<listening, relaying, users, started, backlog, feeding, wire, read,
                     log, seen>>
  BY DEF IInv, End, EndLoop, netVars
<1>2. /\ phase \in [Ids -> {"serving", "stopping", "ended", "idled"}]
      /\ inbox \in [Ids -> Seq(ClientMsgs)] /\ frames \in Seq(Frames)
      /\ asked \in 0..started /\ started \in Nat
  BY <1>1 DEF TypeOK
<1>3. /\ phase' \in [Ids -> {"serving", "stopping", "ended", "idled"}]
      /\ inbox' \in [Ids -> Seq(ClientMsgs)]
      /\ \A j \in Ids : inbox'[j] = IF j = i THEN <<>> ELSE inbox[j]
      /\ phase'[i] \in {"ended", "idled"}
      /\ \A j \in Ids : j # i => phase'[j] = phase[j]
  BY <1>1, <1>2, EmptySet
<1>4. \A j \in Ids : Gone(j)' <=> Gone(j) \/ j = i
  BY <1>3 DEF Gone
<1>5. asked = i => Lacks(i)
  BY DEF IInv, AskedInv, Ids
<1>6. /\ asked' = IF asked = i THEN 0 ELSE asked
      /\ frames' \in Seq(Frames)
      /\ frames # <<>> => Head(frames').text = Head(frames).text
      /\ \A k \in DOMAIN frames' : k # 1 => k \in DOMAIN frames /\ frames'[k] = frames[k]
      /\ \A j : Lacks(j)' <=> Lacks(j) /\ ~(asked = i /\ j = i)
      /\ \A j : Lost(j)' <=> Lost(j) \/ (asked = i /\ j = i)
  <2>1. CASE asked = i
    <3>1. Lacks(i) /\ Answer(i, FALSE) /\ users' = users
      BY <1>1, <1>5, <2>1
    <3>2. asked' = 0 /\ frames' \in Seq(Frames) /\ Head(frames').text = Head(frames).text
      BY <1>2, <3>1, AnswerStep
    <3>3. \A k \in DOMAIN frames' : k # 1 => k \in DOMAIN frames /\ frames'[k] = frames[k]
      BY <1>2, <3>1, AnswerStep
    <3>4. \A j : Lacks(j)' <=> Lacks(j) /\ j # i
      BY <1>2, <3>1, AnswerStep
    <3>5. \A j : Lost(j)' <=> Lost(j) \/ j = i
      BY <1>2, <3>1, AnswerStep
    <3>6. QED
      BY <2>1, <3>2, <3>3, <3>4, <3>5
  <2>2. CASE asked # i
    BY <1>1, <1>2, <2>2 DEF Lacks, Lost
  <2>3. QED
    BY <2>1, <2>2
<1>7. TypeOK'
  <2>1. tasks' \subseteq RelayMsgs
    BY <1>1, SomeTexts DEF TypeOK
  <2>2. asked' \in 0..started
    BY <1>2, <1>6
  <2>3. ASSUME NEW j \in Ids
        PROVE  backlog'[j] <= Len(inbox'[j]) /\ (phase'[j] = "serving" => backlog'[j] = 0)
    <3>1. backlog[i] = 0
      BY <1>1, <1>2 DEF TypeOK, Gone
    <3>2. QED
      BY <1>1, <1>3, <3>1, EmptySet DEF TypeOK
  <2>4. QED
    BY <1>1, <1>3, <1>6, <2>1, <2>2, <2>3 DEF TypeOK, Clients
<1>8. BornInv'
  BY <1>1, <1>3 DEF IInv, BornInv, Clients
<1>9. StackInv'
  <2>1. \A j \in Ids : Lacks(j)' => j \in users' /\ log' # <<>> /\ Head(frames').text = log'[Len(log')]
    BY <1>1, <1>6 DEF IInv, StackInv, Lacks
  <2>2. \A k \in DOMAIN frames' : k # 1 => frames'[k].todo = {}
    BY <1>6 DEF IInv, StackInv
  <2>3. QED
    BY <2>1, <2>2 DEF StackInv
<1>10. AskedInv'
  <2>1. asked \in Ids \/ asked = 0
    BY <1>1, <1>2, BoundsAreNat DEF TypeOK, Ids
  <2>2. asked' # 0 => asked' = asked /\ asked # i /\ asked \in Ids
    BY <1>6, <2>1
  <2>3. asked' # 0 => /\ Lacks(asked)' /\ ~Gone(asked)'
                      /\ \E e \in ToSet(inbox'[asked']) : e[1] = "out"
    BY <1>3, <1>4, <1>6, <2>2 DEF IInv, AskedInv
  <2>4. ASSUME NEW j \in Ids, NEW e \in ToSet(inbox'[j]), e[1] = "out"
        PROVE  j = asked' /\ e = <<"out", Head(frames').text>>
    <3>1. j # i /\ e \in ToSet(inbox[j])
      BY <1>3, EmptySet
    <3>2. j = asked /\ e = <<"out", Head(frames).text>>
      BY <2>4, <3>1 DEF IInv, AskedInv
    <3>3. asked' = asked /\ frames # <<>>
      BY <1>6, <3>1, <3>2 DEF IInv, AskedInv, Ids, Lacks
    <3>4. QED
      BY <1>6, <3>2, <3>3
  <2>5. ASSUME NEW j \in Ids, asked' # 0
        PROVE  Once(inbox'[j], <<"out", Head(frames').text>>)
    <3>1. asked # 0 /\ Head(frames').text = Head(frames).text
      BY <1>6, <2>2, <2>5 DEF IInv, AskedInv, Lacks
    <3>2. QED
      BY <1>3, <3>1, EmptySet DEF IInv, AskedInv
  <2>6. QED
    BY <2>3, <2>4, <2>5 DEF AskedInv
<1>11. LostInv'
  <2>1. \A j \in Clients : j \in Ids
    BY <1>1, BoundsAreNat DEF TypeOK, Clients, Ids
  <2>2. ASSUME NEW j \in Clients, Lost(j)'
        PROVE  Silent(j)'
    <3>1. Silent(j) \/ j = i
      BY <1>6, <2>2 DEF IInv, LostInv
    <3>2. QED
      BY <1>1, <1>4, <2>1, <3>1 DEF Silent
  <2>3. ASSUME NEW j \in Ids, <<"leaves", j, 0>> \in tasks' \cup ToSet(relaying)
        PROVE  j \in Clients /\ Gone(j)'
    <3>1. j = i \/ <<"leaves", j, 0>> \in tasks \cup ToSet(relaying)
      BY <1>1, <2>3
    <3>2. QED
      BY <1>1, <1>4, <3>1 DEF IInv, LostInv
  <2>4. QED
    BY <1>1, <2>2, <2>3 DEF LostInv, Clients
<1>12. LineInv'
  <2>1. \A j \in Ids : \A n \in 1..MaxLines :
          /\ <<"line", n>> \in ToSet(inbox'[j]) => <<"line", n>> \in ToSet(inbox[j])
          /\ Once(inbox[j], <<"line", n>>) => Once(inbox'[j], <<"line", n>>)
          /\ <<"line", j, n>> \in tasks' <=> <<"line", j, n>> \in tasks
    BY <1>1, <1>3, EmptySet
  <2>2. QED
    BY <1>1, <2>1 DEF IInv, LineInv, Clients
<1>13. LogInv' /\ AnnouncedOnce'
  BY <1>1 DEF IInv, LogInv, AnnouncedOnce, Clients
<1>14. SeenInv'
  BY <1>1, <1>6 DEF IInv, SeenInv, Clients
<1>15. QED
  BY <1>7, <1>8, <1>9, <1>10, <1>11, <1>12, <1>13, <1>14 DEF IInv

\* A task hands its message to the relay.
LEMMA SendToRelayInv ==
  ASSUME IInv, NEW m \in tasks, SendToRelay(m)
  PROVE  IInv'
<1>1. /\ TypeOK /\ m \in RelayMsgs /\ relaying \in Seq(RelayMsgs)
      /\ tasks' = tasks \ {m} /\ relaying' = Append(relaying, m)
      /\ UNCHANGED <<listening, users, frames, asked, started, phase, inbox, backlog,
                     feeding, wire, read, log, seen>>
  BY DEF IInv, TypeOK, SendToRelay, serverVars, clientVars, netVars
<1>2. /\ relaying' \in Seq(RelayMsgs)
      /\ ToSet(relaying') = ToSet(relaying) \cup {m}
      /\ \A e : Once(relaying, e) /\ (m = e => e \notin ToSet(relaying)) => Once(relaying', e)
  BY <1>1, AppendSet
<1>3. TypeOK'
  BY <1>1, <1>2 DEF TypeOK, Clients
<1>4. BornInv' /\ StackInv' /\ AskedInv'
  BY <1>1 DEF IInv, BornInv, StackInv, AskedInv, Lacks, Gone, Clients
<1>5. LostInv'
  <2>1. tasks' \cup ToSet(relaying') = tasks \cup ToSet(relaying)
    BY <1>1, <1>2
  <2>2. QED
    BY <1>1, <2>1 DEF IInv, LostInv, Lost, Silent, Gone, Clients
<1>6. LineInv'
  <2> SUFFICES ASSUME NEW j \in Ids, NEW n \in 1..MaxLines
               PROVE  LET said   == <<"line", j, n>>
                          unread == <<"line", n>> \in ToSet(inbox[j])
                      IN  /\ Once(inbox[j], <<"line", n>>) /\ Once(relaying', said)
                          /\ unread => said \notin tasks' \cup ToSet(relaying') \cup ToSet(log)
                          /\ said \in tasks' => said \notin ToSet(relaying') \cup ToSet(log)
                          /\ said \in ToSet(relaying') => said \notin ToSet(log)
                          /\ unread \/ said \in tasks' \cup ToSet(relaying') \cup ToSet(log) =>
                               j \in Clients /\ n <= read[j]
    BY <1>1 DEF LineInv, Clients
  <2> DEFINE said == <<"line", j, n>>
             unread == <<"line", n>> \in ToSet(inbox[j])
  <2>1. /\ Once(inbox[j], <<"line", n>>) /\ Once(relaying, said)
        /\ unread => said \notin tasks \cup ToSet(relaying) \cup ToSet(log)
        /\ said \in tasks => said \notin ToSet(relaying) \cup ToSet(log)
        /\ said \in ToSet(relaying) => said \notin ToSet(log)
        /\ unread \/ said \in tasks \cup ToSet(relaying) \cup ToSet(log) =>
             j \in Clients /\ n <= read[j]
    BY DEF IInv, LineInv
  <2> HIDE DEF said, unread
  <2>2. Once(relaying', said)
    BY <1>2, <2>1
  <2>3. QED
    BY <1>1, <1>2, <2>1, <2>2 DEF said, unread
<1>7. LogInv' /\ AnnouncedOnce'
  BY <1>1 DEF IInv, LogInv, AnnouncedOnce, Clients
<1>8. SeenInv'
  BY <1>1 DEF IInv, SeenInv, Lost, Lacks, Clients
<1>9. QED
  BY <1>3, <1>4, <1>5, <1>6, <1>7, <1>8 DEF IInv

-----------------------------------------------------------------------------
(* Steps of the Server                                                     *)

\* Between two texts nobody lacks one, so the Server waits for no client.
LEMMA NobodyLacks ==
  ASSUME IInv, frames # <<>> => Head(frames).todo = {}
  PROVE  /\ \A i : ~Lacks(i)
         /\ asked = 0
         /\ \A i \in Ids : \A e \in ToSet(inbox[i]) : e[1] # "out"
<1>1. \A i : ~Lacks(i)
  BY DEF Lacks
<1>2. asked = 0
  BY <1>1 DEF IInv, AskedInv
<1>3. \A i \in Ids : i # 0
  BY DEF Ids
<1>4. QED
  BY <1>1, <1>2, <1>3 DEF IInv, AskedInv

\* A new text is broadcast when nobody lacks one.
LEMMA BroadcastStep ==
  ASSUME IInv, frames # <<>> => Head(frames).todo = {},
         NEW text \in Texts, text \notin ToSet(log),
         text[1] # "entered" => <<"entered", text[2], 0>> \in ToSet(log),
         text[1] = "entered" => seen[text[2]] = <<>>,
         NEW below \in Seq(Frames), \A k \in DOMAIN below : below[k].todo = {},
         users' \subseteq Ids, Broadcast(text, users', below),
         \A i : Lost(i) /\ i \in Clients => Lost(i)',
         UNCHANGED <<asked, inbox, phase, seen>>
  PROVE  /\ frames' \in Seq(Frames) /\ log' \in Seq(Texts)
         /\ ToSet(log') = ToSet(log) \cup {text}
         /\ \A i : Lost(i)' <=> i \notin users' \/ Found(below, i)
         /\ StackInv' /\ AskedInv' /\ AnnouncedOnce' /\ SeenInv'
<1> DEFINE f == [text |-> text, todo |-> users', dead |-> {}]
           n == Len(log)
<1>1. f \in Frames /\ f.text = text /\ f.todo = users' /\ f.dead = {}
  BY DEF Frames
<1>2. frames' = <<f>> \o below /\ log' = Append(log, text)
  BY DEF Broadcast
<1> HIDE DEF f
<1>3. /\ frames' \in Seq(Frames) /\ frames' # <<>> /\ Head(frames') = f
      /\ ToSet(frames') = {f} \cup ToSet(below)
      /\ \A k \in DOMAIN frames' : k # 1 => k - 1 \in DOMAIN below /\ frames'[k] = below[k - 1]
  BY <1>1, <1>2, Push
<1>4. log \in Seq(Texts)
  BY DEF IInv, TypeOK
<1>5. log' \in Seq(Texts) /\ log' # <<>> /\ ToSet(log') = ToSet(log) \cup {text}
  BY <1>2, <1>4, AppendSet
<1>6. /\ n \in Nat /\ Len(log') = n + 1 /\ DOMAIN log = 1..n /\ DOMAIN log' = 1..(n + 1)
      /\ \A k \in 1..n : log'[k] = log[k]
      /\ log'[n + 1] = text
  BY <1>2, <1>4, AppendProperties, LenProperties
<1> HIDE DEF n
<1>7. \A i : Lost(i)' <=> i \notin users' \/ Found(below, i)
  BY <1>1, <1>3 DEF Lost, Found
<1>8. \A i : Lacks(i)' <=> i \in users'
  BY <1>1, <1>3 DEF Lacks
<1>9. StackInv'
  BY <1>1, <1>3, <1>5, <1>6, <1>8 DEF StackInv
<1>10. AskedInv'
  <2>1. asked = 0 /\ \A i \in Ids : \A e \in ToSet(inbox[i]) : e[1] # "out"
    BY NobodyLacks
  <2>2. QED
    BY <2>1 DEF AskedInv
<1>11. AnnouncedOnce'
  <2>1. \A k \in 1..n : log[k] # text
    BY <1>6 DEF ToSet
  <2>2. IsInjective(log')
    BY <1>6, <2>1 DEF IInv, AnnouncedOnce, IsInjective
  <2>3. ASSUME NEW k \in 1..(n + 1), log'[k][1] # "entered"
        PROVE  \E j \in 1..(k - 1) : log'[j] = <<"entered", log'[k][2], 0>>
    <3>1. CASE k \in 1..n
      <4>1. PICK j \in 1..(k - 1) : log[j] = <<"entered", log[k][2], 0>>
        BY <1>6, <2>3, <3>1 DEF IInv, AnnouncedOnce
      <4>2. j \in 1..n
        BY <1>6, <3>1
      <4>3. QED
        BY <1>6, <3>1, <4>1, <4>2
    <3>2. CASE k = n + 1
      <4>1. <<"entered", text[2], 0>> \in ToSet(log)
        BY <1>6, <2>3, <3>2
      <4>2. PICK j \in 1..n : log[j] = <<"entered", text[2], 0>>
        BY <1>6, <4>1 DEF ToSet
      <4>3. j \in 1..(k - 1)
        BY <1>6, <3>2
      <4>4. QED
        BY <1>6, <3>2, <4>2, <4>3
    <3>3. QED
      BY <1>6, <3>1, <3>2
  <2>4. QED
    BY <1>6, <2>2, <2>3 DEF AnnouncedOnce
<1>12. SeenInv'
  <2> SUFFICES ASSUME NEW i \in Clients', NEW p \in 1..(n + 1),
                      log'[p] = <<"entered", i, 0>>
               PROVE  /\ Len(seen[i]) <= n + 1 - p + 1
                      /\ \A k \in 1..Len(seen[i]) : seen[i][k] = log'[p + k - 1]
                      /\ Lost(i)' \/ Len(seen[i]) = n + 1 - p + (IF Lacks(i)' THEN 0 ELSE 1)
    BY <1>6 DEF SeenInv
  <2>1. Lost(i)' \/ Lacks(i)'
    BY <1>7, <1>8
  <2>2. CASE p \in 1..n
    <3>1. log[p] = <<"entered", i, 0>>
      BY <1>6, <2>2
    <3>2. i \in Clients
      <4>1. <<"entered", i, 0>> \in ToSet(log)
        BY <1>6, <2>2, <3>1 DEF ToSet
      <4>2. i \in Ids
        <5>1. log[p] \in Texts
          BY <1>4, <1>6, <2>2, ElementOfSeq DEF n
        <5>2. QED
          BY <3>1, <5>1, Text
      <4>3. QED
        BY <4>1, <4>2 DEF IInv, LogInv
    <3>3. /\ Len(seen[i]) <= n - p + 1
          /\ \A k \in 1..Len(seen[i]) : seen[i][k] = log[p + k - 1]
          /\ Lost(i) \/ Len(seen[i]) = n - p + (IF Lacks(i) THEN 0 ELSE 1)
      BY <1>6, <2>2, <3>1, <3>2 DEF IInv, SeenInv, n
    <3>4. ~Lacks(i)
      BY NobodyLacks
    <3>5. Len(seen[i]) \in Nat
      <4>1. i \in Ids /\ seen[i] \in Seq(Texts)
        BY <3>2, BoundsAreNat DEF IInv, TypeOK, Clients, Ids
      <4>2. QED
        BY <4>1, LenProperties
    <3>6. ASSUME NEW k \in 1..Len(seen[i]) PROVE seen[i][k] = log'[p + k - 1]
      <4>1. p + k - 1 \in 1..n
        BY <1>6, <2>2, <3>3, <3>5
      <4>2. QED
        BY <1>6, <3>3, <4>1
    <3>7. Lost(i)' \/ Len(seen[i]) = n + 1 - p + 0
      BY <1>6, <2>2, <3>2, <3>3, <3>4, <3>5
    <3>8. QED
      BY <1>6, <2>1, <2>2, <3>3, <3>5, <3>6, <3>7
  <2>3. CASE p = n + 1
    <3>1. text = <<"entered", i, 0>>
      BY <1>6, <2>3
    <3>2. seen[i] = <<>> /\ Len(seen[i]) = 0
      BY <3>1, EmptySet
    <3>3. QED
      BY <1>6, <2>1, <2>3, <3>2
  <2>4. QED
    BY <1>6, <2>2, <2>3
<1>13. QED
  BY <1>3, <1>5, <1>7, <1>9, <1>10, <1>11, <1>12

\* Messages leave the relay's queue, and what is said by the Server itself is no line.
LEMMA LineStays ==
  ASSUME LineInv, UNCHANGED <<inbox, read, tasks>>, Clients \subseteq Clients',
         ToSet(relaying') \subseteq ToSet(relaying),
         \A e : Once(relaying, e) => Once(relaying', e),
         NEW text, \A i, n : text # <<"line", i, n>>,
         ToSet(log') \subseteq ToSet(log) \cup {text}
  PROVE  LineInv'
<1>1. \A i \in Ids : \A n \in 1..MaxLines :
        /\ <<"line", i, n>> \in ToSet(relaying') => <<"line", i, n>> \in ToSet(relaying)
        /\ <<"line", i, n>> \in ToSet(log') => <<"line", i, n>> \in ToSet(log)
        /\ Once(relaying, <<"line", i, n>>) => Once(relaying', <<"line", i, n>>)
  OBVIOUS
<1>2. QED
  BY <1>1 DEF LineInv

\* A broadcast comes to its end, or a departure was announced before.
LEMMA SettleInv ==
  ASSUME IInv, frames # <<>> => Head(frames).todo = {},
         frames' \in Seq(Frames), \A k \in DOMAIN frames' : frames'[k].todo = {},
         \A i \in Clients : Lost(i)' <=> Lost(i),
         relaying' \in Seq(RelayMsgs), ToSet(relaying') \subseteq ToSet(relaying),
         \A e : Once(relaying, e) => Once(relaying', e),
         UNCHANGED <<listening, users, asked, started, phase, inbox, backlog, feeding, wire,
                     read, tasks, log, seen>>
  PROVE  IInv'
<1>1. TypeOK'
  BY DEF IInv, TypeOK, Clients
<1>2. BornInv' /\ LogInv' /\ AnnouncedOnce'
  BY DEF IInv, BornInv, LogInv, AnnouncedOnce, Clients
<1>3. \A i : ~Lacks(i) /\ ~Lacks(i)'
  <2>1. frames' # <<>> => Head(frames') = frames'[1] /\ 1 \in DOMAIN frames'
    BY FoundWhere
  <2>2. \A i : ~Lacks(i)'
    BY <2>1 DEF Lacks
  <2>3. QED
    BY <2>2, NobodyLacks
<1>4. StackInv'
  BY <1>3 DEF StackInv
<1>5. AskedInv'
  <2>1. asked = 0 /\ \A i \in Ids : \A e \in ToSet(inbox[i]) : e[1] # "out"
    BY NobodyLacks
  <2>2. QED
    BY <2>1 DEF AskedInv
<1>6. LostInv'
  BY DEF IInv, LostInv, Silent, Gone, Clients
<1>7. LineInv'
  <2>1. LineInv
    BY DEF IInv
  <2>2. Clients \subseteq Clients' /\ ToSet(log') \subseteq ToSet(log) \cup {0}
    BY DEF Clients
  <2>3. QED
    BY DEF IInv, LineInv, Clients
<1>8. SeenInv'
  BY <1>3 DEF IInv, SeenInv, Clients
<1>9. QED
  BY <1>1, <1>2, <1>4, <1>5, <1>6, <1>7, <1>8 DEF IInv

\* Who is taken off the list has left.
LEMMA RemoveInv ==
  ASSUME IInv, frames # <<>> => Head(frames).todo = {},
         NEW i \in Clients, Silent(i), NEW below \in Seq(Frames), RemoveClient(i, below),
         \A k \in DOMAIN below : below[k].todo = {},
         \A j : Found(below, j) => Found(frames, j),
         \A j : Found(frames, j) => Found(below, j) \/ j = i,
         relaying' \in Seq(RelayMsgs), ToSet(relaying') \subseteq ToSet(relaying),
         \A e : Once(relaying, e) => Once(relaying', e),
         UNCHANGED <<listening, asked, started, phase, inbox, backlog, feeding, wire,
                     read, tasks, seen>>
  PROVE  IInv'
<1> DEFINE text == <<"left", i, 0>>
<1>1. \A j : Lost(j) <=> j \notin users \/ Found(frames, j)
  BY DEF Lost, Found
<1>2. TypeOK /\ i \in Ids /\ users \subseteq Clients
  <2>1. TypeOK
    BY DEF IInv
  <2>2. /\ listening \in Nat /\ started \in Nat /\ MaxClients \in Nat
        /\ started + listening <= MaxClients /\ users \subseteq Clients
    BY <2>1, BoundsAreNat DEF TypeOK
  <2>3. i \in 1..started
    BY DEF Clients
  <2>4. i \in Ids
    BY <2>2, <2>3 DEF Ids
  <2>5. QED
    BY <2>1, <2>2, <2>4
<1>3. CASE i \notin users
  <2>1. users' = users /\ frames' = below /\ log' = log
    BY <1>3 DEF RemoveClient
  <2>2. \A j : Lost(j)' <=> j \notin users \/ Found(below, j)
    BY <2>1 DEF Lost, Found
  <2>3. \A j \in Clients : Lost(j)' <=> Lost(j)
    BY <1>1, <1>3, <2>2
  <2>4. frames' \in Seq(Frames) /\ \A k \in DOMAIN frames' : frames'[k].todo = {}
    BY <2>1
  <2>5. QED
    BY <2>1, <2>3, <2>4, SettleInv
<1>4. CASE i \in users
  <2>1. users' = users \ {i} /\ Broadcast(text, users', below)
    BY <1>4 DEF RemoveClient
  <2>2. /\ text \in Texts /\ text[1] = "left" /\ text[2] = i
        /\ text \notin ToSet(log) /\ <<"entered", text[2], 0>> \in ToSet(log)
    BY <1>2, <1>4, SomeTexts DEF IInv, LogInv
  <2>3. users' \subseteq Ids
    BY <1>2, <2>1, BoundsAreNat DEF Clients, Ids, TypeOK
  <2>4. \A j : Lost(j) /\ j \in Clients => Lost(j)'
    <3>1. \A j : Found(below, j) => Found(frames', j)
      <4>1. [text |-> text, todo |-> users', dead |-> {}] \in Frames
        BY <2>2, <2>3 DEF Frames
      <4>2. ToSet(frames') = {[text |-> text, todo |-> users', dead |-> {}]} \cup ToSet(below)
        BY <2>1, <4>1, Push DEF Broadcast
      <4>3. QED
        BY <4>2 DEF Found
    <3>2. \A j : Lost(j)' <=> j \notin users' \/ Found(frames', j)
      BY DEF Lost, Found
    <3>3. QED
      BY <1>1, <2>1, <3>1, <3>2
  <2> HIDE DEF text
  <2>5. /\ frames' \in Seq(Frames) /\ log' \in Seq(Texts)
        /\ ToSet(log') = ToSet(log) \cup {text}
        /\ \A j : Lost(j)' <=> j \notin users' \/ Found(below, j)
    BY <2>1, <2>2, <2>3, <2>4, BroadcastStep
  <2>6. StackInv' /\ AskedInv' /\ AnnouncedOnce' /\ SeenInv'
    BY <2>1, <2>2, <2>3, <2>4, BroadcastStep
  <2>7. TypeOK'
    BY <1>2, <2>1, <2>5 DEF TypeOK, Clients
  <2>8. BornInv'
    BY DEF IInv, BornInv, Clients
  <2>9. LostInv'
    <3>1. \A j \in Clients : Lost(j)' => Silent(j)
      BY <1>1, <2>1, <2>5 DEF IInv, LostInv
    <3>2. QED
      BY <3>1 DEF IInv, LostInv, Silent, Gone, Clients
  <2>10. LineInv'
    <3>1. LineInv /\ Clients \subseteq Clients'
      BY DEF IInv, Clients
    <3>2. \A j, n : text # <<"line", j, n>>
      BY DEF text
    <3>3. ToSet(log') \subseteq ToSet(log) \cup {text}
      BY <2>5
    <3>4. QED
      BY <3>1, <3>2, <3>3, LineStays
  <2>11. LogInv'
    <3> SUFFICES ASSUME NEW j \in Ids
                 PROVE  /\ <<"entered", j, 0>> \in ToSet(log') <=> j \in Clients
                        /\ <<"left", j, 0>> \in ToSet(log') => j \in Clients \ users'
      BY DEF LogInv, Clients
    <3>1. /\ <<"entered", j, 0>> \in ToSet(log) <=> j \in Clients
          /\ <<"left", j, 0>> \in ToSet(log) => j \in Clients \ users
      BY DEF IInv, LogInv
    <3>2. text # <<"entered", j, 0>> /\ (text = <<"left", j, 0>> => j = i)
      BY DEF text
    <3>3. QED
      BY <2>1, <2>5, <3>1, <3>2
  <2>12. QED
    BY <2>6, <2>7, <2>8, <2>9, <2>10, <2>11 DEF IInv
<1>5. QED
  BY <1>3, <1>4

\* Who is found dead is taken off after all others were sent to.
LEMMA SweepInv ==
  ASSUME IInv, NEW i \in Ids, Sweep(i)
  PROVE  IInv'
<1> DEFINE f == [text |-> Head(frames).text, todo |-> Head(frames).todo,
                 dead |-> Head(frames).dead \ {i}]
           below == [frames EXCEPT ![1] = f]
<1>1. /\ frames # <<>> /\ Head(frames).todo = {} /\ i \in Head(frames).dead
      /\ RemoveClient(i, [frames EXCEPT ![1].dead = @ \ {i}])
      /\ UNCHANGED <<listening, relaying, asked, started, phase, inbox, backlog, feeding, wire,
                     read, tasks, seen>>
  BY DEF Sweep, clientVars, netVars
<1>2. /\ frames \in Seq(Frames) /\ relaying \in Seq(RelayMsgs)
      /\ users \subseteq Clients
  BY DEF IInv, TypeOK
<1>3. /\ Head(frames) = frames[1] /\ Head(frames) \in Frames /\ 1 \in DOMAIN frames
      /\ \A j : Found(frames, j) <=> j \in Head(frames).dead \/ FoundBelow(frames, j)
  BY <1>1, <1>2, FoundWhere
<1>4. [frames EXCEPT ![1].dead = @ \ {i}] = below
  <2>1. [frames EXCEPT ![1].dead = @ \ {i}]
          = [frames EXCEPT ![1] = [frames[1] EXCEPT !.dead = frames[1].dead \ {i}]]
    BY <1>3
  <2>2. [frames[1] EXCEPT !.dead = frames[1].dead \ {i}] = f
    BY <1>3, FrameChange DEF Frames
  <2>3. QED
    BY <2>1, <2>2
<1>5. f \in Frames /\ f.todo = {} /\ f.dead = Head(frames).dead \ {i}
  BY <1>1, <1>3 DEF Frames
<1> HIDE DEF f
<1>6. /\ below \in Seq(Frames) /\ below # <<>> /\ DOMAIN below = DOMAIN frames
      /\ Head(below) = f
      /\ \A k \in DOMAIN frames \ {1} : below[k] = frames[k]
      /\ \A j : Found(below, j) <=> j \in f.dead \/ FoundBelow(frames, j)
  BY <1>1, <1>2, <1>5, ChangeTop
<1>7. RemoveClient(i, below)
  BY <1>1, <1>4
<1> HIDE DEF below
<1>8. Head(below) = below[1]
  BY <1>6, FoundWhere
<1>9. \A k \in DOMAIN below : below[k].todo = {}
  BY <1>5, <1>6, <1>8 DEF IInv, StackInv
<1>10. /\ \A j : Found(below, j) => Found(frames, j)
       /\ \A j : Found(frames, j) => Found(below, j) \/ j = i
  BY <1>3, <1>5, <1>6
<1>11. CASE i \in Clients
  <2>1. Lost(i)
    BY <1>1, <1>3 DEF Lost, Found
  <2>2. Silent(i)
    BY <1>11, <2>1 DEF IInv, LostInv
  <2>3. relaying' \in Seq(RelayMsgs) /\ relaying' = relaying
    BY <1>1, <1>2
  <2>4. QED
    BY <1>1, <1>6, <1>7, <1>9, <1>10, <1>11, <2>2, <2>3, RemoveInv
<1>12. CASE i \notin Clients
  <2>1. users' = users /\ frames' = below /\ log' = log
    BY <1>2, <1>7, <1>12 DEF RemoveClient
  <2>2. \A j \in Clients : Lost(j)' <=> Lost(j)
    <3>1. /\ \A j : Lost(j)' <=> j \notin users \/ Found(below, j)
          /\ \A j : Lost(j) <=> j \notin users \/ Found(frames, j)
      BY <2>1 DEF Lost, Found
    <3>2. QED
      BY <1>10, <1>12, <3>1
  <2>3. relaying' \in Seq(RelayMsgs) /\ relaying' = relaying
    BY <1>1, <1>2
  <2>4. frames' \in Seq(Frames) /\ \A k \in DOMAIN frames' : frames'[k].todo = {}
    BY <1>6, <1>9, <2>1
  <2>5. QED
    BY <1>1, <2>1, <2>2, <2>3, <2>4, SettleInv
<1>13. QED
  BY <1>11, <1>12

\* The caller of a broadcast goes on.
LEMMA ReturnInv ==
  ASSUME IInv, Return
  PROVE  IInv'
<1>1. /\ frames # <<>> /\ Head(frames).todo = {} /\ Head(frames).dead = {}
      /\ frames' = Tail(frames)
      /\ UNCHANGED <<listening, relaying, users, asked, started, phase, inbox, backlog,
                     feeding, wire, read, tasks, log, seen>>
  BY DEF Return, clientVars, netVars
<1>2. frames \in Seq(Frames) /\ relaying \in Seq(RelayMsgs)
  BY DEF IInv, TypeOK
<1>3. frames' \in Seq(Frames) /\ ToSet(frames) = ToSet(frames') \cup {Head(frames)}
  BY <1>1, <1>2, TailSet
<1>4. ASSUME NEW k \in DOMAIN frames' PROVE frames'[k].todo = {}
  <2>1. /\ DOMAIN frames = 1..Len(frames) /\ DOMAIN frames' = 1..(Len(frames) - 1)
        /\ Len(frames) \in Nat \ {0}
        /\ \A j \in 1..(Len(frames) - 1) : frames'[j] = frames[j + 1]
    BY <1>1, <1>2, <1>3, HeadTailProperties, LenProperties, EmptySeq
  <2>2. k + 1 \in DOMAIN frames /\ k + 1 # 1 /\ frames'[k] = frames[k + 1]
    BY <2>1
  <2>3. QED
    BY <2>2 DEF IInv, StackInv
<1>5. \A j \in Clients : Lost(j)' <=> Lost(j)
  BY <1>1, <1>3 DEF Lost
<1>6. QED
  BY <1>1, <1>2, <1>3, <1>4, <1>5, SettleInv

\* A text is put into a client's mailbox, or the client has ended.
LEMMA SendOutInv ==
  ASSUME IInv, NEW i \in Ids, SendOut(i)
  PROVE  IInv'
<1> DEFINE text == Head(frames).text
           m == <<"out", text>>
<1>1. /\ asked = 0 /\ Lacks(i)
      /\ IF Gone(i)
         THEN Answer(i, FALSE) /\ UNCHANGED inbox
         ELSE /\ inbox' = [inbox EXCEPT ![i] = Append(@, m)]
              /\ asked' = i /\ UNCHANGED frames
      /\ UNCHANGED <<listening, relaying, users, started, phase, backlog, feeding, wire, read,
                     tasks, log, seen>>
  BY DEF SendOut, Lacks, netVars
<1>2. /\ TypeOK /\ frames \in Seq(Frames) /\ inbox \in [Ids -> Seq(ClientMsgs)]
      /\ backlog \in [Ids -> Nat]
  BY DEF IInv, TypeOK
<1>3. /\ \A j \in Clients : j \in Ids
      /\ i \in Clients /\ i \in 1..started /\ i # 0 /\ i \in users
  <2>1. i \in users
    BY <1>1 DEF IInv, StackInv
  <2>2. QED
    BY <1>2, <2>1, BoundsAreNat DEF TypeOK, Clients, Ids
<1>4. \A j \in Ids : \A e \in ToSet(inbox[j]) : e[1] # "out"
  BY <1>1 DEF IInv, AskedInv, Ids
<1>5. LogInv' /\ AnnouncedOnce'
  BY <1>1 DEF IInv, LogInv, AnnouncedOnce, Clients
<1>6. CASE Gone(i)
  <2>1. Answer(i, FALSE) /\ UNCHANGED <<inbox, users>>
    BY <1>1, <1>6
  <2>2. asked' = 0 /\ frames' \in Seq(Frames) /\ Head(frames').text = text
    BY <1>1, <1>2, <2>1, AnswerStep
  <2>3. \A k \in DOMAIN frames' : k # 1 => k \in DOMAIN frames /\ frames'[k] = frames[k]
    BY <1>1, <1>2, <2>1, AnswerStep
  <2>4. \A j : Lacks(j)' <=> Lacks(j) /\ j # i
    BY <1>1, <1>2, <2>1, AnswerStep
  <2>5. \A j : Lost(j)' <=> Lost(j) \/ j = i
    BY <1>1, <1>2, <2>1, AnswerStep
  <2>6. TypeOK'
    BY <1>1, <1>2, <2>1, <2>2 DEF TypeOK, Clients
  <2>7. BornInv' /\ LineInv'
    BY <1>1, <2>1 DEF IInv, BornInv, LineInv, Clients
  <2>8. StackInv'
    <3>1. \A j \in Ids : Lacks(j)' => j \in users' /\ log' # <<>> /\ Head(frames').text = log'[Len(log')]
      BY <1>1, <2>2, <2>4 DEF IInv, StackInv
    <3>2. \A k \in DOMAIN frames' : k # 1 => frames'[k].todo = {}
      BY <2>3 DEF IInv, StackInv
    <3>3. QED
      BY <3>1, <3>2 DEF StackInv
  <2>9. AskedInv'
    BY <1>4, <2>1, <2>2 DEF AskedInv
  <2>10. LostInv'
    BY <1>1, <1>6, <2>5 DEF IInv, LostInv, Silent, Gone, Clients
  <2>11. SeenInv'
    BY <1>1, <2>4, <2>5 DEF IInv, SeenInv, Clients
  <2>12. QED
    BY <1>5, <2>6, <2>7, <2>8, <2>9, <2>10, <2>11 DEF IInv
<1>7. CASE ~Gone(i)
  <2>1. inbox' = [inbox EXCEPT ![i] = Append(@, m)] /\ asked' = i /\ frames' = frames
    BY <1>1, <1>7
  <2>2. text \in Texts /\ m \in ClientMsgs /\ m[1] = "out"
    <3>1. Head(frames) \in Frames
      BY <1>1, <1>2, FoundWhere DEF Lacks
    <3>2. text \in Texts
      BY <3>1 DEF Frames
    <3>3. QED
      BY <3>2 DEF ClientMsgs
  <2> HIDE DEF m
  <2>3. /\ inbox' \in [Ids -> Seq(ClientMsgs)]
        /\ \A j \in Ids : j # i => inbox'[j] = inbox[j]
        /\ Len(inbox'[i]) = Len(inbox[i]) + 1 /\ Len(inbox[i]) \in Nat
        /\ ToSet(inbox'[i]) = ToSet(inbox[i]) \cup {m}
    BY <1>2, <2>1, <2>2, MailAppend
  <2>4. \A e : Once(inbox[i], e) /\ (m = e => e \notin ToSet(inbox[i])) => Once(inbox'[i], e)
    BY <1>2, <2>1, <2>2, MailAppend
  <2>5. TypeOK'
    <3>1. asked' \in 0..started /\ started \in Nat
      BY <1>2, <1>3, <2>1 DEF TypeOK
    <3>2. ASSUME NEW j \in Ids PROVE backlog[j] <= Len(inbox'[j])
      <4>1. backlog[j] <= Len(inbox[j]) /\ backlog[j] \in Nat
        BY <1>2 DEF TypeOK
      <4>2. QED
        BY <2>3, <4>1
    <3>3. QED
      BY <1>1, <1>2, <2>1, <2>3, <3>1, <3>2 DEF TypeOK, Clients
  <2>6. BornInv'
    BY <1>1, <1>3, <2>3 DEF IInv, BornInv, Clients
  <2>7. StackInv'
    BY <1>1, <2>1 DEF IInv, StackInv, Lacks
  <2>8. AskedInv'
    <3>1. asked' # 0 /\ asked' = i /\ Lacks(i)' /\ ~Gone(i)'
      BY <1>1, <1>3, <1>7, <2>1 DEF Lacks, Gone
    <3>2. \E e \in ToSet(inbox'[i]) : e[1] = "out"
      BY <2>2, <2>3
    <3>3. ASSUME NEW j \in Ids, NEW e \in ToSet(inbox'[j]), e[1] = "out"
          PROVE  j = i /\ e = m
      BY <1>4, <2>3, <3>3
    <3>4. ASSUME NEW j \in Ids PROVE Once(inbox'[j], m)
      <4>1. m \notin ToSet(inbox[j])
        BY <1>4, <2>2
      <4>2. Once(inbox[j], m)
        BY <4>1 DEF Once, ToSet
      <4>3. QED
        BY <2>3, <2>4, <4>1, <4>2
    <3>5. Head(frames').text = text
      BY <2>1
    <3>6. QED
      BY <3>1, <3>2, <3>3, <3>4, <3>5 DEF AskedInv, m
  <2>9. LostInv'
    BY <1>1, <2>1 DEF IInv, LostInv, Lost, Silent, Gone, Clients
  <2>10. LineInv'
    <3>1. \A n : <<"line", n>> # m
      BY DEF m
    <3>2. \A j \in Ids, n \in 1..MaxLines :
            /\ <<"line", n>> \in ToSet(inbox'[j]) <=> <<"line", n>> \in ToSet(inbox[j])
            /\ Once(inbox[j], <<"line", n>>) => Once(inbox'[j], <<"line", n>>)
      BY <2>3, <2>4, <3>1
    <3>3. QED
      BY <1>1, <3>2 DEF IInv, LineInv, Clients
  <2>11. SeenInv'
    BY <1>1, <2>1 DEF IInv, SeenInv, Lost, Lacks, Clients
  <2>12. QED
    BY <1>5, <2>5, <2>6, <2>7, <2>8, <2>9, <2>10, <2>11 DEF IInv
<1>8. QED
  BY <1>6, <1>7

\* Who has just been started is announced for the first time.
LEMMA ListenInv ==
  ASSUME IInv, Listen
  PROVE  IInv'
<1> DEFINE i == started + 1
           text == <<"entered", i, 0>>
<1>1. /\ frames = <<>> /\ listening > 0 /\ listening' = listening - 1
      /\ started' = i /\ users' = users \cup {i} /\ feeding' = feeding \cup {i}
      /\ Broadcast(text, users', <<>>)
      /\ UNCHANGED <<relaying, asked, phase, inbox, backlog, wire, read, tasks, seen>>
  BY DEF Listen, clientVars
<1>2. TypeOK
  BY DEF IInv
<1>3. /\ listening \in Nat /\ started \in Nat /\ MaxClients \in Nat
      /\ started + listening <= MaxClients
      /\ users \subseteq Clients /\ feeding \subseteq Clients /\ asked \in 0..started
  BY <1>2, BoundsAreNat DEF TypeOK
<1>4. i \in Ids /\ i \notin Clients /\ Clients' = Clients \cup {i} /\ Clients' \subseteq Ids
  BY <1>1, <1>3 DEF Ids, Clients
<1>5. seen[i] = <<>> /\ phase[i] = "serving"
  BY <1>4 DEF IInv, BornInv
<1>6. users' \subseteq Clients' /\ feeding' \subseteq Clients' /\ users' \subseteq Ids
  BY <1>1, <1>3, <1>4
<1>7. listening' \in 0..MaxClients /\ started' + listening' <= MaxClients /\ started' \in Nat
      /\ asked' \in 0..started'
  BY <1>1, <1>3
<1> HIDE DEF i
<1>8. /\ text \in Texts /\ text[1] = "entered" /\ text[2] = i /\ text \notin ToSet(log)
  BY <1>4, SomeTexts DEF IInv, LogInv
<1>9. \A j : Lost(j) <=> j \notin users
  BY <1>1, EmptySet DEF Lost
<1>10. \A j : Lost(j) /\ j \in Clients => Lost(j)'
  <2>1. \A j : j \notin users' => Lost(j)'
    BY DEF Lost
  <2>2. QED
    BY <1>1, <1>4, <1>9, <2>1
<1> HIDE DEF text
<1>11. <<>> \in Seq(Frames) /\ (\A k \in DOMAIN <<>> : <<>>[k].todo = {})
       /\ ToSet(<<>>) = {}
  BY EmptySet
<1>12. /\ frames' \in Seq(Frames) /\ log' \in Seq(Texts)
       /\ ToSet(log') = ToSet(log) \cup {text}
       /\ \A j : Lost(j)' <=> j \notin users' \/ Found(<<>>, j)
  BY <1>1, <1>5, <1>6, <1>8, <1>10, <1>11, BroadcastStep
<1>13. StackInv' /\ AskedInv' /\ AnnouncedOnce' /\ SeenInv'
  BY <1>1, <1>5, <1>6, <1>8, <1>10, <1>11, BroadcastStep
<1>14. TypeOK'
  BY <1>1, <1>2, <1>6, <1>7, <1>12 DEF TypeOK
<1>15. BornInv'
  BY <1>1, <1>4 DEF IInv, BornInv
<1>16. LostInv'
  <2>1. \A j : Lost(j)' <=> j \notin users'
    BY <1>11, <1>12 DEF Found
  <2>2. \A j \in Clients' : Lost(j)' => Silent(j)
    BY <1>1, <1>4, <1>9, <2>1 DEF IInv, LostInv
  <2>3. \A j : Silent(j)' <=> Silent(j)
    BY <1>1 DEF Silent, Gone
  <2>4. \A j \in Ids : <<"leaves", j, 0>> \in tasks' \cup ToSet(relaying')
                         => j \in Clients' /\ Gone(j)'
    BY <1>1, <1>4 DEF IInv, LostInv, Gone
  <2>5. QED
    BY <2>2, <2>3, <2>4 DEF LostInv
<1>17. LineInv'
  <2>1. LineInv /\ Clients \subseteq Clients'
    BY <1>4 DEF IInv
  <2>2. \A j, n : text # <<"line", j, n>>
    BY DEF text
  <2>3. ToSet(log') \subseteq ToSet(log) \cup {text} /\ relaying' = relaying
    BY <1>1, <1>12
  <2>4. QED
    BY <1>1, <2>1, <2>2, <2>3, LineStays
<1>18. LogInv'
  <2> SUFFICES ASSUME NEW j \in Ids
               PROVE  /\ <<"entered", j, 0>> \in ToSet(log') <=> j \in Clients'
                      /\ <<"left", j, 0>> \in ToSet(log') => j \in Clients' \ users'
    BY DEF LogInv
  <2>1. /\ <<"entered", j, 0>> \in ToSet(log) <=> j \in Clients
        /\ <<"left", j, 0>> \in ToSet(log) => j \in Clients \ users
    BY DEF IInv, LogInv
  <2>2. text # <<"left", j, 0>> /\ (text = <<"entered", j, 0>> <=> j = i)
    BY DEF text
  <2>3. QED
    BY <1>1, <1>4, <1>12, <2>1, <2>2
<1>19. QED
  BY <1>13, <1>14, <1>15, <1>16, <1>17, <1>18 DEF IInv

\* The relay's queue holds what nobody was sent yet, and the end of who has ended.
LEMMA RelayInv ==
  ASSUME IInv, Relay
  PROVE  IInv'
<1> DEFINE m == Head(relaying)
<1>1. /\ frames = <<>> /\ relaying # <<>> /\ relaying' = Tail(relaying)
      /\ IF m[1] = "leaves"
         THEN RemoveClient(m[2], <<>>)
         ELSE Broadcast(m, users, <<>>) /\ UNCHANGED users
      /\ UNCHANGED <<listening, asked, started, phase, inbox, backlog, feeding, wire, read,
                     tasks, seen>>
  BY DEF Relay, clientVars, netVars
<1>2. TypeOK /\ relaying \in Seq(RelayMsgs)
  BY DEF IInv, TypeOK
<1>3. /\ m \in RelayMsgs /\ relaying' \in Seq(RelayMsgs)
      /\ ToSet(relaying) = ToSet(relaying') \cup {m}
      /\ \A e : Once(relaying, e) => Once(relaying', e) /\ (m = e => e \notin ToSet(relaying'))
  BY <1>1, <1>2, TailSet
<1> HIDE DEF m
<1>4. <<>> \in Seq(Frames) /\ (\A k \in DOMAIN <<>> : <<>>[k].todo = {})
      /\ ToSet(<<>>) = {}
  BY EmptySet
<1>5. \A j : ~Found(frames, j) /\ ~Found(<<>>, j)
  BY <1>1, <1>4 DEF Found
<1>6. CASE m[1] = "leaves"
  <2>1. m[2] \in Clients /\ Gone(m[2])
    <3>1. m = <<"leaves", m[2], 0>> /\ m[2] \in Ids
      BY <1>3, <1>6, RelayMsg
    <3>2. QED
      BY <1>3, <3>1 DEF IInv, LostInv
  <2>2. Silent(m[2]) /\ RemoveClient(m[2], <<>>)
    BY <1>1, <1>6, <2>1 DEF Silent
  <2>3. QED
    BY <1>1, <1>3, <1>4, <1>5, <2>1, <2>2, RemoveInv
<1>7. CASE m[1] # "leaves"
  <2>1. /\ m[1] = "line" /\ m[2] \in Ids /\ m[3] \in 1..MaxLines
        /\ m = <<"line", m[2], m[3]>> /\ m \in Texts
    <3>1. m[1] = "line" /\ m[2] \in Ids /\ m[3] \in 1..MaxLines /\ m = <<"line", m[2], m[3]>>
      BY <1>3, <1>7, RelayMsg
    <3>2. QED
      BY <3>1, SomeTexts
  <2>2. users' = users /\ Broadcast(m, users', <<>>)
    BY <1>1, <1>7
  <2>3. m \in ToSet(relaying) /\ m \notin ToSet(log) /\ m[2] \in Clients
    BY <1>3, <2>1 DEF IInv, LineInv
  <2>4. <<"entered", m[2], 0>> \in ToSet(log)
    BY <2>1, <2>3 DEF IInv, LogInv
  <2>5. users' \subseteq Ids
    <3>1. /\ listening \in Nat /\ started \in Nat /\ MaxClients \in Nat
          /\ started + listening <= MaxClients /\ users \subseteq 1..started
      BY <1>2, BoundsAreNat DEF TypeOK, Clients
    <3>2. QED
      BY <2>2, <3>1 DEF Ids
  <2>6. \A j : Lost(j) => Lost(j)'
    <3>1. \A j : Lost(j) => j \notin users
      BY <1>1, <1>4 DEF Lost
    <3>2. \A j : j \notin users' => Lost(j)'
      BY DEF Lost
    <3>3. QED
      BY <2>2, <3>1, <3>2
  <2>7. m[1] # "entered"
    BY <2>1
  <2>8. /\ frames' \in Seq(Frames) /\ log' \in Seq(Texts)
        /\ ToSet(log') = ToSet(log) \cup {m}
        /\ \A j : Lost(j)' <=> j \notin users' \/ Found(<<>>, j)
    BY <1>1, <1>4, <2>1, <2>2, <2>3, <2>4, <2>5, <2>6, <2>7, BroadcastStep
  <2>9. StackInv' /\ AskedInv' /\ AnnouncedOnce' /\ SeenInv'
    BY <1>1, <1>4, <2>1, <2>2, <2>3, <2>4, <2>5, <2>6, <2>7, BroadcastStep
  <2>10. TypeOK'
    BY <1>1, <1>2, <1>3, <2>2, <2>8 DEF TypeOK, Clients
  <2>11. BornInv'
    BY <1>1 DEF IInv, BornInv, Clients
  <2>12. LostInv'
    <3>1. \A j : Lost(j)' => Lost(j)
      BY <1>5, <2>2, <2>8 DEF Lost
    <3>2. tasks' \cup ToSet(relaying') \subseteq tasks \cup ToSet(relaying)
      BY <1>1, <1>3
    <3>3. QED
      BY <1>1, <3>1, <3>2 DEF IInv, LostInv, Silent, Gone, Clients
  <2>13. LineInv'
    <3> SUFFICES ASSUME NEW j \in Ids, NEW n \in 1..MaxLines
                 PROVE  LET said   == <<"line", j, n>>
                            unread == <<"line", n>> \in ToSet(inbox[j])
                        IN  /\ Once(inbox[j], <<"line", n>>) /\ Once(relaying', said)
                            /\ unread => said \notin tasks \cup ToSet(relaying') \cup ToSet(log')
                            /\ said \in tasks => said \notin ToSet(relaying') \cup ToSet(log')
                            /\ said \in ToSet(relaying') => said \notin ToSet(log')
                            /\ unread \/ said \in tasks \cup ToSet(relaying') \cup ToSet(log') =>
                                 j \in Clients /\ n <= read[j]
      BY <1>1 DEF LineInv, Clients
    <3> DEFINE said == <<"line", j, n>>
               unread == <<"line", n>> \in ToSet(inbox[j])
    <3>1. /\ Once(inbox[j], <<"line", n>>) /\ Once(relaying, said)
          /\ unread => said \notin tasks \cup ToSet(relaying) \cup ToSet(log)
          /\ said \in tasks => said \notin ToSet(relaying) \cup ToSet(log)
          /\ said \in ToSet(relaying) => said \notin ToSet(log)
          /\ unread \/ said \in tasks \cup ToSet(relaying) \cup ToSet(log) =>
               j \in Clients /\ n <= read[j]
      BY DEF IInv, LineInv
    <3> HIDE DEF said, unread
    <3>2. Once(relaying', said) /\ (m = said => said \notin ToSet(relaying'))
      BY <1>3, <3>1
    <3>3. QED
      BY <1>3, <2>8, <3>1, <3>2 DEF said, unread
  <2>14. LogInv'
    <3>1. \A j : m # <<"entered", j, 0>> /\ m # <<"left", j, 0>>
      BY <2>1
    <3>2. QED
      BY <1>1, <2>2, <2>8, <3>1 DEF IInv, LogInv, Clients
  <2>15. QED
    BY <2>9, <2>10, <2>11, <2>12, <2>13, <2>14 DEF IInv
<1>8. QED
  BY <1>6, <1>7

-----------------------------------------------------------------------------
(* The chat room                                                           *)

LEMMA StepInv == IInv /\ [Next]_vars => IInv'
<1> SUFFICES ASSUME IInv, [Next]_vars
             PROVE  IInv'
  OBVIOUS
<1>1. CASE Connect \/ UNCHANGED vars
  <2>1. CASE Ids # {}
    BY <1>1, <2>1, NetworkInv
  <2>2. CASE Ids = {}
    <3>1. CASE Connect
      <4>1. MaxClients \in Nat /\ listening \in 0..MaxClients /\ started \in Nat
        BY BoundsAreNat DEF IInv, TypeOK
      <4>2. 1 \in Ids
        BY <3>1, <4>1 DEF Connect, Ids
      <4>3. QED
        BY <2>2, <4>2
    <3>2. CASE UNCHANGED vars
      <4>1. TypeOK'
        BY <3>2 DEF IInv, TypeOK, vars, serverVars, clientVars, netVars, Clients
      <4>2. QED
        BY <3>2, <4>1, QuietInv DEF vars, serverVars, clientVars, netVars
    <3>3. QED
      BY <1>1, <3>1, <3>2
  <2>3. QED
    BY <2>1, <2>2
<1>2. CASE ServerStep
  BY <1>2, ListenInv, RelayInv, ReturnInv, SendOutInv, SweepInv DEF ServerStep
<1>3. ASSUME NEW i \in Ids, ReadLine(i) \/ ReadError(i) PROVE IInv'
  BY <1>3, FeedInv
<1>4. ASSUME NEW i \in Ids, EndOfStream(i) \/ Break(i) PROVE IInv'
  BY <1>4, NetworkInv
<1>5. ASSUME NEW i \in Ids, Handler(i) PROVE IInv'
  BY <1>5, OnReadInv, OnSendOutInv DEF Handler
<1>6. ASSUME NEW i \in Ids, End(i) PROVE IInv'
  BY <1>6, EndInv
<1>7. ASSUME NEW m \in tasks, SendToRelay(m) PROVE IInv'
  BY <1>7, SendToRelayInv
<1>8. QED
  BY <1>1, <1>2, <1>3, <1>4, <1>5, <1>6, <1>7 DEF Next

\* However clients come, speak, fail and end, the parts of IInv hold
\* (examples/chat.rs).
THEOREM Invariance == Spec => []IInv
<1>1. Init => IInv
  BY InitInv
<1>2. IInv /\ [Next]_vars => IInv'
  BY StepInv
<1>3. QED
  BY <1>1, <1>2, PTL DEF Spec

\* Each client is announced once and leaves once, and speaks in between or after
\* (examples/chat.rs:174, 200, 246).
THEOREM Announced == Spec => []AnnouncedOnce
<1>1. IInv => AnnouncedOnce
  BY DEF IInv
<1>2. QED
  BY <1>1, Invariance, PTL

\* What a client was sent is the log from its entry on, up to some text, and between
\* two broadcasts a user has all of it (examples/chat.rs:10).
THEOREM HearTheSame == Spec => []EveryoneHearsTheSame
<1>1. IInv => EveryoneHearsTheSame
  <2> SUFFICES ASSUME IInv, NEW i \in Clients
               PROVE  LET due == SubSeq(log, Since(i), Len(log)) IN
                        /\ IsPrefix(seen[i], due)
                        /\ frames = <<>> /\ i \in users => seen[i] = due
    BY DEF EveryoneHearsTheSame
  <2> DEFINE p == Since(i)
             n == Len(log)
             due == SubSeq(log, p, n)
  <2>1. /\ log \in Seq(Texts) /\ seen \in [Ids -> Seq(Texts)]
        /\ listening \in Nat /\ started \in Nat /\ MaxClients \in Nat
        /\ started + listening <= MaxClients
    BY BoundsAreNat DEF IInv, TypeOK
  <2>2. i \in Ids /\ seen[i] \in Seq(Texts) /\ Len(seen[i]) \in Nat /\ n \in Nat
        /\ DOMAIN log = 1..n
    <3>1. i \in Ids
      BY <2>1 DEF Clients, Ids
    <3>2. QED
      BY <2>1, <3>1, LenProperties
  <2>3. p \in 1..n /\ log[p] = <<"entered", i, 0>>
    <3>1. <<"entered", i, 0>> \in ToSet(log)
      BY <2>2 DEF IInv, LogInv
    <3>2. \E k \in DOMAIN log : log[k] = <<"entered", i, 0>>
      BY <3>1 DEF ToSet
    <3>3. QED
      BY <2>2, <3>2 DEF Since
  <2>4. /\ Len(seen[i]) <= n - p + 1
        /\ \A k \in 1..Len(seen[i]) : seen[i][k] = log[p + k - 1]
        /\ Lost(i) \/ Len(seen[i]) = n - p + (IF Lacks(i) THEN 0 ELSE 1)
    BY <2>2, <2>3 DEF IInv, SeenInv
  <2> HIDE DEF p, n
  <2>5. /\ due \in Seq(Texts) /\ Len(due) = n - p + 1
        /\ \A k \in 1..(n - p + 1) : due[k] = log[p + k - 1]
    BY <2>1, <2>2, <2>3, SubSeqProperties DEF n
  <2> HIDE DEF due
  <2>6. IsPrefix(seen[i], due)
    <3> DEFINE l == Len(seen[i])
               s == SubSeq(seen[i], 1, l)
               d == SubSeq(due, 1, l)
    <3>1. l \in Nat /\ l <= Len(due) /\ Len(due) = n - p + 1
      BY <2>2, <2>4, <2>5
    <3>2. s \in Seq(Texts) /\ Len(s) = l /\ \A k \in 1..l : s[k] = seen[i][k]
      BY <2>2, <3>1, SubSeqProperties
    <3>3. d \in Seq(Texts) /\ Len(d) = l /\ \A k \in 1..l : d[k] = due[k]
      BY <2>5, <3>1, SubSeqProperties
    <3>4. \A k \in 1..l : s[k] = d[k]
      <4>1. \A k \in 1..l : k \in 1..(n - p + 1)
        BY <2>2, <2>3, <3>1
      <4>2. QED
        BY <2>4, <2>5, <3>2, <3>3, <4>1
    <3>5. s = d
      BY <3>2, <3>3, <3>4, SeqEqual
    <3>6. QED
      BY <3>1, <3>5 DEF IsPrefix
  <2>7. ASSUME frames = <<>>, i \in users PROVE seen[i] = due
    <3>1. ~Lost(i) /\ ~Lacks(i)
      BY <2>7, EmptySet DEF Lost, Lacks
    <3>2. Len(seen[i]) = Len(due) /\ \A k \in 1..Len(seen[i]) : seen[i][k] = due[k]
      BY <2>2, <2>3, <2>4, <2>5, <3>1
    <3>3. QED
      BY <2>2, <2>5, <3>2, SeqEqual
  <2>8. QED
    BY <2>6, <2>7 DEF due, p, n
<1>2. QED
  BY <1>1, Invariance, PTL
=============================================================================
