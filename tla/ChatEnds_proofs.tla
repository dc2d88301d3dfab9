-------------------------- MODULE ChatEnds_proofs --------------------------
(***************************************************************************)
(* Why a broadcast of the chat room ends, for any number of connections    *)
(* and lines: the Server awaits only clients that can answer, broadcasts   *)
(* nest only as deep as clients were taken off the list, and whatever      *)
(* happens leaves less of a broadcast to do.  That the steps left are      *)
(* taken is fairness, and with it the matter of BroadcastsEnd.             *)
(***************************************************************************)
EXTENDS Chat_proofs, FiniteSetTheorems

-----------------------------------------------------------------------------
(* Counting                                                                *)

\* Clients are finitely many.
LEMMA FewClients ==
  ASSUME NEW S \in SUBSET Ids
  PROVE  /\ IsFiniteSet(S) /\ Cardinality(S) \in Nat
         /\ \A i \in S : Cardinality(S \ {i}) = Cardinality(S) - 1
         /\ \A i \in Ids : Cardinality(S \cup {i}) \in Nat
                           /\ Cardinality(S \cup {i}) <= Cardinality(S) + 1
<1>1. IsFiniteSet(Ids)
  BY BoundsAreNat, FS_Interval DEF Ids
<1>2. IsFiniteSet(S)
  BY <1>1, FS_Subset
<1>3. Cardinality(S) \in Nat
  BY <1>2, FS_CardinalityType
<1>4. \A i \in S : Cardinality(S \ {i}) = Cardinality(S) - 1
  BY <1>2, FS_RemoveElement
<1>5. ASSUME NEW i \in Ids
      PROVE  Cardinality(S \cup {i}) \in Nat /\ Cardinality(S \cup {i}) <= Cardinality(S) + 1
  <2>1. Cardinality(S \cup {i}) \in {Cardinality(S), Cardinality(S) + 1}
    BY <1>2, FS_AddElement
  <2>2. QED
    BY <1>3, <2>1
<1>6. QED
  BY <1>2, <1>3, <1>4, <1>5

\* There are at most as many users as clients were started.
LEMMA FewUsers ==
  ASSUME TypeOK
  PROVE  users \in SUBSET Ids /\ Cardinality(users) \in Nat /\ Cardinality(users) <= started
<1>1. started \in Nat /\ users \subseteq 1..started /\ started <= MaxClients /\ MaxClients \in Nat
  BY BoundsAreNat DEF TypeOK, Clients
<1>2. IsFiniteSet(1..started) /\ Cardinality(1..started) = started
  BY <1>1, FS_Interval
<1>3. Cardinality(users) <= started
  BY <1>1, <1>2, FS_Subset
<1>4. users \in SUBSET Ids
  BY <1>1 DEF Ids
<1>5. QED
  BY <1>3, <1>4, FewClients

\* The innermost broadcast, and how many there are.
LEMMA Innermost ==
  ASSUME TypeOK, frames # <<>>
  PROVE  /\ frames \in Seq(Frames) /\ Len(frames) \in Nat \ {0}
         /\ Head(frames) \in Frames /\ Head(frames) = frames[1] /\ 1 \in DOMAIN frames
         /\ Head(frames).todo \in SUBSET Ids /\ Head(frames).dead \in SUBSET Ids
<1>1. frames \in Seq(Frames) /\ Len(frames) \in Nat \ {0}
  BY EmptySeq, LenProperties DEF TypeOK
<1>2. Head(frames) \in Frames /\ Head(frames) = frames[1] /\ 1 \in DOMAIN frames
  BY <1>1, FoundWhere, EmptySeq
<1>3. QED
  BY <1>1, <1>2 DEF Frames

\* A change of the innermost broadcast leaves their number alone.
LEMMA SameDepth ==
  ASSUME NEW s \in Seq(Frames), s # <<>>, NEW f \in Frames
  PROVE  Len([s EXCEPT ![1] = f]) = Len(s)
<1>1. Len(s) \in Nat \ {0} /\ DOMAIN s = 1..Len(s)
  BY EmptySeq, LenProperties
<1>2. QED
  BY <1>1, ExceptSeq

\* A removal either makes a broadcast, and takes somebody off the list, or crosses
\* out one whom the broadcast in progress found dead.
LEMMA SweepEffect ==
  ASSUME TypeOK, NEW i \in Ids, Sweep(i)
  PROVE  /\ frames # <<>> /\ i \in Head(frames).dead /\ Head(frames).todo = {}
         /\ UNCHANGED <<asked, started, inbox>>
         /\ \/ /\ i \in users /\ users' = users \ {i}
               /\ Len(frames') = Len(frames) + 1
            \/ /\ users' = users /\ Len(frames') = Len(frames)
               /\ Head(frames').todo = Head(frames).todo
               /\ Head(frames').dead = Head(frames).dead \ {i}
<1> DEFINE dead == Head(frames).dead \ {i}
           f == [text |-> Head(frames).text, todo |-> Head(frames).todo, dead |-> dead]
           below == [frames EXCEPT ![1] = f]
<1>1. /\ frames # <<>> /\ i \in Head(frames).dead /\ Head(frames).todo = {}
      /\ UNCHANGED <<asked, started, inbox>>
  BY DEF Sweep, clientVars
<1>2. /\ frames \in Seq(Frames) /\ Len(frames) \in Nat \ {0} /\ 1 \in DOMAIN frames
      /\ Head(frames) \in Frames /\ Head(frames) = frames[1]
      /\ Head(frames).todo \in SUBSET Ids /\ Head(frames).dead \in SUBSET Ids
  BY <1>1, Innermost
<1>3. f \in Frames
  BY <1>2 DEF Frames
<1>4. RemoveClient(i, below)
  <2>1. frames[1] \in Frames
    BY <1>2
  <2>2. [frames[1] EXCEPT !.dead = frames[1].dead \ {i}] =
          [text |-> frames[1].text, todo |-> frames[1].todo, dead |-> frames[1].dead \ {i}]
    BY <2>1, FrameChange DEF Frames
  <2>3. [frames EXCEPT ![1].dead = @ \ {i}] = below
    BY <1>2, <2>2
  <2>4. QED
    BY <2>3 DEF Sweep
<1>5. /\ below \in Seq(Frames) /\ Len(below) = Len(frames) /\ Head(below) = f
  BY <1>1, <1>2, <1>3, ChangeTop, SameDepth
<1> HIDE DEF below
<1>6. CASE i \in users
  <2>1. PICK g : frames' = <<g>> \o below
    BY <1>4, <1>6 DEF RemoveClient, Broadcast
  <2>2. Len(frames') = Len(below) + 1
    BY <1>5, <2>1, ConcatProperties, LenProperties
  <2>3. QED
    BY <1>1, <1>4, <1>5, <1>6, <2>2 DEF RemoveClient
<1>7. CASE i \notin users
  <2>1. frames' = below /\ users' = users
    BY <1>4, <1>7 DEF RemoveClient
  <2>2. QED
    BY <1>1, <1>5, <2>1
<1>8. QED
  BY <1>6, <1>7

\* What the Server learns of a client takes it off those to send to.
LEMMA AnswerEffect ==
  ASSUME TypeOK, NEW i \in Ids, NEW ok \in BOOLEAN, frames # <<>>, Answer(i, ok)
  PROVE  /\ Len(frames') = Len(frames) /\ frames' # <<>>
         /\ Head(frames').todo = Head(frames).todo \ {i}
         /\ Head(frames').dead = IF ok THEN Head(frames).dead ELSE Head(frames).dead \cup {i}
<1> DEFINE todo == Head(frames).todo \ {i}
           dead == IF ok THEN Head(frames).dead ELSE Head(frames).dead \cup {i}
           f == [text |-> Head(frames).text, todo |-> todo, dead |-> dead]
<1>1. frames \in Seq(Frames) /\ Head(frames) \in Frames
  BY Innermost
<1>2. frames' = [frames EXCEPT ![1] = f] /\ todo \in SUBSET Ids /\ dead \in SUBSET Ids
  BY <1>1, AnswerChange
<1> HIDE DEF todo, dead
<1>3. f \in Frames /\ f.todo = todo /\ f.dead = dead
  BY <1>1, <1>2 DEF Frames
<1> HIDE DEF f
<1>4. Len(frames') = Len(frames) /\ frames' # <<>> /\ Head(frames') = f
  BY <1>1, <1>2, <1>3, ChangeTop, SameDepth
<1>5. QED
  BY <1>3, <1>4 DEF todo, dead

-----------------------------------------------------------------------------
(* Mailboxes                                                               *)

\* There is one send_out in a mailbox.
OneOut(box) ==
  \E k \in DOMAIN box :
    box[k][1] = "out" /\ \A j \in DOMAIN box : box[j][1] = "out" => j = k

LEMMA PlaceIs ==
  ASSUME NEW box \in Seq(ClientMsgs), NEW k \in DOMAIN box, box[k][1] = "out",
         \A j \in DOMAIN box : box[j][1] = "out" => j = k
  PROVE  Place(box) = k /\ k \in Nat
<1>1. Place(box) \in DOMAIN box /\ box[Place(box)][1] = "out"
  BY DEF Place
<1>2. k \in Nat
  BY LenProperties
<1>3. QED
  BY <1>1, <1>2

\* What is sent later stands behind it.
LEMMA PlaceStays ==
  ASSUME NEW box \in Seq(ClientMsgs), OneOut(box), NEW m \in ClientMsgs, m[1] # "out"
  PROVE  Place(Append(box, m)) = Place(box)
<1> DEFINE new == Append(box, m)
<1>1. PICK k \in DOMAIN box :
        box[k][1] = "out" /\ \A j \in DOMAIN box : box[j][1] = "out" => j = k
  BY DEF OneOut
<1>2. /\ new \in Seq(ClientMsgs) /\ Len(new) = Len(box) + 1 /\ Len(box) \in Nat
      /\ DOMAIN box = 1..Len(box) /\ DOMAIN new = 1..Len(new)
      /\ new[Len(box) + 1] = m /\ \A j \in 1..Len(box) : new[j] = box[j]
  BY AppendProperties, LenProperties
<1> HIDE DEF new
<1>3. k \in DOMAIN new /\ new[k][1] = "out"
  BY <1>1, <1>2
<1>4. ASSUME NEW j \in DOMAIN new, new[j][1] = "out" PROVE j = k
  <2>1. j # Len(box) + 1
    BY <1>2, <1>4
  <2>2. j \in 1..Len(box)
    BY <1>2, <2>1
  <2>3. QED
    BY <1>1, <1>2, <1>4, <2>2
<1>5. Place(box) = k
  BY <1>1, PlaceIs
<1>6. Place(new) = k
  BY <1>2, <1>3, <1>4, PlaceIs
<1>7. QED
  BY <1>5, <1>6 DEF new

\* A message handled before it brings it nearer.
LEMMA PlaceNears ==
  ASSUME NEW box \in Seq(ClientMsgs), OneOut(box), Head(box)[1] # "out"
  PROVE  Place(Tail(box)) = Place(box) - 1 /\ Place(box) \in Nat \ {0, 1}
<1> DEFINE new == Tail(box)
<1>1. PICK k \in DOMAIN box :
        box[k][1] = "out" /\ \A j \in DOMAIN box : box[j][1] = "out" => j = k
  BY DEF OneOut
<1>2. box # <<>>
  BY <1>1, EmptySet
<1>3. /\ new \in Seq(ClientMsgs) /\ Len(new) = Len(box) - 1 /\ Len(box) \in Nat \ {0}
      /\ DOMAIN box = 1..Len(box) /\ DOMAIN new = 1..Len(new)
      /\ Head(box) = box[1] /\ \A j \in 1..Len(new) : new[j] = box[j + 1]
  BY <1>2, HeadTailProperties, LenProperties, EmptySeq
<1> HIDE DEF new
<1>4. k # 1 /\ k - 1 \in DOMAIN new /\ (k - 1) + 1 = k
  BY <1>1, <1>3
<1>5. new[k - 1][1] = "out"
  BY <1>1, <1>3, <1>4
<1>6. ASSUME NEW j \in DOMAIN new, new[j][1] = "out" PROVE j = k - 1
  <2>1. j + 1 \in DOMAIN box /\ box[j + 1][1] = "out"
    BY <1>3, <1>6
  <2>2. j + 1 = k
    BY <1>1, <2>1
  <2>3. QED
    BY <1>3, <2>2
<1>7. Place(box) = k /\ k \in Nat
  BY <1>1, PlaceIs
<1>8. Place(new) = k - 1
  BY <1>3, <1>4, <1>5, <1>6, PlaceIs
<1>9. QED
  BY <1>3, <1>4, <1>7, <1>8 DEF new

-----------------------------------------------------------------------------
(* What is left of a broadcast                                             *)

\* Of two ranks the less is less in the first part in which they differ.
LEMMA LessFirst ==
  ASSUME NEW a, NEW b, NEW c, NEW d, NEW e, NEW v, NEW w, NEW x, NEW y, NEW z
  PROVE  /\ a < v => Less(<<a, b, c, d, e>>, <<v, w, x, y, z>>)
         /\ a = v /\ b < w => Less(<<a, b, c, d, e>>, <<v, w, x, y, z>>)
         /\ a = v /\ b = w /\ c < x => Less(<<a, b, c, d, e>>, <<v, w, x, y, z>>)
         /\ a = v /\ b = w /\ c = x /\ d < y => Less(<<a, b, c, d, e>>, <<v, w, x, y, z>>)
         /\ a = v /\ b = w /\ c = x /\ d = y /\ e < z =>
              Less(<<a, b, c, d, e>>, <<v, w, x, y, z>>)
<1> DEFINE r == <<a, b, c, d, e>>
           s == <<v, w, x, y, z>>
<1>1. /\ r[1] = a /\ r[2] = b /\ r[3] = c /\ r[4] = d /\ r[5] = e
      /\ s[1] = v /\ s[2] = w /\ s[3] = x /\ s[4] = y /\ s[5] = z
  OBVIOUS
<1> HIDE DEF r, s
<1>2. a < v => Less(r, s)
  <2>1. \A j \in 1..(1 - 1) : r[j] = s[j]
    OBVIOUS
  <2>2. QED
    BY <1>1, <2>1 DEF Less
<1>3. a = v /\ b < w => Less(r, s)
  <2>1. \A j \in 1..(2 - 1) : j = 1
    OBVIOUS
  <2>2. QED
    BY <1>1, <2>1 DEF Less
<1>4. a = v /\ b = w /\ c < x => Less(r, s)
  <2>1. \A j \in 1..(3 - 1) : j \in {1, 2}
    OBVIOUS
  <2>2. QED
    BY <1>1, <2>1 DEF Less
<1>5. a = v /\ b = w /\ c = x /\ d < y => Less(r, s)
  <2>1. \A j \in 1..(4 - 1) : j \in {1, 2, 3}
    OBVIOUS
  <2>2. QED
    BY <1>1, <2>1 DEF Less
<1>6. a = v /\ b = w /\ c = x /\ d = y /\ e < z => Less(r, s)
  <2>1. \A j \in 1..(5 - 1) : j \in {1, 2, 3, 4}
    OBVIOUS
  <2>2. QED
    BY <1>1, <2>1 DEF Less
<1>7. QED
  BY <1>2, <1>3, <1>4, <1>5, <1>6 DEF r, s

\* The parts of the rank, the weightiest first.
OnTheList == Cardinality(users)
Nested == Len(frames)
Unsettled == 2 * Cardinality(Head(frames).todo) + Cardinality(Head(frames).dead)
Unasked == IF asked = 0 THEN 1 ELSE 0
Ahead == IF asked = 0 THEN 0 ELSE Place(inbox[asked])

LEMMA Falls ==
  /\ OnTheList' < OnTheList => Less(Rank', Rank)
  /\ OnTheList' = OnTheList /\ Nested' < Nested => Less(Rank', Rank)
  /\ OnTheList' = OnTheList /\ Nested' = Nested /\ Unsettled' < Unsettled => Less(Rank', Rank)
  /\ OnTheList' = OnTheList /\ Nested' = Nested /\ Unsettled' = Unsettled
     /\ Unasked' < Unasked => Less(Rank', Rank)
  /\ OnTheList' = OnTheList /\ Nested' = Nested /\ Unsettled' = Unsettled
     /\ Unasked' = Unasked /\ Ahead' < Ahead => Less(Rank', Rank)
<1>1. Rank = <<OnTheList, Nested, Unsettled, Unasked, Ahead>>
  BY DEF Rank, OnTheList, Nested, Unsettled, Unasked, Ahead
<1>2. Rank' = <<OnTheList', Nested', Unsettled', Unasked', Ahead'>>
  BY DEF Rank, OnTheList, Nested, Unsettled, Unasked, Ahead
<1>3. QED
  BY <1>1, <1>2, LessFirst

\* To learn of a client, also that it is dead, leaves less.
LEMMA AnswerFalls ==
  ASSUME TypeOK, NEW i \in Ids, NEW ok \in BOOLEAN, frames # <<>>, i \in Head(frames).todo,
         Answer(i, ok), users' = users
  PROVE  Less(Rank', Rank)
<1> DEFINE todo == Head(frames).todo
           dead == Head(frames).dead
           dead2 == IF ok THEN dead ELSE dead \cup {i}
<1>1. /\ Len(frames') = Len(frames)
      /\ Head(frames').todo = todo \ {i} /\ Head(frames').dead = dead2
  BY AnswerEffect
<1>2. todo \in SUBSET Ids /\ dead \in SUBSET Ids
  BY Innermost
<1>3. /\ Cardinality(todo) \in Nat /\ Cardinality(dead) \in Nat
      /\ Cardinality(todo \ {i}) = Cardinality(todo) - 1
  BY <1>2, FewClients
<1>4. Cardinality(dead2) \in Nat /\ Cardinality(dead2) <= Cardinality(dead) + 1
  BY <1>2, <1>3, FewClients
<1> HIDE DEF dead2
<1>5. Unsettled' = 2 * (Cardinality(todo) - 1) + Cardinality(dead2)
  BY <1>1, <1>3 DEF Unsettled
<1>6. Unsettled' < Unsettled
  BY <1>3, <1>4, <1>5 DEF Unsettled
<1>7. OnTheList' = OnTheList /\ Nested' = Nested
  BY <1>1 DEF OnTheList, Nested
<1>8. QED
  BY <1>6, <1>7, Falls

\* Each step of the Server in a broadcast leaves less of it.
LEMMA ServerFalls ==
  ASSUME IInv, ServerStep, frames # <<>>, frames' # <<>>
  PROVE  Less(Rank', Rank)
<1>1. TypeOK /\ StackInv /\ AskedInv
  BY DEF IInv
<1>2. Head(frames).todo \in SUBSET Ids /\ Head(frames).dead \in SUBSET Ids
      /\ frames \in Seq(Frames) /\ Len(frames) \in Nat \ {0}
  BY <1>1, Innermost
<1>3. CASE Return
  <2>1. Len(frames') = Len(frames) - 1 /\ users' = users
    BY <1>2, <1>3, HeadTailProperties DEF Return
  <2>2. OnTheList' = OnTheList /\ Nested' < Nested
    BY <1>2, <2>1 DEF OnTheList, Nested
  <2>3. QED
    BY <2>2, Falls
<1>4. ASSUME NEW i \in Ids, SendOut(i)
      PROVE  Less(Rank', Rank)
  <2>1. i \in Head(frames).todo /\ asked = 0 /\ users' = users
    BY <1>4 DEF SendOut
  <2>2. CASE Gone(i)
    <3>1. Answer(i, FALSE)
      BY <1>4, <2>2 DEF SendOut
    <3>2. QED
      BY <1>1, <2>1, <3>1, AnswerFalls
  <2>3. CASE ~Gone(i)
    <3>1. asked' = i /\ frames' = frames /\ i # 0
      BY <1>4, <2>3 DEF SendOut, Ids
    <3>2. /\ OnTheList' = OnTheList /\ Nested' = Nested /\ Unsettled' = Unsettled
          /\ Unasked' < Unasked
      BY <2>1, <3>1 DEF OnTheList, Nested, Unsettled, Unasked
    <3>3. QED
      BY <3>2, Falls
  <2>4. QED
    BY <2>2, <2>3
<1>5. ASSUME NEW i \in Ids, Sweep(i)
      PROVE  Less(Rank', Rank)
  <2>1. i \in Head(frames).dead
    BY <1>1, <1>5, SweepEffect
  <2>2. CASE i \in users /\ users' = users \ {i}
    <3>1. OnTheList' < OnTheList
      BY <1>1, <2>2, FewUsers, FewClients DEF OnTheList
    <3>2. QED
      BY <3>1, Falls
  <2>3. CASE /\ users' = users /\ Len(frames') = Len(frames)
             /\ Head(frames').todo = Head(frames).todo
             /\ Head(frames').dead = Head(frames).dead \ {i}
    <3> DEFINE n == Cardinality(Head(frames).todo)
               k == Cardinality(Head(frames).dead)
    <3>1. n \in Nat /\ k \in Nat /\ Cardinality(Head(frames).dead \ {i}) = k - 1
      BY <1>2, <2>1, FewClients
    <3>2. Unsettled = 2 * n + k /\ Unsettled' = 2 * n + (k - 1)
      BY <2>3, <3>1 DEF Unsettled
    <3>3. OnTheList' = OnTheList /\ Nested' = Nested /\ Unsettled' < Unsettled
      BY <2>3, <3>1, <3>2 DEF OnTheList, Nested
    <3>4. QED
      BY <3>3, Falls
  <2>4. QED
    BY <1>1, <1>5, <2>2, <2>3, SweepEffect
<1>6. QED
  BY <1>3, <1>4, <1>5 DEF ServerStep, Listen, Relay

\* The Server awaits one client, which has one send_out to handle, all others none.
LEMMA OneAsked ==
  ASSUME IInv
  PROVE  /\ asked # 0 => /\ asked \in Ids /\ asked \in Head(frames).todo /\ frames # <<>>
                         /\ inbox[asked] \in Seq(ClientMsgs) /\ OneOut(inbox[asked])
         /\ \A i \in Ids : inbox[i] # <<>> /\ Head(inbox[i])[1] = "out" => i = asked
<1>1. TypeOK /\ AskedInv
  BY DEF IInv
<1>2. /\ started \in Nat /\ asked \in 0..started /\ started <= MaxClients
      /\ inbox \in [Ids -> Seq(ClientMsgs)]
  BY <1>1, BoundsAreNat DEF TypeOK
<1>3. ASSUME asked # 0
      PROVE  /\ asked \in Ids /\ asked \in Head(frames).todo /\ frames # <<>>
             /\ inbox[asked] \in Seq(ClientMsgs) /\ OneOut(inbox[asked])
  <2> DEFINE box == inbox[asked]
             out == <<"out", Head(frames).text>>
  <2>1. asked \in Ids
    BY <1>2, <1>3, BoundsAreNat DEF Ids
  <2>2. asked \in Head(frames).todo /\ frames # <<>>
    BY <1>1, <1>3 DEF AskedInv, Lacks
  <2>3. box \in Seq(ClientMsgs)
    BY <1>2, <2>1
  <2>4. /\ \E m \in ToSet(box) : m[1] = "out"
        /\ \A m \in ToSet(box) : m[1] = "out" => m = out
        /\ Once(box, out)
    BY <1>1, <1>3, <2>1 DEF AskedInv
  <2> HIDE DEF out, box
  <2>5. /\ \E k \in DOMAIN box : box[k][1] = "out"
        /\ \A k \in DOMAIN box : box[k][1] = "out" => box[k] = out
    BY <2>4 DEF ToSet
  <2>6. OneOut(box)
    BY <2>4, <2>5 DEF OneOut, Once
  <2>7. QED
    BY <2>1, <2>2, <2>3, <2>6 DEF box
<1>4. ASSUME NEW i \in Ids, inbox[i] # <<>>, Head(inbox[i])[1] = "out"
      PROVE  i = asked
  <2>1. Head(inbox[i]) \in ToSet(inbox[i])
    BY <1>2, <1>4, TailSet
  <2>2. QED
    BY <1>1, <1>4, <2>1 DEF AskedInv
<1>5. QED
  BY <1>3, <1>4

\* The client that is awaited comes nearer to the send_out, or answers it.
LEMMA AskedFalls ==
  ASSUME IInv, NEW i \in Ids, i = asked, Handler(i) \/ End(i), frames # <<>>
  PROVE  Less(Rank', Rank)
<1>1. TypeOK /\ inbox \in [Ids -> Seq(ClientMsgs)] /\ asked # 0
  BY DEF IInv, TypeOK, Ids
<1>2. i \in Head(frames).todo /\ OneOut(inbox[i])
  BY <1>1, OneAsked
<1>3. CASE OnReadLine(i) \/ OnReadError(i)
  <2>1. /\ inbox' = [inbox EXCEPT ![i] = Tail(@)]
        /\ Head(inbox[i])[1] # "out" /\ UNCHANGED <<users, frames, asked>>
    BY <1>3 DEF OnReadLine, OnReadError, Take, serverVars
  <2>2. /\ Place(Tail(inbox[i])) = Place(inbox[i]) - 1
        /\ Place(inbox[i]) \in Nat \ {0, 1}
    BY <1>1, <1>2, <2>1, PlaceNears
  <2>3. inbox'[asked'] = Tail(inbox[i])
    BY <1>1, <1>2, <2>1
  <2>4. Ahead = Place(inbox[i]) /\ Ahead' = Place(inbox[i]) - 1
    BY <1>1, <1>2, <2>1, <2>2, <2>3 DEF Ahead
  <2>5. /\ OnTheList' = OnTheList /\ Nested' = Nested /\ Unsettled' = Unsettled
        /\ Unasked' = Unasked /\ Ahead' < Ahead
    BY <2>1, <2>2, <2>4 DEF OnTheList, Nested, Unsettled, Unasked
  <2>6. QED
    BY <2>5, Falls
<1>4. CASE OnSendOut(i)
  <2> DEFINE ok == i \in wire
  <2>1. ok \in BOOLEAN /\ Answer(i, ok) /\ users' = users
    BY <1>4 DEF OnSendOut
  <2> HIDE DEF ok
  <2>2. QED
    BY <1>1, <1>2, <2>1, AnswerFalls
<1>5. CASE End(i)
  BY <1>1, <1>2, <1>5, AnswerFalls DEF End, EndLoop
<1>6. QED
  BY <1>3, <1>4, <1>5 DEF Handler

\* The network, the other clients and the tasks leave a broadcast as it is.
LEMMA OthersKeep ==
  ASSUME IInv, [Next]_vars, ~ServerStep,
         \A i \in Ids : i = asked => ~Handler(i) /\ ~End(i)
  PROVE  Rank' = Rank
<1>1. /\ inbox \in [Ids -> Seq(ClientMsgs)] /\ read \in [Ids -> 0..MaxLines]
      /\ asked # 0 => /\ asked \in Ids /\ inbox[asked] \in Seq(ClientMsgs)
                      /\ OneOut(inbox[asked])
  BY OneAsked DEF IInv, TypeOK
<1>2. ASSUME UNCHANGED <<users, frames, asked>>,
             asked # 0 => Place(inbox'[asked]) = Place(inbox[asked])
      PROVE  Rank' = Rank
  BY <1>2 DEF Rank
<1>3. CASE UNCHANGED <<users, frames, asked, inbox>>
  BY <1>2, <1>3
<1>4. ASSUME NEW i \in Ids, NEW m \in ClientMsgs, Feed(i, m), m[1] # "out"
      PROVE  Rank' = Rank
  <2>1. UNCHANGED <<users, frames, asked>>
    BY <1>4 DEF Feed, serverVars
  <2>2. CASE inbox' = inbox
    BY <1>3, <2>1, <2>2
  <2>3. CASE inbox' = [inbox EXCEPT ![i] = Append(@, m)]
    <3>1. ASSUME asked # 0 PROVE Place(inbox'[asked]) = Place(inbox[asked])
      <4>1. CASE i = asked
        <5>1. inbox'[asked] = Append(inbox[asked], m)
          BY <1>1, <2>3, <3>1, <4>1
        <5>2. QED
          BY <1>1, <1>4, <3>1, <5>1, PlaceStays
      <4>2. CASE i # asked
        BY <1>1, <2>3, <3>1, <4>2
      <4>3. QED
        BY <4>1, <4>2
    <3>2. QED
      BY <1>2, <2>1, <3>1
  <2>4. QED
    BY <1>4, <2>2, <2>3 DEF Feed
<1>5. ASSUME NEW i \in Ids, ReadLine(i) \/ ReadError(i)
      PROVE  Rank' = Rank
  <2>1. CASE ReadLine(i)
    <3>1. <<"line", read[i] + 1>> \in ClientMsgs
      <4>1. read[i] + 1 \in 1..MaxLines
        BY <1>1, <2>1, BoundsAreNat DEF ReadLine
      <4>2. QED
        BY <4>1 DEF ClientMsgs
    <3>2. QED
      BY <1>4, <2>1, <3>1 DEF ReadLine
  <2>2. CASE ReadError(i)
    <3>1. <<"error">> \in ClientMsgs
      BY DEF ClientMsgs
    <3>2. QED
      BY <1>4, <2>2, <3>1 DEF ReadError
  <2>3. QED
    BY <1>5, <2>1, <2>2
<1>6. ASSUME NEW i \in Ids, Handler(i) \/ End(i)
      PROVE  Rank' = Rank
  <2>1. i # asked
    BY <1>6
  <2>2. ~OnSendOut(i)
    BY <2>1, OneAsked DEF OnSendOut, Take
  <2>3. /\ UNCHANGED <<users, frames, asked>>
        /\ inbox' \in {[inbox EXCEPT ![i] = Tail(@)], [inbox EXCEPT ![i] = <<>>]}
    BY <1>6, <2>1, <2>2 DEF Handler, OnReadLine, OnReadError, Take, End, EndLoop, serverVars
  <2>4. asked # 0 => inbox'[asked] = inbox[asked]
    BY <1>1, <2>1, <2>3
  <2>5. QED
    BY <1>2, <2>3, <2>4
<1>7. CASE \/ Connect \/ UNCHANGED vars \/ \E i \in Ids : EndOfStream(i) \/ Break(i)
           \/ \E m \in tasks : SendToRelay(m)
  BY <1>3, <1>7 DEF Connect, EndOfStream, Break, SendToRelay, vars, serverVars, clientVars
<1>8. QED
  BY <1>5, <1>6, <1>7 DEF Next

\* A broadcast within another has cost a user, and those that begin one are alone.
LEMMA DepthStep ==
  ASSUME IInv, IInv', DepthBounded, [Next]_vars
  PROVE  DepthBounded'
<1>1. /\ TypeOK /\ TypeOK' /\ started \in Nat /\ started' \in Nat /\ Len(frames) \in Nat
      /\ Len(frames) + Cardinality(users) <= started + 1
  BY LenProperties DEF IInv, TypeOK, DepthBounded
<1>2. /\ Cardinality(users) \in Nat /\ users \in SUBSET Ids
      /\ Cardinality(users') <= started' /\ Cardinality(users') \in Nat
  <2>1. Cardinality(users) \in Nat /\ users \in SUBSET Ids
    BY <1>1, FewUsers
  <2>2. Cardinality(users') <= started' /\ Cardinality(users') \in Nat
    <3>1. (TypeOK => Cardinality(users) \in Nat /\ Cardinality(users) <= started)'
      BY FewUsers, PTL
    <3>2. QED
      BY <1>1, <3>1
  <2>3. QED
    BY <2>1, <2>2
<1>3. SUFFICES Len(frames') + Cardinality(users') <= started' + 1
  BY DEF DepthBounded
<1>4. CASE UNCHANGED <<users, started>> /\ Len(frames') = Len(frames)
  BY <1>1, <1>4
<1>5. ASSUME Len(frames') \in {0, 1}
      PROVE  Len(frames') + Cardinality(users') <= started' + 1
  <2> DEFINE n == Cardinality(users')
             m == Len(frames')
  <2>1. n \in Nat /\ n <= started' /\ started' \in Nat /\ (m = 0 \/ m = 1)
    BY <1>1, <1>2, <1>5
  <2> HIDE DEF n, m
  <2>2. m + n <= started' + 1
    BY <2>1
  <2>3. QED
    BY <2>2 DEF n, m
<1>6. ASSUME NEW s, frames' = <<s>> \o <<>>
      PROVE  Len(frames') \in {0, 1}
  BY <1>6
<1>7. CASE Listen \/ Relay
  <2>1. frames' = <<>> \/ \E s : frames' = <<s>> \o <<>>
    BY <1>7 DEF Listen, Relay, RemoveClient, Broadcast
  <2>2. CASE frames' = <<>>
    <3>1. Len(frames') = 0
      BY <2>2, EmptySeq
    <3>2. QED
      BY <1>5, <3>1
  <2>3. QED
    BY <1>5, <1>6, <2>1, <2>2
<1>8. CASE Return
  <2>1. Len(frames') = Len(frames) - 1 /\ UNCHANGED <<users, started>>
    <3>1. frames \in Seq(Frames) /\ frames # <<>>
      BY <1>1, <1>8 DEF Return, TypeOK
    <3>2. QED
      BY <1>8, <3>1, HeadTailProperties DEF Return
  <2>2. QED
    BY <1>1, <1>2, <2>1
<1>9. ASSUME NEW i \in Ids, Sweep(i)
      PROVE  Len(frames') + Cardinality(users') <= started' + 1
  <2>1. CASE i \in users /\ users' = users \ {i} /\ Len(frames') = Len(frames) + 1
    <3>1. Cardinality(users') = Cardinality(users) - 1 /\ started' = started
      BY <1>1, <1>2, <1>9, <2>1, FewClients, SweepEffect
    <3>2. QED
      BY <1>1, <1>2, <2>1, <3>1
  <2>2. CASE users' = users /\ Len(frames') = Len(frames)
    BY <1>1, <1>4, <1>9, <2>2, SweepEffect
  <2>3. QED
    BY <1>1, <1>9, <2>1, <2>2, SweepEffect
<1>10. ASSUME NEW i \in Ids, NEW ok \in BOOLEAN, Answer(i, ok), frames # <<>>,
              UNCHANGED <<users, started>>
       PROVE  Len(frames') + Cardinality(users') <= started' + 1
  BY <1>1, <1>4, <1>10, AnswerEffect
<1>11. ASSUME NEW i \in Ids, SendOut(i)
       PROVE  Len(frames') + Cardinality(users') <= started' + 1
  BY <1>4, <1>10, <1>11 DEF SendOut
<1>12. ASSUME NEW i \in Ids, OnSendOut(i)
       PROVE  Len(frames') + Cardinality(users') <= started' + 1
  <2> DEFINE ok == i \in wire
  <2>1. Answer(i, ok) /\ ok \in BOOLEAN /\ UNCHANGED <<users, started>>
    BY <1>12 DEF OnSendOut
  <2>2. frames # <<>>
    BY <1>12, OneAsked DEF OnSendOut, Take, Ids
  <2> HIDE DEF ok
  <2>3. QED
    BY <1>10, <2>1, <2>2
<1>13. ASSUME NEW i \in Ids, End(i)
       PROVE  Len(frames') + Cardinality(users') <= started' + 1
  <2>1. UNCHANGED <<users, started>>
    BY <1>13 DEF End, EndLoop
  <2>2. CASE asked = i
    <3>1. Answer(i, FALSE)
      BY <1>13, <2>2 DEF End
    <3>2. asked # 0
      BY <2>2, BoundsAreNat DEF Ids
    <3>3. frames # <<>>
      BY <3>2, OneAsked
    <3>4. QED
      BY <1>10, <2>1, <3>1, <3>3
  <2>3. CASE asked # i
    BY <1>4, <1>13, <2>1, <2>3 DEF End
  <2>4. QED
    BY <2>2, <2>3
<1>14. QED
  BY <1>4, <1>7, <1>8, <1>9, <1>11, <1>12, <1>13
     DEF Next, ServerStep, Handler, Connect, ReadLine, ReadError, Feed, EndOfStream, Break,
         OnReadLine, OnReadError, SendToRelay, vars, serverVars

-----------------------------------------------------------------------------
(* Theorems                                                                *)

\* The Server awaits only a client on its list that can take the send_out: with the
\* fairness of BroadcastsEnd it gets an answer.
THEOREM OnlyTheLivingAreAsked == Spec => []AskedCanAnswer
<1>1. ASSUME IInv, asked # 0
      PROVE  asked \in users /\ ~Gone(asked) /\ <<"out", Head(frames).text>> \in ToSet(inbox[asked])
  <2>1. asked \in Ids
    BY <1>1, OneAsked
  <2>2. Lacks(asked) /\ ~Gone(asked) /\ \E m \in ToSet(inbox[asked]) : m[1] = "out"
    BY <1>1 DEF IInv, AskedInv
  <2>3. \A m \in ToSet(inbox[asked]) : m[1] = "out" => m = <<"out", Head(frames).text>>
    BY <1>1, <2>1 DEF IInv, AskedInv
  <2>4. asked \in users
    BY <1>1, <2>1, <2>2 DEF IInv, StackInv
  <2>5. QED
    BY <2>2, <2>3, <2>4
<1>2. IInv => AskedCanAnswer
  BY <1>1 DEF AskedCanAnswer
<1>3. QED
  BY <1>2, Invariance, PTL

\* remove_client and broadcast, which call each other, nest no deeper than there were
\* clients to lose (examples/chat.rs:193, 202).
THEOREM NestingIsBounded == Spec => []DepthBounded
<1>1. Init => DepthBounded
  <2> SUFFICES ASSUME Init PROVE DepthBounded
    OBVIOUS
  <2>1. TypeOK /\ frames = <<>> /\ started = 0
    BY InitInv DEF Init, IInv
  <2>2. Cardinality(users) \in Nat /\ Cardinality(users) <= started
    BY <2>1, FewUsers
  <2>3. QED
    BY <2>1, <2>2 DEF DepthBounded
<1>2. IInv /\ IInv' /\ DepthBounded /\ [Next]_vars => DepthBounded'
  BY DepthStep
<1>3. QED
  BY <1>1, <1>2, Invariance, PTL DEF Spec

\* Nothing that happens in a broadcast adds to it, and every step of the Server and of
\* the client that it awaits is one of finitely many.
THEOREM BroadcastsWearOut == Spec => BroadcastWearsOut
<1>1. ASSUME IInv, [Next]_vars, frames # <<>>, frames' # <<>>
      PROVE  /\ Rank' = Rank \/ Less(Rank', Rank)
             /\ ServerStep \/ (\E i \in Ids : i = asked /\ (Handler(i) \/ End(i))) =>
                  Less(Rank', Rank)
  <2>1. CASE ServerStep
    BY <1>1, <2>1, ServerFalls
  <2>2. CASE \E i \in Ids : i = asked /\ (Handler(i) \/ End(i))
    BY <1>1, <2>2, AskedFalls
  <2>3. CASE ~ServerStep /\ ~(\E i \in Ids : i = asked /\ (Handler(i) \/ End(i)))
    BY <1>1, <2>3, OthersKeep
  <2>4. QED
    BY <2>1, <2>2, <2>3
<1>2. IInv /\ [Next]_vars =>
        (frames # <<>> /\ frames' # <<>> =>
           /\ Rank' = Rank \/ Less(Rank', Rank)
           /\ ServerStep \/ (\E i \in Ids : i = asked /\ (Handler(i) \/ End(i))) =>
                Less(Rank', Rank))
  BY <1>1
<1>3. QED
  BY <1>2, Invariance, PTL DEF Spec, BroadcastWearsOut
=============================================================================
