-------------------------- MODULE ActorDecl_proofs --------------------------
(***************************************************************************)
(* Proofs about ActorDecl for modules of any length and any items: IInv is *)
(* inductive, a step per action, and what the macro accepts, reports and   *)
(* writes follows from it once a verdict is reached.                       *)
(***************************************************************************)
EXTENDS ActorDecl, FiniteSetTheorems, WellFoundedInduction, TLAPS

\* The items are numbered from one, and a set of numbers is finite.
LEMMA Numbering ==
  ASSUME items \in Seq(Items)
  PROVE  /\ Len(items) \in Nat
         /\ Indices = 1..Len(items)
         /\ \A S \in SUBSET Indices : IsFiniteSet(S) /\ Cardinality(S) \in Nat
<1>1. Len(items) \in Nat /\ Indices = 1..Len(items)
  BY DEF Indices
<1>2. IsFiniteSet(1..Len(items))
  BY <1>1, FS_Interval
<1>3. QED
  BY <1>1, <1>2, FS_Subset, FS_CardinalityType

\* A set of items that is not empty has a first one.
LEMMA FirstOfIndices ==
  ASSUME NEW n \in Nat, NEW S \in SUBSET (1..n), S # {}
  PROVE  \E first \in S : \A j \in S : first <= j
<1> DEFINE Less == OpToRel(<, Nat)
<1>1. IsWellFoundedOn(Less, Nat)
  BY NatLessThanWellFounded
<1>2. \A x, y \in Nat : <<x, y>> \in Less <=> x < y
  BY DEF OpToRel
<1>3. S \subseteq Nat
  OBVIOUS
<1> HIDE DEF Less
<1>4. PICK first \in S : \A j \in S : <<j, first>> \notin Less
  BY <1>1, <1>3, WFMin
<1>5. ASSUME NEW j \in S PROVE first <= j
  <2>1. first \in Nat /\ j \in Nat /\ <<j, first>> \notin Less
    BY <1>3, <1>4
  <2>2. ~(j < first)
    BY <1>2, <2>1
  <2>3. QED
    BY <2>1, <2>2
<1>6. QED
  BY <1>5

\* FirstOf finds it, and nothing else.
LEMMA FirstItem ==
  ASSUME items \in Seq(Items), NEW S \in SUBSET Indices
  PROVE  /\ S # {} => FirstOf(S) \in S /\ \A j \in S : FirstOf(S) <= j
         /\ \A i \in S : (\A j \in S : i <= j) => i = FirstOf(S)
<1>1. Indices = 1..Len(items) /\ Len(items) \in Nat
  BY Numbering
<1>2. S # {} => FirstOf(S) \in S /\ \A j \in S : FirstOf(S) <= j
  <2>1. ASSUME S # {} PROVE \E i \in S : \A j \in S : i <= j
    BY <1>1, <2>1, FirstOfIndices
  <2>2. QED
    BY <2>1 DEF FirstOf
<1>3. ASSUME NEW i \in S, \A j \in S : i <= j PROVE i = FirstOf(S)
  <2>1. FirstOf(S) \in S /\ FirstOf(S) <= i /\ i <= FirstOf(S)
    BY <1>2, <1>3
  <2> DEFINE f == FirstOf(S)
  <2>2. i \in Nat /\ f \in Nat
    <3>1. f \in S /\ i \in S /\ \A j \in S : j \in 1..Len(items)
      BY <1>1, <2>1
    <3> HIDE DEF f
    <3>2. QED
      BY <1>1, <3>1
  <2>3. QED
    BY <2>1, <2>2
<1>4. QED
  BY <1>2, <1>3

LEMMA InitIInv == Init => IInv
<1> SUFFICES ASSUME Init PROVE IInv
  OBVIOUS
<1>1. items \in Seq(Items)
  BY InputsAreItems DEF Init
<1>2. Len(items) \in Nat /\ Indices = 1..Len(items)
  BY <1>1, Numbering
<1>3. TypeOK
  BY <1>1, <1>2 DEF Init, TypeOK
<1>4. PartsOfTheModule
  <2>1. ASSUME NEW S \in SUBSET Indices PROVE ReadOf(S) = {}
    <3>1. \A j \in S : j \in Nat /\ 1 <= j
      BY <1>2
    <3>2. QED
      BY <3>1 DEF Init, ReadOf
  <2>2. /\ ReadOf(AllPerformances) = {} /\ ReadOf(AllOf("data")) = {}
        /\ ReadOf(AllOf("stop")) = {} /\ ReadOf(AllOf("catch")) = {}
        /\ ReadOf(AllOf("fn") \cup AllOf("other") \cup (AllOf("impl") \ AllPerformances)) = {}
    BY <2>1 DEF AllPerformances, AllOf
  <2>3. QED
    BY <2>2 DEF Init, PartsOfTheModule, LastHook
<1>5. ReasonForVerdict
  BY DEF Init, ReasonForVerdict
<1>6. QED
  BY <1>3, <1>4, <1>5 DEF IInv

-----------------------------------------------------------------------------
(* Steps                                                                   *)

\* The items that make up the part `misc`.
Others == AllOf("fn") \cup AllOf("other") \cup (AllOf("impl") \ AllPerformances)

\* The module stays as it is, and so does what can be said of it alone.
LEMMA SameModule ==
  ASSUME UNCHANGED items
  PROVE  /\ Indices' = Indices /\ AllPerformances' = AllPerformances
         /\ \A sort : AllOf(sort)' = AllOf(sort)
         /\ Others' = Others
         /\ \A j : Broken(j)' = Broken(j)
BY DEF Indices, AllPerformances, IsPerformance, AllOf, Sort, Others, Broken

\* The index read and the sets of read items after an item was taken in.
LEMMA ReadOneMore ==
  ASSUME TypeOK, NEW i \in DOMAIN items, Reading(i), Continue
  PROVE  /\ i = next /\ i \in Indices /\ UNCHANGED items
         /\ \A S \in SUBSET Indices :
              {j \in S : j < next'} = ReadOf(S) \cup (S \cap {i})
<1>1. Indices = 1..Len(items) /\ Len(items) \in Nat
  BY Numbering DEF TypeOK
<1>2. i = next /\ next' = next + 1 /\ next \in Nat /\ UNCHANGED items
  BY <1>1 DEF Reading, Continue, TypeOK, inputVars
<1>3. ASSUME NEW S \in SUBSET Indices
      PROVE  {j \in S : j < next'} = ReadOf(S) \cup (S \cap {i})
  <2>1. \A j \in S : j < next' <=> j < next \/ j = i
    BY <1>1, <1>2
  <2>2. QED
    BY <2>1 DEF ReadOf
<1>4. QED
  BY <1>2, <1>3 DEF Indices

\* One more item: the parts of the module that were read, in terms of before.
LEMMA ReadParts ==
  ASSUME TypeOK, NEW i \in DOMAIN items, Reading(i), Continue
  PROVE  /\ ReadOf(AllPerformances)' = ReadOf(AllPerformances) \cup (AllPerformances \cap {i})
         /\ \A sort : ReadOf(AllOf(sort))' = ReadOf(AllOf(sort)) \cup (AllOf(sort) \cap {i})
         /\ ReadOf(Others)' = ReadOf(Others) \cup (Others \cap {i})
<1>1. /\ UNCHANGED items
      /\ \A S \in SUBSET Indices :
           {j \in S : j < next'} = ReadOf(S) \cup (S \cap {i})
  BY ReadOneMore
<1>2. /\ AllPerformances \in SUBSET Indices /\ Others \in SUBSET Indices
      /\ \A sort : AllOf(sort) \in SUBSET Indices
  BY DEF AllPerformances, Others, AllOf
<1>3. /\ ReadOf(AllPerformances)' = {j \in AllPerformances : j < next'}
      /\ ReadOf(Others)' = {j \in Others : j < next'}
  BY <1>1, SameModule DEF ReadOf
<1>4. ASSUME NEW sort PROVE ReadOf(AllOf(sort))' = {j \in AllOf(sort) : j < next'}
  BY <1>1, SameModule DEF ReadOf
<1>5. QED
  BY <1>1, <1>2, <1>3, <1>4

\* The kinds an item can be of.
LEMMA Kinds ==
  ASSUME TypeOK, NEW i \in Indices
  PROVE  /\ Sort(i) \in {"impl", "stop", "catch", "fn", "data", "other"}
         /\ i \in Others <=> Sort(i) \notin {"stop", "catch", "data"} /\ ~IsPerformance(i)
         /\ i \in AllPerformances <=> IsPerformance(i)
         /\ \A sort : i \in AllOf(sort) <=> Sort(i) = sort
         /\ IsPerformance(i) => Sort(i) = "impl"
<1>1. items[i] \in Items
  BY DEF TypeOK, Indices
<1>2. Sort(i) \in {"impl", "stop", "catch", "fn", "data", "other"}
  BY <1>1 DEF Items, Sort
<1>3. QED
  BY <1>2 DEF Others, AllPerformances, AllOf, IsPerformance

\* Reading: a step per kind of item.
LEMMA PartsRead ==
  ASSUME IInv, NEW i \in DOMAIN items,
         \/ ReadPerformance(i) \/ ReadHook(i) \/ ReadData(i) \/ ReadOther(i)
  PROVE  PartsOfTheModule'
<1>1. TypeOK /\ PartsOfTheModule /\ Reading(i) /\ Continue
  BY DEF IInv, ReadPerformance, ReadHook, ReadData, ReadOther
<1>2. /\ ReadOf(AllPerformances)' = ReadOf(AllPerformances) \cup (AllPerformances \cap {i})
      /\ \A sort : ReadOf(AllOf(sort))' = ReadOf(AllOf(sort)) \cup (AllOf(sort) \cap {i})
      /\ ReadOf(Others)' = ReadOf(Others) \cup (Others \cap {i})
  BY <1>1, ReadParts
<1>3. i \in Indices /\ UNCHANGED items /\ i = next
  BY <1>1, ReadOneMore
<1>4. /\ i \in Others <=> Sort(i) \notin {"stop", "catch", "data"} /\ ~IsPerformance(i)
      /\ i \in AllPerformances <=> IsPerformance(i)
      /\ \A sort : i \in AllOf(sort) <=> Sort(i) = sort
      /\ IsPerformance(i) => Sort(i) = "impl"
  BY <1>1, <1>3, Kinds
<1>5. misc = ReadOf(Others)
  BY <1>1 DEF PartsOfTheModule, Others
<1>6. SUFFICES /\ performances' = ReadOf(AllPerformances)'
               /\ \A j \in performances' : ~Broken(j)
               /\ roles' = {j \in performances' : items[j].impl.canonical}
               /\ data_items' = ReadOf(AllOf("data"))'
               /\ misc' = ReadOf(Others)'
               /\ LastHook(exit, "stop")' /\ LastHook(panic, "catch")'
  BY <1>3, SameModule DEF PartsOfTheModule, Others
<1>7. \A sort : \A j \in ReadOf(AllOf(sort)) : j < i /\ j \in Nat
  <2>1. Indices = 1..Len(items) /\ Len(items) \in Nat
    BY <1>1, Numbering DEF TypeOK
  <2>2. QED
    BY <1>3, <2>1 DEF ReadOf, AllOf
<1>8. i \in Nat /\ i # 0
  BY <1>1, <1>3, Numbering DEF TypeOK
<1>9. CASE ReadPerformance(i)
  <2>1. IsPerformance(i) /\ ~Broken(i) /\ UNCHANGED <<data_items, misc, exit, panic>>
    BY <1>9 DEF ReadPerformance, Broken
  <2>2. /\ performances' = performances \cup {i}
        /\ roles' = IF items[i].impl.canonical THEN roles \cup {i} ELSE roles
    BY <1>9 DEF ReadPerformance
  <2>3. \A sort \in {"stop", "catch", "data"} : ReadOf(AllOf(sort))' = ReadOf(AllOf(sort))
    BY <1>2, <1>4, <2>1
  <2>4. LastHook(exit, "stop")' /\ LastHook(panic, "catch")'
    BY <1>1, <2>1, <2>3 DEF PartsOfTheModule, LastHook
  <2>5. QED
    BY <1>1, <1>2, <1>4, <1>5, <2>1, <2>2, <2>3, <2>4 DEF PartsOfTheModule
<1>10. CASE ReadHook(i)
  <2>1. /\ Sort(i) \in {"stop", "catch"} /\ ~IsPerformance(i)
        /\ exit' = IF Sort(i) = "stop" THEN i ELSE exit
        /\ panic' = IF Sort(i) = "catch" THEN i ELSE panic
        /\ UNCHANGED <<performances, roles, data_items, misc>>
    BY <1>4, <1>10 DEF ReadHook
  <2>2. LastHook(exit, "stop")'
    BY <1>1, <1>2, <1>4, <1>7, <1>8, <2>1 DEF PartsOfTheModule, LastHook
  <2>3. LastHook(panic, "catch")'
    BY <1>1, <1>2, <1>4, <1>7, <1>8, <2>1 DEF PartsOfTheModule, LastHook
  <2>4. /\ ReadOf(AllPerformances)' = performances /\ ReadOf(Others)' = misc
        /\ ReadOf(AllOf("data"))' = data_items
    <3>1. AllPerformances \cap {i} = {} /\ Others \cap {i} = {} /\ AllOf("data") \cap {i} = {}
      BY <1>4, <2>1
    <3>2. QED
      BY <1>1, <1>2, <1>5, <3>1 DEF PartsOfTheModule
  <2>5. QED
    BY <1>1, <2>1, <2>2, <2>3, <2>4 DEF PartsOfTheModule
<1>11. CASE ReadData(i)
  <2>1. /\ Sort(i) = "data" /\ ~IsPerformance(i) /\ data_items' = data_items \cup {i}
        /\ UNCHANGED <<performances, roles, misc, exit, panic>>
    BY <1>4, <1>11 DEF ReadData
  <2>2. LastHook(exit, "stop")' /\ LastHook(panic, "catch")'
    BY <1>1, <1>2, <1>4, <2>1 DEF PartsOfTheModule, LastHook
  <2>3. QED
    BY <1>1, <1>2, <1>4, <1>5, <2>1, <2>2 DEF PartsOfTheModule
<1>12. CASE ReadOther(i)
  <2>1. /\ i \in Others /\ ~IsPerformance(i) /\ Sort(i) \notin {"stop", "catch", "data"}
        /\ misc' = misc \cup {i}
        /\ UNCHANGED <<performances, roles, data_items, exit, panic>>
    BY <1>4, <1>12 DEF ReadOther
  <2>2. LastHook(exit, "stop")' /\ LastHook(panic, "catch")'
    BY <1>1, <1>2, <1>4, <2>1 DEF PartsOfTheModule, LastHook
  <2>3. /\ ReadOf(AllPerformances)' = performances /\ ReadOf(AllOf("data"))' = data_items
        /\ ReadOf(Others)' = misc'
    <3>1. /\ AllPerformances \cap {i} = {} /\ AllOf("data") \cap {i} = {}
          /\ Others \cap {i} = {i}
      BY <1>4, <2>1
    <3>2. QED
      BY <1>1, <1>2, <1>5, <2>1, <3>1 DEF PartsOfTheModule
  <2>4. QED
    BY <1>1, <2>1, <2>2, <2>3 DEF PartsOfTheModule
<1>13. QED
  BY <1>9, <1>10, <1>11, <1>12

\* Every other step leaves what was read alone.
LEMMA PartsKept ==
  ASSUME IInv, UNCHANGED <<items, next, declVars>>
  PROVE  PartsOfTheModule'
<1>1. /\ ReadOf(AllPerformances)' = ReadOf(AllPerformances)
      /\ \A sort : ReadOf(AllOf(sort))' = ReadOf(AllOf(sort))
      /\ ReadOf(Others)' = ReadOf(Others)
  BY SameModule DEF ReadOf
<1>2. QED
  BY <1>1, SameModule DEF IInv, PartsOfTheModule, LastHook, Others, declVars

LEMMA PartsStep == IInv /\ [Next]_vars => PartsOfTheModule'
<1> SUFFICES ASSUME IInv, [Next]_vars PROVE PartsOfTheModule'
  OBVIOUS
<1>1. CASE \E i \in DOMAIN items :
             ReadPerformance(i) \/ ReadHook(i) \/ ReadData(i) \/ ReadOther(i)
  BY <1>1, PartsRead
<1>2. CASE \E i \in DOMAIN items : RefusePerformance(i) \/ AbortOnInherent(i)
  BY <1>2, PartsKept DEF RefusePerformance, AbortOnInherent, inputVars
<1>3. CASE Declare \/ Expand \/ \E b \in outside : ExpandPerformance(b)
  BY <1>3, PartsKept DEF Declare, Expand, ExpandPerformance, inputVars
<1>4. CASE UNCHANGED vars
  BY <1>4, PartsKept DEF vars, inputVars
<1>5. QED
  BY <1>1, <1>2, <1>3, <1>4 DEF Next

\* The parts do not overlap: an item is of one kind, and only hooks may be replaced.
LEMMA Disjoint ==
  ASSUME TypeOK, UNCHANGED items, PartsOfTheModule'
  PROVE  /\ performances' \cup data_items' \cup misc' \subseteq Indices
         /\ exit' \in Indices \cup {0} /\ panic' \in Indices \cup {0}
         /\ roles' \subseteq performances'
         /\ misc' \cap (performances' \cup data_items' \cup {exit', panic'}) = {}
<1>1. misc' = ReadOf(Others)'
  BY DEF PartsOfTheModule, Others
<1>2. /\ performances' \subseteq AllPerformances /\ data_items' \subseteq AllOf("data")
      /\ misc' \subseteq Others
      /\ exit' \in AllOf("stop") \cup {0} /\ panic' \in AllOf("catch") \cup {0}
      /\ roles' \subseteq performances'
  BY <1>1, SameModule DEF PartsOfTheModule, ReadOf, LastHook
<1>3. 0 \notin Indices
  BY Numbering DEF TypeOK
<1>4. /\ AllPerformances \subseteq Indices /\ Others \subseteq Indices
      /\ \A sort : AllOf(sort) \subseteq Indices
  BY DEF AllPerformances, Others, AllOf
<1>5. /\ Others \cap AllPerformances = {}
      /\ \A sort \in {"data", "stop", "catch"} : Others \cap AllOf(sort) = {}
  BY <1>4, Kinds
<1>6. QED
  BY <1>2, <1>3, <1>4, <1>5

\* No step changes the input, and the index stays within it.
LEMMA InputStep ==
  ASSUME TypeOK, [Next]_vars
  PROVE  /\ UNCHANGED inputVars
         /\ items' \in Seq(Items) /\ outside' \in Outsides
         /\ next' \in 1..(Len(items') + 1)
         /\ verdict' \in Final \cup {"reading", "declared"}
         /\ accepted' \cup refused' \subseteq outside'
<1>1. Indices = 1..Len(items) /\ Len(items) \in Nat
  BY Numbering DEF TypeOK
<1>2. UNCHANGED inputVars
  BY DEF Next, vars, Continue, ReadPerformance, RefusePerformance, AbortOnInherent, ReadHook,
     ReadData, ReadOther, Declare, Expand, ExpandPerformance
<1>3. ASSUME NEW i \in DOMAIN items,
             \/ ReadPerformance(i) \/ ReadHook(i) \/ ReadData(i) \/ ReadOther(i)
      PROVE  Reading(i) /\ Continue
  BY <1>3 DEF ReadPerformance, ReadHook, ReadData, ReadOther
<1>4. next' \in 1..(Len(items) + 1)
  <2>1. CASE \E i \in DOMAIN items :
               ReadPerformance(i) \/ ReadHook(i) \/ ReadData(i) \/ ReadOther(i)
    BY <1>1, <1>3, <2>1 DEF Reading, Continue, Indices
  <2>2. CASE UNCHANGED next
    BY <2>2 DEF TypeOK
  <2>3. QED
    BY <2>1, <2>2 DEF Next, vars, RefusePerformance, AbortOnInherent, Declare, Expand,
       ExpandPerformance
<1>5. verdict' \in Final \cup {"reading", "declared"}
  <2>1. CASE UNCHANGED verdict
    BY <2>1 DEF TypeOK
  <2>2. QED
    BY <1>3, <2>1 DEF Next, vars, RefusePerformance, AbortOnInherent, Declare, Expand,
       ExpandPerformance, Continue, Final
<1>6. accepted' \cup refused' \subseteq outside
  <2>1. CASE UNCHANGED outputVars
    BY <2>1 DEF TypeOK, outputVars
  <2>2. CASE Expand
    BY <2>2 DEF TypeOK, Expand
  <2>3. CASE \E b \in outside : ExpandPerformance(b)
    BY <2>3 DEF TypeOK, ExpandPerformance
  <2>4. QED
    BY <1>3, <2>1, <2>2, <2>3 DEF Next, vars, RefusePerformance, AbortOnInherent, Declare,
       Continue
<1>7. QED
  BY <1>2, <1>4, <1>5, <1>6 DEF TypeOK, inputVars

\* Errors and dispatch functions are of items of the module.
LEMMA TypeStep == IInv /\ [Next]_vars => TypeOK'
<1> SUFFICES ASSUME IInv, [Next]_vars PROVE TypeOK'
  OBVIOUS
<1>1. TypeOK /\ PartsOfTheModule /\ PartsOfTheModule'
  BY PartsStep DEF IInv
<1>2. UNCHANGED items /\ Indices' = Indices
  BY <1>1, InputStep, SameModule DEF inputVars
<1>3. /\ performances' \cup data_items' \cup misc' \subseteq Indices
      /\ exit' \in Indices \cup {0} /\ panic' \in Indices \cup {0}
      /\ roles' \subseteq performances'
      /\ misc' \cap (performances' \cup data_items' \cup {exit', panic'}) = {}
  BY <1>1, <1>2, Disjoint
<1>4. errors' \subseteq Indices \cup {0}
  <2>1. CASE UNCHANGED errors
    BY <1>1, <2>1 DEF TypeOK
  <2>2. ASSUME NEW i \in DOMAIN items, RefusePerformance(i) PROVE errors' = {i}
    BY <2>2 DEF RefusePerformance
  <2>3. CASE Declare
    BY <1>1, <2>3 DEF Declare, TypeOK
  <2>4. CASE Expand
    <3>1. BadRoles \in SUBSET Indices /\ BadPerformances \in SUBSET Indices
      BY <1>1 DEF BadRoles, BadPerformances, TypeOK
    <3>2. /\ BadRoles # {} => FirstOf(BadRoles) \in Indices
          /\ BadPerformances # {} => FirstOf(BadPerformances) \in Indices
      BY <1>1, <3>1, FirstItem DEF TypeOK
    <3>3. \/ UNCHANGED errors
          \/ BadRoles # {} /\ errors' = {FirstOf(BadRoles)}
          \/ BadPerformances # {} /\ errors' = {FirstOf(BadPerformances)}
      BY <2>4 DEF Expand
    <3>4. QED
      BY <1>1, <3>2, <3>3 DEF TypeOK
  <2>5. QED
    BY <2>1, <2>2, <2>3, <2>4 DEF Next, vars, Indices, Continue, ReadPerformance,
       AbortOnInherent, ReadHook, ReadData, ReadOther, ExpandPerformance
<1>5. dispatching' \subseteq performances'
  <2>1. CASE UNCHANGED dispatching /\ performances \subseteq performances'
    BY <1>1, <2>1 DEF TypeOK
  <2>2. CASE Expand
    BY <1>1, <2>2 DEF Expand, TypeOK, declVars
  <2>3. QED
    BY <2>1, <2>2 DEF Next, vars, outputVars, declVars, Continue, ReadPerformance,
       RefusePerformance, AbortOnInherent, ReadHook, ReadData, ReadOther, Declare,
       ExpandPerformance
<1>6. QED
  BY <1>1, <1>2, <1>3, <1>4, <1>5, InputStep DEF TypeOK

\* While reading goes on there is no verdict to account for.
LEMMA VerdictStep == IInv /\ [Next]_vars => ReasonForVerdict'
<1> SUFFICES ASSUME IInv, [Next]_vars PROVE ReasonForVerdict'
  OBVIOUS
<1>1. TypeOK /\ PartsOfTheModule /\ ReasonForVerdict /\ TypeOK'
  BY TypeStep DEF IInv
<1>2. UNCHANGED items
  BY <1>1, InputStep DEF inputVars
<1>3. Indices = 1..Len(items) /\ Len(items) \in Nat
  BY <1>1, Numbering DEF TypeOK
<1>4. CASE \E i \in DOMAIN items :
             ReadPerformance(i) \/ ReadHook(i) \/ ReadData(i) \/ ReadOther(i)
  <2>1. verdict = "reading" /\ verdict' = verdict /\ errors' = errors
    BY <1>4 DEF ReadPerformance, ReadHook, ReadData, ReadOther, Reading, Continue
  <2>2. errors' = {}
    BY <1>1, <2>1 DEF ReasonForVerdict
  <2>3. QED
    BY <2>1, <2>2 DEF ReasonForVerdict
<1>5. ASSUME NEW i \in DOMAIN items, RefusePerformance(i) \/ AbortOnInherent(i)
      PROVE  ReasonForVerdict'
  <2>1. /\ i = next /\ next' = next /\ next \in AllPerformances /\ Broken(next)
        /\ verdict = "reading"
    BY <1>5 DEF RefusePerformance, AbortOnInherent, Reading, AllPerformances, Broken, Indices
  <2>2. next' \in AllPerformances' /\ Broken(next)'
    BY <1>2, <2>1, SameModule
  <2>3. \/ verdict' = "error" /\ errors' = {next'} /\ items'[next'].impl.trait # "none"
        \/ verdict' = "abort" /\ errors' = errors /\ items'[next'].impl.trait = "none"
    BY <1>2, <1>5, <2>1 DEF RefusePerformance, AbortOnInherent
  <2>4. errors = {}
    BY <1>1, <2>1 DEF ReasonForVerdict
  <2>5. QED
    BY <2>2, <2>3, <2>4 DEF ReasonForVerdict
<1>6. CASE Declare
  <2>1. /\ next' = next /\ next > Len(items)
        /\ UNCHANGED <<items, performances, data_items>>
        /\ verdict = "reading"
        /\ verdict' = IF Cardinality(data_items) = 1 /\ performances # {}
                      THEN "declared" ELSE "error"
        /\ errors' = IF Cardinality(data_items) > 1 THEN data_items
                     ELSE IF verdict' = "error" THEN {0} ELSE {}
    BY <1>6 DEF Declare, inputVars, declVars
  <2>2. ~(1 > 1)
    OBVIOUS
  <2>3. CASE verdict' = "declared"
    <3>1. Cardinality(data_items) = 1 /\ performances # {}
      BY <2>1, <2>3
    <3>2. errors' = {}
      BY <2>1, <2>2, <2>3, <3>1
    <3>3. QED
      BY <2>1, <2>3, <3>1, <3>2 DEF ReasonForVerdict, ReadAndCounted
  <2>4. CASE verdict' = "error"
    <3>1. \/ Cardinality(data_items) > 1 /\ errors' = data_items
          \/ /\ ~(Cardinality(data_items) > 1) /\ errors' = {0}
             /\ Cardinality(data_items) # 1 \/ performances = {}
      BY <2>1, <2>4
    <3>2. QED
      BY <2>1, <2>4, <3>1 DEF ReasonForVerdict
  <2>5. QED
    BY <2>1, <2>3, <2>4
<1>7. CASE Expand
  <2>1. /\ UNCHANGED <<items, next, performances, roles, data_items>>
        /\ verdict = "declared"
    BY <1>7 DEF Expand, inputVars, declVars
  <2>2. ReadAndCounted /\ errors = {}
    BY <1>1, <2>1 DEF ReasonForVerdict
  <2>3. /\ BadRoles' = BadRoles /\ BadPerformances' = BadPerformances
        /\ ReadAndCounted' = ReadAndCounted /\ \A b : Dispatches(b)' = Dispatches(b)
    BY <2>1 DEF BadRoles, BadPerformances, ReadAndCounted, Dispatches
  <2>4. CASE BadRoles = {} /\ BadPerformances = {}
    <3>1. /\ verdict' = "expanded" /\ errors' = errors
          /\ dispatching' = {i \in performances : Dispatches(items[i].impl)}
      BY <1>7, <2>4 DEF Expand
    <3>2. QED
      BY <2>1, <2>2, <2>3, <2>4, <3>1 DEF ReasonForVerdict, Dispatches
  <2>5. CASE BadRoles # {}
    <3>1. verdict' = "error" /\ errors' = {FirstOf(BadRoles)}
      BY <1>7, <2>5 DEF Expand
    <3>2. QED
      BY <2>2, <2>3, <2>5, <3>1 DEF ReasonForVerdict, FirstOf
  <2>6. CASE BadRoles = {} /\ BadPerformances # {}
    <3>1. verdict' = "error" /\ errors' = {FirstOf(BadPerformances)}
      BY <1>7, <2>6 DEF Expand
    <3>2. QED
      BY <2>2, <2>3, <2>6, <3>1 DEF ReasonForVerdict, FirstOf
  <2>7. QED
    BY <2>4, <2>5, <2>6
<1>8. CASE UNCHANGED <<items, next, declVars, verdict, errors, dispatching>>
  <2>1. /\ BadRoles' = BadRoles /\ BadPerformances' = BadPerformances
        /\ ReadAndCounted' = ReadAndCounted /\ AllPerformances' = AllPerformances
        /\ Broken(next)' = Broken(next)
    BY <1>8, SameModule DEF BadRoles, BadPerformances, ReadAndCounted, declVars
  <2>2. QED
    BY <1>1, <1>8, <2>1 DEF ReasonForVerdict, declVars, Dispatches, FirstOf
<1>9. QED
  BY <1>4, <1>5, <1>6, <1>7, <1>8 DEF Next, vars, inputVars, outputVars, ExpandPerformance

LEMMA StepIInv == IInv /\ [Next]_vars => IInv'
BY TypeStep, PartsStep, VerdictStep DEF IInv

-----------------------------------------------------------------------------
(* Theorems                                                                *)

\* ActorDecl::new has sorted the items it read, each to where it belongs.
THEOREM Invariance == Spec => []IInv
<1>1. QED
  BY InitIInv, StepIInv, PTL DEF Spec

\* The variables have their types and the parts of a declaration do not overlap.
THEOREM TypeCorrect == Spec => []TypeOK
<1>1. IInv => TypeOK
  BY DEF IInv
<1>2. QED
  BY <1>1, Invariance, PTL

\* Once a declaration was read to its end, its parts are those of the module.
LEMMA ReadToTheEnd ==
  ASSUME IInv, next > Len(items)
  PROVE  /\ performances = AllPerformances
         /\ data_items = AllOf("data")
         /\ misc = Others
         /\ LastHook(exit, "stop") /\ LastHook(panic, "catch")
         /\ \A S \in SUBSET Indices : ReadOf(S) = S
<1>1. Indices = 1..Len(items) /\ Len(items) \in Nat /\ next \in Nat
  BY Numbering DEF IInv, TypeOK
<1>2. ASSUME NEW S \in SUBSET Indices PROVE ReadOf(S) = S
  <2>1. \A i \in S : i < next
    BY <1>1
  <2>2. QED
    BY <2>1 DEF ReadOf
<1>3. AllPerformances \in SUBSET Indices /\ AllOf("data") \in SUBSET Indices
      /\ Others \in SUBSET Indices
  BY DEF AllPerformances, AllOf, Others
<1>4. QED
  BY <1>2, <1>3 DEF IInv, PartsOfTheModule, Others

\* What the parts give away of the whole module, once it was read to its end.
LEMMA PartsTellAll ==
  ASSUME IInv, next > Len(items)
  PROVE  /\ {i \in AllPerformances : Broken(i)} = {}
         /\ BadRoles = {i \in AllPerformances : items[i].impl.canonical /\ items[i].impl.extended}
         /\ BadPerformances = {i \in AllPerformances : Unsendable(items[i].impl)}
         /\ IsFiniteSet(data_items) /\ Cardinality(data_items) \in Nat
         /\ data_items = AllOf("data") /\ performances = AllPerformances
<1>1. performances = AllPerformances /\ data_items = AllOf("data")
  BY ReadToTheEnd
<1>2. data_items \in SUBSET Indices
  BY <1>1 DEF AllOf
<1>3. IsFiniteSet(data_items) /\ Cardinality(data_items) \in Nat
  BY <1>2, Numbering DEF IInv, TypeOK
<1>4. QED
  BY <1>1, <1>3 DEF IInv, PartsOfTheModule, BadRoles, BadPerformances

\* The first performance that cannot be read is the one that ended the reading.
LEMMA FirstBroken ==
  ASSUME IInv, next \in AllPerformances, Broken(next)
  PROVE  LET unread == {i \in AllPerformances : Broken(i)}
         IN  unread # {} /\ FirstOf(unread) = next
<1> DEFINE unread == {i \in AllPerformances : Broken(i)}
<1>1. /\ items \in Seq(Items) /\ Indices = 1..Len(items) /\ Len(items) \in Nat
      /\ next \in Nat
  BY Numbering DEF IInv, TypeOK
<1>2. unread \in SUBSET Indices
  BY DEF AllPerformances
<1>3. ASSUME NEW j \in unread PROVE next <= j
  <2>1. j \notin ReadOf(AllPerformances) /\ j \in AllPerformances
    BY <1>3 DEF IInv, PartsOfTheModule
  <2>2. ~(j < next) /\ j \in Nat
    BY <1>1, <2>1 DEF ReadOf, AllPerformances
  <2>3. QED
    BY <1>1, <2>2
<1>4. next \in unread
  OBVIOUS
<1>5. next = FirstOf(unread)
  <2> HIDE DEF unread
  <2>1. QED
    BY <1>1, <1>2, <1>3, <1>4, FirstItem
<1>6. QED
  BY <1>4, <1>5

\* What the macro says in the end is what the whole module calls for: the errors of
\* reading, counting and expanding come one by one but never out of order
\* (ActorDecl::new and ActorOutput::new).
THEOREM VerdictFits == Spec => []VerdictFitsModule
<1>1. ASSUME IInv, verdict \in Final, next \in AllPerformances, Broken(next),
             \/ /\ verdict = "error" /\ errors = {next} /\ items[next].impl.trait # "none"
             \/ /\ verdict = "abort" /\ errors = {} /\ items[next].impl.trait = "none"
      PROVE  VerdictFitsModule
  <2> DEFINE unread == {i \in AllPerformances : Broken(i)}
  <2>1. unread # {} /\ FirstOf(unread) = next
    BY <1>1, FirstBroken
  <2>2. Answer = IF items[next].impl.trait = "none" THEN [verdict |-> "abort", errors |-> {}]
                 ELSE [verdict |-> "error", errors |-> {next}]
    BY <2>1 DEF Answer
  <2>3. QED
    BY <1>1, <2>2 DEF VerdictFitsModule
<1>2. ASSUME IInv, next > Len(items), NEW n, n = Cardinality(data_items),
             \/ verdict = "expanded" /\ errors = {} /\ n = 1 /\ performances # {}
                  /\ BadRoles = {} /\ BadPerformances = {}
             \/ verdict = "error" /\ n > 1 /\ errors = data_items
             \/ verdict = "error" /\ ~(n > 1) /\ (n # 1 \/ performances = {}) /\ errors = {0}
             \/ verdict = "error" /\ n = 1 /\ performances # {} /\ BadRoles # {}
                  /\ errors = {FirstOf(BadRoles)}
             \/ verdict = "error" /\ n = 1 /\ performances # {} /\ BadRoles = {}
                  /\ BadPerformances # {} /\ errors = {FirstOf(BadPerformances)}
      PROVE  VerdictFitsModule
  <2>1. /\ {i \in AllPerformances : Broken(i)} = {}
        /\ BadRoles = {i \in AllPerformances : items[i].impl.canonical /\ items[i].impl.extended}
        /\ BadPerformances = {i \in AllPerformances : Unsendable(items[i].impl)}
        /\ IsFiniteSet(data_items) /\ n \in Nat
        /\ data_items = AllOf("data") /\ performances = AllPerformances
    BY <1>2, PartsTellAll
  <2>2. n = 0 <=> data_items = {}
    BY <1>2, <2>1, FS_EmptySet
  <2>3. Answer =
          IF n > 1 THEN [verdict |-> "error", errors |-> data_items]
          ELSE IF n = 0 \/ performances = {} THEN [verdict |-> "error", errors |-> {0}]
          ELSE IF BadRoles # {} THEN [verdict |-> "error", errors |-> {FirstOf(BadRoles)}]
          ELSE IF BadPerformances # {}
               THEN [verdict |-> "error", errors |-> {FirstOf(BadPerformances)}]
          ELSE [verdict |-> "expanded", errors |-> {}]
    BY <1>2, <2>1, <2>2 DEF Answer
  <2>4. n > 1 \/ n = 1 \/ n = 0
    BY <2>1
  <2>5. ~(1 > 1) /\ 1 # 0 /\ ~(0 > 1)
    OBVIOUS
  <2>6. QED
    BY <1>2, <2>3, <2>4, <2>5 DEF VerdictFitsModule
<1>3. ASSUME IInv, verdict \in Final PROVE VerdictFitsModule
  <2>1. CASE verdict = "abort"
    <3>1. next \in AllPerformances /\ items[next].impl.trait = "none" /\ errors = {}
      BY <1>3, <2>1 DEF IInv, ReasonForVerdict
    <3>2. QED
      BY <1>1, <1>3, <2>1, <3>1 DEF Broken
  <2>2. CASE verdict = "expanded"
    BY <1>2, <1>3, <2>2 DEF IInv, ReasonForVerdict, ReadAndCounted
  <2>3. CASE verdict = "error"
    BY <1>1, <1>2, <1>3, <2>3 DEF IInv, ReasonForVerdict, ReadAndCounted
  <2>4. QED
    BY <1>3, <2>1, <2>2, <2>3 DEF Final
<1>4. IInv => VerdictFitsModule
  BY <1>3 DEF VerdictFitsModule
<1>5. QED
  BY <1>4, Invariance, PTL

\* Every item of an accepted module is in one part of the output, or a later hook of
\* its name took its place (HandlerFunctions::add).
THEOREM NothingLost == Spec => []NothingIsLost
<1>1. ASSUME IInv, verdict = "expanded", NEW i \in Indices
      PROVE  \/ i \in {exit, panic}
             \/ Sort(i) \in {"stop", "catch"} /\ \E j \in {exit, panic} : j > i /\ Sort(j) = Sort(i)
             \/ Cardinality({part \in {performances, data_items, misc} : i \in part}) = 1
  <2>1. next > Len(items) /\ TypeOK
    BY <1>1 DEF IInv, ReasonForVerdict, ReadAndCounted
  <2>2. /\ performances = AllPerformances /\ data_items = AllOf("data") /\ misc = Others
        /\ LastHook(exit, "stop") /\ LastHook(panic, "catch")
        /\ \A S \in SUBSET Indices : ReadOf(S) = S
    BY <1>1, <2>1, ReadToTheEnd
  <2>3. /\ Sort(i) \in {"impl", "stop", "catch", "fn", "data", "other"}
        /\ i \in Others <=> Sort(i) \notin {"stop", "catch", "data"} /\ ~IsPerformance(i)
        /\ i \in AllPerformances <=> IsPerformance(i)
        /\ \A sort : i \in AllOf(sort) <=> Sort(i) = sort
        /\ IsPerformance(i) => Sort(i) = "impl"
    BY <2>1, Kinds
  <2>4. ASSUME NEW h \in {exit, panic}, NEW sort, LastHook(h, sort), Sort(i) = sort, i # h
        PROVE  h > i /\ Sort(h) = sort
    <3>1. AllOf(sort) \in SUBSET Indices
      BY DEF AllOf
    <3>2. ReadOf(AllOf(sort)) = AllOf(sort)
      BY <2>2, <3>1
    <3>3. Indices = 1..Len(items) /\ Len(items) \in Nat
      BY <2>1, Numbering DEF TypeOK
    <3>4. i <= h /\ h \in Indices \cup {0}
      BY <2>1, <2>3, <2>4, <3>2 DEF LastHook, TypeOK
    <3>5. h # 0
      BY <3>3, <3>4
    <3>6. QED
      BY <2>4, <3>2, <3>3, <3>4, <3>5 DEF LastHook, AllOf
  <2>5. CASE Sort(i) = "stop"
    BY <2>2, <2>4, <2>5
  <2>6. CASE Sort(i) = "catch"
    BY <2>2, <2>4, <2>6
  <2>7. CASE Sort(i) \notin {"stop", "catch"}
    <3>1. PICK part \in {performances, data_items, misc} :
            /\ i \in part
            /\ \A other \in {performances, data_items, misc} : i \in other => other = part
      BY <2>2, <2>3, <2>7
    <3>2. {p \in {performances, data_items, misc} : i \in p} = {part}
      BY <3>1
    <3>3. QED
      BY <3>2, FS_Singleton
  <2>8. QED
    BY <2>5, <2>6, <2>7
<1>2. IInv => NothingIsLost
  BY <1>1 DEF NothingIsLost
<1>3. QED
  BY <1>2, Invariance, PTL

\* A performance whose body is elsewhere gets one dispatch function, from either
\* expansion (PerfDispatch::new and make_performance).
THEOREM SplitFits == Spec => []SplitPerformancesFit
<1>1. ASSUME IInv, verdict = "expanded", outside = accepted, NEW r \in RoleNames,
             NEW i \in Indices, Inside(r) = {i},
             IF items[i].impl.methods = <<>>
             THEN \E b \in outside : Outside(r) = {b}
             ELSE Outside(r) = {}
      PROVE  Cardinality(dispatching \cap Inside(r)) + Cardinality(accepted \cap Outside(r)) = 1
  <2>1. next > Len(items) /\ dispatching = {j \in performances : Dispatches(items[j].impl)}
    BY <1>1 DEF IInv, ReasonForVerdict, ReadAndCounted
  <2>2. i \in performances
    BY <1>1, <2>1, ReadToTheEnd DEF Inside
  <2>3. accepted \cap Outside(r) = Outside(r)
    BY <1>1 DEF Outside
  <2>4. CASE items[i].impl.methods = <<>>
    <3>1. dispatching \cap Inside(r) = {}
      BY <1>1, <2>1, <2>4 DEF Dispatches
    <3>2. PICK b : Outside(r) = {b}
      BY <1>1, <2>4
    <3>3. Cardinality({}) = 0 /\ Cardinality({b}) = 1
      BY FS_EmptySet, FS_Singleton
    <3>4. QED
      BY <2>3, <3>1, <3>2, <3>3
  <2>5. CASE items[i].impl.methods # <<>>
    <3>1. dispatching \cap Inside(r) = {i}
      BY <1>1, <2>1, <2>2, <2>5 DEF Dispatches
    <3>2. accepted \cap Outside(r) = {}
      BY <1>1, <2>3, <2>5
    <3>3. Cardinality({}) = 0 /\ Cardinality({i}) = 1
      BY FS_EmptySet, FS_Singleton
    <3>4. QED
      BY <3>1, <3>2, <3>3
  <2>6. QED
    BY <2>4, <2>5
<1>2. IInv => SplitPerformancesFit
  BY <1>1 DEF SplitPerformancesFit
<1>3. QED
  BY <1>2, Invariance, PTL
=============================================================================
