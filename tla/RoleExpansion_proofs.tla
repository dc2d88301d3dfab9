------------------------ MODULE RoleExpansion_proofs ------------------------
(***************************************************************************)
(* Proofs about RoleExpansion for any roles, names, parameter lists and    *)
(* return types: what the macros forget and reconstruct of a signature on  *)
(* either side fits together once rustc has accepted the names.            *)
(***************************************************************************)
EXTENDS RoleExpansion, SequenceTheorems, FiniteSetTheorems, TLAPS

-----------------------------------------------------------------------------
(* Signatures                                                              *)

\* A Context put in front of a parameter list is recognised and taken away again.
LEMMA ContextInFront ==
  ASSUME NEW types \in ParamLists
  PROVE  LET lent == <<ContextRef>> \o types
         IN  /\ lent # <<>> /\ Head(lent) = ContextRef /\ Tail(lent) = types
             /\ Len(lent) = Len(types) + 1 /\ Len(types) \in Nat
             /\ lent # types
<1> DEFINE S == {types[k] : k \in DOMAIN types} \cup {ContextRef}
           lent == <<ContextRef>> \o types
<1>1. types \in Seq(S)
  BY ParamsAssumption, SeqMonotonic
<1>2. <<ContextRef>> \in Seq(S) /\ Len(<<ContextRef>>) = 1 /\ Len(types) \in Nat
  BY <1>1, LenProperties
<1> HIDE DEF S
<1>3. /\ lent \in Seq(S) /\ Len(lent) = Len(types) + 1
      /\ \A i \in 1..(Len(types) + 1) :
           lent[i] = IF i <= 1 THEN ContextRef ELSE types[i - 1]
  BY <1>1, <1>2, ConcatProperties
<1> HIDE DEF lent
<1>4. lent # <<>> /\ lent # types
  BY <1>2, <1>3
<1>5. Head(lent) = ContextRef
  BY <1>2, <1>3, <1>4
<1>6. /\ Tail(lent) \in Seq(S) /\ Len(Tail(lent)) = Len(types)
      /\ \A i \in 1..Len(types) : Tail(lent)[i] = types[i]
  BY <1>2, <1>3, <1>4, HeadTailProperties
<1>7. Tail(lent) = types
  BY <1>1, <1>6, SeqEqual
<1>8. QED
  BY <1>2, <1>3, <1>4, <1>5, <1>7 DEF lent

\* What the macros make of a method that is written without and with a Context.
LEMMA PlainMethod ==
  ASSUME NEW sig \in Signatures
  PROVE  /\ ~HasContext(sig) /\ RemoveContext(sig) = sig
         /\ Written(sig) = sig.params
<1>1. sig.params \in ParamLists
  BY DEF Signatures
<1>2. sig.params # <<>> => Head(sig.params).name # "&"
  BY <1>1, ParamsAssumption
<1>3. ContextRef.name = "&"
  BY DEF ContextRef, Reference
<1>4. QED
  BY <1>2, <1>3 DEF HasContext, RemoveContext, Written

LEMMA NewParams ==
  ASSUME NEW N, NEW P, NEW R, NEW sig \in [name : N, params : P, ret : R], NEW new
  PROVE  /\ [sig EXCEPT !.params = new] = [name |-> sig.name, params |-> new, ret |-> sig.ret]
         /\ sig = [name |-> sig.name, params |-> sig.params, ret |-> sig.ret]
  OBVIOUS

LEMMA LentMethod ==
  ASSUME NEW sig \in Signatures
  PROVE  LET h == WithContext(sig)
         IN  /\ h.name = sig.name /\ h.ret = sig.ret
             /\ HasContext(h) /\ RemoveContext(h) = sig
             /\ Written(h) = sig.params /\ h.params # sig.params
             /\ Len(h.params) = Len(sig.params) + 1
<1> DEFINE h == WithContext(sig)
           lent == <<ContextRef>> \o sig.params
<1>1. sig.params \in ParamLists /\ sig = [name |-> sig.name, params |-> sig.params, ret |-> sig.ret]
  BY DEF Signatures
<1>2. h = [name |-> sig.name, params |-> lent, ret |-> sig.ret]
  <2>1. sig \in [name : Idents, params : ParamLists, ret : Returns]
    BY DEF Signatures
  <2>2. [sig EXCEPT !.params = lent] = [name |-> sig.name, params |-> lent, ret |-> sig.ret]
    <3> HIDE DEF lent
    <3>1. QED
      BY <2>1, NewParams
  <2>3. QED
    BY <2>2, Zenon DEF WithContext
<1>3. /\ lent # <<>> /\ Head(lent) = ContextRef /\ Tail(lent) = sig.params
      /\ Len(lent) = Len(sig.params) + 1 /\ lent # sig.params
  BY <1>1, ContextInFront
<1> HIDE DEF lent
<1>4. ContextRef.name = "&"
  BY DEF ContextRef, Reference
<1>5. HasContext(h) /\ Written(h) = sig.params
  BY <1>2, <1>3, <1>4 DEF HasContext, Written
<1>6. RemoveContext(h) = sig
  <2>1. RemoveContext(h) = [h EXCEPT !.params = Tail(h.params)]
    BY <1>5 DEF RemoveContext
  <2>2. Tail(h.params) = sig.params
    BY <1>2, <1>3
  <2>3. [h EXCEPT !.params = sig.params] = sig
    <3>1. h \in [name : {sig.name}, params : {lent}, ret : {sig.ret}]
      BY <1>2
    <3>2. h.name = sig.name /\ h.ret = sig.ret
      BY <1>2
    <3>3. [h EXCEPT !.params = sig.params]
            = [name |-> sig.name, params |-> sig.params, ret |-> sig.ret]
      BY <3>1, <3>2, NewParams
    <3>4. QED
      BY <3>3, <1>1
  <2>4. QED
    BY <2>1, <2>2, <2>3
<1>7. QED
  BY <1>2, <1>3, <1>5, <1>6

\* Both cases at once: the plain method of a handler has the name, the return type
\* and the parameters it was written with.
LEMMA MethodShape ==
  ASSUME NEW h \in Methods
  PROVE  /\ RemoveContext(h) \in Signatures
         /\ RemoveContext(h).name = h.name /\ RemoveContext(h).ret = h.ret
         /\ RemoveContext(h).params = Written(h)
         /\ Written(h) \in ParamLists /\ Len(Written(h)) \in Nat
         /\ HasContext(h) <=> Written(h) # h.params
         /\ Len(h.params) = IF HasContext(h) THEN Len(Written(h)) + 1 ELSE Len(Written(h))
<1>1. \A types \in ParamLists : Len(types) \in Nat
  BY ContextInFront
<1>2. CASE h \in Signatures
  <2>1. h.params \in ParamLists
    BY <1>2 DEF Signatures
  <2>2. QED
    BY <1>1, <1>2, <2>1, PlainMethod
<1>3. ASSUME NEW sig \in Signatures, h = WithContext(sig)
      PROVE  /\ RemoveContext(h) \in Signatures
             /\ RemoveContext(h).name = h.name /\ RemoveContext(h).ret = h.ret
             /\ RemoveContext(h).params = Written(h)
             /\ Written(h) \in ParamLists /\ Len(Written(h)) \in Nat
             /\ HasContext(h) <=> Written(h) # h.params
             /\ Len(h.params) = IF HasContext(h) THEN Len(Written(h)) + 1 ELSE Len(Written(h))
  <2>1. sig.params \in ParamLists
    BY DEF Signatures
  <2>2. QED
    BY <1>1, <1>3, <2>1, LentMethod
<1>4. QED
  BY <1>2, <1>3 DEF Methods

\* The methods of a role, on either side.
LEMMA MethodsOf ==
  ASSUME TypeOK, SameMethods, NEW r \in RoleNames
  PROVE  /\ DOMAIN handlers[r] = 1..Len(handlers[r]) /\ Len(handlers[r]) \in Nat
         /\ DOMAIN traits[r] = DOMAIN handlers[r]
         /\ \A i \in DOMAIN handlers[r] :
              /\ handlers[r][i] \in Methods /\ traits[r][i] \in Methods
              /\ traits[r][i].name = handlers[r][i].name
              /\ traits[r][i].ret = handlers[r][i].ret
              /\ RemoveContext(traits[r][i]).params = Written(handlers[r][i])
<1>1. handlers[r] \in Seq(Methods) /\ traits[r] \in Seq(Methods)
  BY DEF TypeOK
<1>2. /\ DOMAIN handlers[r] = 1..Len(handlers[r]) /\ Len(handlers[r]) \in Nat
      /\ DOMAIN traits[r] = 1..Len(traits[r])
  BY <1>1, LenProperties
<1>3. DOMAIN traits[r] = DOMAIN handlers[r]
  BY DEF SameMethods
<1>4. ASSUME NEW i \in DOMAIN handlers[r]
      PROVE  /\ handlers[r][i] \in Methods /\ traits[r][i] \in Methods
             /\ traits[r][i].name = handlers[r][i].name
             /\ traits[r][i].ret = handlers[r][i].ret
             /\ RemoveContext(traits[r][i]).params = Written(handlers[r][i])
  <2>1. handlers[r][i] \in Methods /\ traits[r][i] \in Methods
    BY <1>1, <1>2, <1>3, ElementOfSeq
  <2>2. RemoveContext(traits[r][i]) = RemoveContext(handlers[r][i])
    BY DEF SameMethods
  <2>3. QED
    BY <2>1, <2>2, MethodShape
<1>5. QED
  BY <1>2, <1>3, <1>4

-----------------------------------------------------------------------------
(* Names                                                                   *)

\* A role with a method is one whose performance is expanded.
LEMMA RoleExpanded ==
  ASSUME TypeOK, SameMethods, NEW r \in RoleNames, NEW i \in DOMAIN handlers[r]
  PROVE  r \in Expanded
<1>1. Len(<<>>) = 0 /\ DOMAIN handlers[r] = 1..Len(handlers[r])
  BY MethodsOf, EmptySeq
<1>2. handlers[r] # <<>>
  BY <1>1
<1>3. QED
  BY <1>2 DEF Expanded

\* rustc accepts two variants of one name in no enum: a variant tells the method.
LEMMA VariantTells ==
  ASSUME TypeOK, SameMethods, NamesDistinct, NEW r \in RoleNames,
         NEW i \in DOMAIN handlers[r], NEW j \in DOMAIN handlers[r],
         VariantName(handlers[r][i]) = VariantName(handlers[r][j])
  PROVE  i = j
<1>1. r \in Expanded
  BY RoleExpanded
<1>2. i \in DOMAIN traits[r] /\ j \in DOMAIN traits[r]
  BY MethodsOf
<1>3. VariantName(traits[r][i]) = VariantName(traits[r][j])
  BY MethodsOf DEF VariantName
<1> DEFINE names == [k \in DOMAIN traits[r] |-> VariantName(traits[r][k])]
<1>4. Distinct(names)
  BY <1>1 DEF NamesDistinct
<1>5. QED
  BY <1>2, <1>3, <1>4 DEF Distinct

\* Nor does it accept two methods of one name: a renamed method tells its origin.
LEMMA RenamedTells ==
  ASSUME TypeOK, SameMethods, NamesDistinct, NEW r \in RoleNames,
         NEW i \in DOMAIN handlers[r], NEW s \in DOMAIN InherentMethods,
         InherentMethods[s] = RenamedMethod(r, handlers[r][i])
  PROVE  s[1] = r /\ s[2] = i
<1> DEFINE places == UNION {{q} \X DOMAIN handlers[q] : q \in Expanded}
<1>1. i # 0
  BY MethodsOf
<1>2. r \in Expanded
  BY RoleExpanded
<1>3. <<r, i>> \in places
  BY <1>2
<1>4. DOMAIN InherentMethods = places \cup (Expanded \X {0})
  BY DEF InherentMethods
<1>5. InherentMethods[<<r, i>>] = RenamedMethod(r, handlers[r][i])
  BY <1>1, <1>3 DEF InherentMethods
<1>6. s = <<r, i>>
  BY <1>3, <1>4, <1>5 DEF NamesDistinct, Distinct
<1>7. QED
  BY <1>6

\* Accepts is implemented for the parameter lists that belong to one method.
LEMMA AcceptsAlone ==
  ASSUME TypeOK, SameMethods, NEW r \in RoleNames
  PROVE  AcceptsImpls(r) = {[types |-> Written(handlers[r][i]),
                             variant |-> VariantName(handlers[r][i])] : i \in Alone(r)}
<1> DEFINE sigs == RoleSignatures(r)
<1>1. /\ DOMAIN sigs = DOMAIN handlers[r]
      /\ \A i \in DOMAIN handlers[r] :
           /\ sigs[i].params = Written(handlers[r][i])
           /\ VariantName(sigs[i]) = VariantName(handlers[r][i])
  BY MethodsOf, MethodShape DEF RoleSignatures, VariantName
<1>2. AcceptsImpls(r) = AcceptsOf(sigs)
  BY DEF AcceptsImpls
<1> HIDE DEF sigs
<1>3. {i \in DOMAIN sigs : sigs[i].params # <<>> /\ Group(sigs, sigs[i].params) = {i}} = Alone(r)
  <2>1. ASSUME NEW i \in DOMAIN handlers[r]
        PROVE  Group(sigs, sigs[i].params) = {i}
                 <=> \A j \in DOMAIN handlers[r] :
                       Written(handlers[r][j]) = Written(handlers[r][i]) => j = i
    <3>1. Group(sigs, sigs[i].params)
            = {j \in DOMAIN handlers[r] : Written(handlers[r][j]) = Written(handlers[r][i])}
      BY <1>1 DEF Group
    <3>2. QED
      BY <3>1
  <2>2. QED
    BY <1>1, <2>1 DEF Alone
<1>4. AcceptsOf(sigs) = {[types |-> sigs[i].params, variant |-> VariantName(sigs[i])] : i \in Alone(r)}
  BY <1>3 DEF AcceptsOf
<1>5. Alone(r) \subseteq DOMAIN handlers[r]
  BY DEF Alone
<1>6. QED
  BY <1>1, <1>2, <1>4, <1>5

LEMMA AcceptsTells ==
  ASSUME TypeOK, SameMethods, NEW r \in RoleNames, NEW impl \in AcceptsImpls(r)
  PROVE  \E j \in Alone(r) :
           /\ j \in DOMAIN handlers[r]
           /\ impl.types = Written(handlers[r][j])
           /\ impl.variant = VariantName(handlers[r][j])
           /\ \A k \in DOMAIN handlers[r] :
                Written(handlers[r][k]) = Written(handlers[r][j]) => k = j
<1>1. PICK j \in Alone(r) : impl = [types |-> Written(handlers[r][j]),
                                    variant |-> VariantName(handlers[r][j])]
  BY AcceptsAlone
<1>2. QED
  BY <1>1 DEF Alone

\* A dispatch arm binds as many fields as the payload has: none is cut off.
LEMMA AllArguments ==
  ASSUME NEW types \in ParamLists
  PROVE  SubSeq(Values(types), 1, Len(types)) = Values(types)
<1> DEFINE T == {types[k] : k \in DOMAIN types}
           S == {Values(types)[k] : k \in DOMAIN types}
<1>1. DOMAIN types = 1..Len(types) /\ Len(types) \in Nat
  <2>1. types \in Seq(T)
    BY ParamsAssumption
  <2> HIDE DEF T
  <2>2. QED
    BY <2>1, LenProperties
<1>2. Values(types) = [k \in 1..Len(types) |-> [position |-> k, type |-> types[k]]]
  BY <1>1 DEF Values
<1>3. Values(types) \in Seq(S) /\ Len(Values(types)) = Len(types)
  BY <1>1, <1>2
<1> HIDE DEF S
<1>4. QED
  BY <1>3, SubSeqFull

-----------------------------------------------------------------------------
(* The invariant                                                           *)

\* What rustc accepts depends on nothing but what is declared.
LEMMA VerdictStays ==
  ASSUME traits' = traits, handlers' = handlers
  PROVE  NamesDistinct /\ ImplsDistinct => NamesDistinct' /\ ImplsDistinct'
<1>1. Expanded' = Expanded
  BY DEF Expanded
<1>2. InherentMethods' = InherentMethods
  BY <1>1 DEF InherentMethods
<1>3. NamesDistinct => NamesDistinct'
  BY <1>1, <1>2, Zenon DEF NamesDistinct
<1>4. \A r : AcceptsImpls(r)' = AcceptsImpls(r)
  <2>1. \A r : RoleSignatures(r)' = RoleSignatures(r)
    BY DEF RoleSignatures
  <2>2. QED
    BY <2>1 DEF AcceptsImpls, AcceptsOf, Group
<1>5. ImplsDistinct => ImplsDistinct'
  BY <1>1, <1>4, Zenon DEF ImplsDistinct
<1>6. QED
  BY <1>3, <1>5

\* What is declared does not change once it has compiled.
LEMMA DeclarationsStay ==
  ASSUME SameMethods, NamedOnce, CompiledInv, phase' = phase,
         traits' = traits, handlers' = handlers
  PROVE  SameMethods' /\ NamedOnce' /\ CompiledInv'
BY VerdictStays DEF SameMethods, NamedOnce, CompiledInv

LEMMA InitInv == Init => IInv
<1> SUFFICES ASSUME Init PROVE IInv
  OBVIOUS
<1>1. TypeOK
  BY DEF Init, TypeOK
<1>2. SameMethods
  <2>1. DOMAIN <<>> = {}
    BY EmptySeq, LenProperties
  <2>2. QED
    BY <2>1 DEF Init, SameMethods
<1>3. NamedOnce
  <2>1. DOMAIN <<>> = {}
    BY EmptySeq, LenProperties
  <2>2. QED
    BY <2>1 DEF Init, NamedOnce
<1>4. CompiledInv /\ RequestInv /\ CallerGetsItsReturn
  BY DEF Init, CompiledInv, RequestInv, CallerGetsItsReturn
<1>5. QED
  BY <1>1, <1>2, <1>3, <1>4 DEF IInv

\* The two sides grow by the same method, each with or without its Context.
LEMMA AddMethodInv ==
  ASSUME IInv, NEW r \in RoleNames, NEW sig \in Signatures,
         NEW lent \in BOOLEAN, NEW inTrait \in BOOLEAN,
         AddMethod(r, sig, lent, inTrait)
  PROVE  IInv'
<1> DEFINE ofHandler == IF lent THEN WithContext(sig) ELSE sig
           ofTrait == IF inTrait THEN WithContext(sig) ELSE sig
<1>1. /\ ofHandler \in Methods /\ ofTrait \in Methods
      /\ RemoveContext(ofHandler) = sig /\ RemoveContext(ofTrait) = sig
      /\ ofHandler.name = sig.name
  BY PlainMethod, LentMethod DEF Methods
<1>2. /\ phase = "declaring" /\ phase' = phase /\ canonical' = canonical
      /\ handlers' = [handlers EXCEPT ![r] = Append(@, ofHandler)]
      /\ traits' = [traits EXCEPT ![r] = Append(@, ofTrait)]
      /\ UNCHANGED <<message, request, ran, answer>>
  BY DEF AddMethod
<1> HIDE DEF ofHandler, ofTrait
<1>3. request = None /\ message = None /\ ran = None /\ answer = None
  BY <1>2 DEF IInv, RequestInv
<1>4. /\ TypeOK /\ SameMethods
      /\ handlers \in [RoleNames -> Seq(Methods)] /\ traits \in [RoleNames -> Seq(Methods)]
  BY DEF IInv, TypeOK
<1>5. /\ handlers' \in [RoleNames -> Seq(Methods)] /\ traits' \in [RoleNames -> Seq(Methods)]
  BY <1>1, <1>2, <1>4, AppendProperties
<1>6. TypeOK'
  BY <1>2, <1>3, <1>4, <1>5 DEF TypeOK
<1>7. SameMethods'
  <2> SUFFICES ASSUME NEW q \in RoleNames
               PROVE  /\ DOMAIN traits'[q] = DOMAIN handlers'[q]
                      /\ \A i \in DOMAIN handlers'[q] :
                           RemoveContext(traits'[q][i]) = RemoveContext(handlers'[q][i])
    BY DEF SameMethods
  <2>1. CASE q # r
    BY <1>2, <1>4, <2>1 DEF SameMethods
  <2>2. CASE q = r
    <3> DEFINE n == Len(handlers[r])
    <3>1. /\ handlers[r] \in Seq(Methods) /\ traits[r] \in Seq(Methods)
          /\ handlers'[r] = Append(handlers[r], ofHandler)
          /\ traits'[r] = Append(traits[r], ofTrait)
      BY <1>2, <1>4
    <3>2. /\ DOMAIN handlers[r] = 1..n /\ n \in Nat
          /\ DOMAIN traits[r] = 1..n /\ Len(traits[r]) \in Nat
          /\ DOMAIN traits[r] = 1..Len(traits[r])
      BY <1>4, <3>1, LenProperties DEF SameMethods
    <3> HIDE DEF n
    <3>3. Len(traits[r]) = n
      BY <3>2
    <3>4. /\ Len(handlers'[r]) = n + 1 /\ DOMAIN handlers'[r] = 1..(n + 1)
          /\ \A i \in 1..n : handlers'[r][i] = handlers[r][i]
          /\ handlers'[r][n + 1] = ofHandler
      BY <1>1, <3>1, AppendProperties DEF n
    <3>5. /\ Len(traits'[r]) = n + 1 /\ DOMAIN traits'[r] = 1..(n + 1)
          /\ \A i \in 1..n : traits'[r][i] = traits[r][i]
          /\ traits'[r][n + 1] = ofTrait
      BY <1>1, <3>1, <3>3, AppendProperties
    <3>6. ASSUME NEW i \in 1..(n + 1)
          PROVE  RemoveContext(traits'[r][i]) = RemoveContext(handlers'[r][i])
      <4>1. CASE i = n + 1
        BY <1>1, <3>4, <3>5, <4>1
      <4>2. CASE i # n + 1
        <5>1. i \in 1..n
          BY <3>2, <4>2
        <5>2. RemoveContext(traits[r][i]) = RemoveContext(handlers[r][i])
          BY <1>4, <3>2, <5>1 DEF SameMethods
        <5>3. QED
          BY <3>4, <3>5, <5>1, <5>2
      <4>3. QED
        BY <4>1, <4>2
    <3>7. QED
      BY <2>2, <3>4, <3>5, <3>6
  <2>3. QED
    BY <2>1, <2>2
<1>8. NamedOnce'
  <2> SUFFICES ASSUME NEW q \in RoleNames, NEW i \in DOMAIN handlers'[q],
                      NEW j \in DOMAIN handlers'[q],
                      handlers'[q][i].name = handlers'[q][j].name
               PROVE  i = j
    BY DEF NamedOnce
  <2>1. CASE q # r
    <3>1. handlers'[q] = handlers[q]
      BY <1>2, <1>4, <2>1
    <3>2. QED
      BY <3>1 DEF IInv, NamedOnce
  <2>2. CASE q = r
    <3> DEFINE n == Len(handlers[r])
    <3>1. handlers[r] \in Seq(Methods) /\ handlers'[r] = Append(handlers[r], ofHandler)
      BY <1>2, <1>4
    <3>2. /\ DOMAIN handlers[r] = 1..n /\ n \in Nat
          /\ DOMAIN handlers'[r] = 1..(n + 1)
          /\ \A k \in 1..n : handlers'[r][k] = handlers[r][k]
          /\ handlers'[r][n + 1] = ofHandler
      BY <1>1, <3>1, AppendProperties, LenProperties
    <3>3. /\ \A k \in 1..n : handlers[r][k].name # sig.name
          /\ \A k, l \in 1..n : handlers[r][k].name = handlers[r][l].name => k = l
      BY <3>2 DEF AddMethod, IInv, NamedOnce
    <3> HIDE DEF n
    <3>4. i \in 1..(n + 1) /\ j \in 1..(n + 1)
      BY <2>2, <3>2
    <3>5. QED
      BY <1>1, <2>2, <3>2, <3>3, <3>4
  <2>3. QED
    BY <2>1, <2>2
<1>9. CompiledInv'
  BY <1>2 DEF CompiledInv
<1>10. RequestInv' /\ CallerGetsItsReturn'
  BY <1>2, <1>3 DEF RequestInv, CallerGetsItsReturn, None
<1>11. QED
  BY <1>6, <1>7, <1>8, <1>9, <1>10 DEF IInv

LEMMA CompileInv ==
  ASSUME IInv, Compile
  PROVE  IInv'
<1>1. /\ phase = "declaring" /\ phase' \in {"running", "rejected"}
      /\ phase' = "running" => NamesDistinct /\ ImplsDistinct
      /\ UNCHANGED <<canonical, traits, handlers, message, request, ran, answer>>
  BY DEF Compile, Compiles
<1>2. request = None /\ message = None /\ ran = None /\ answer = None
  BY <1>1 DEF IInv, RequestInv
<1>3. TypeOK'
  BY <1>1, <1>2 DEF IInv, TypeOK, Methods
<1>4. SameMethods' /\ NamedOnce'
  BY <1>1 DEF IInv, SameMethods, NamedOnce
<1>5. CompiledInv'
  BY <1>1, VerdictStays DEF CompiledInv
<1>6. RequestInv' /\ CallerGetsItsReturn'
  BY <1>1, <1>2 DEF RequestInv, CallerGetsItsReturn, None
<1>7. QED
  BY <1>3, <1>4, <1>5, <1>6 DEF IInv

\* A call is for the method it names.
LEMMA CallMethodInv ==
  ASSUME IInv, NEW r \in RoleNames, NEW i \in DOMAIN handlers[r], CallMethod(r, i)
  PROVE  IInv'
<1> DEFINE h == handlers[r][i]
           args == Values(ShellMethod(h).params)
<1>1. /\ phase = "running" /\ request = None
      /\ request' = [role |-> r, index |-> i, args |-> args, output |-> h.ret]
      /\ message' = [role |-> r, variant |-> VariantName(h), args |-> args]
      /\ UNCHANGED declVars /\ ran' = ran /\ answer' = answer
  BY DEF CallMethod
<1>2. TypeOK /\ SameMethods /\ ran = None /\ answer = None
  BY <1>1 DEF IInv, RequestInv
<1>3. h \in Methods
  BY <1>2, MethodsOf
<1>4. args = Values(Written(h))
  BY <1>3, MethodShape DEF ShellMethod
<1>5. UNCHANGED <<phase, canonical, traits, handlers>>
  BY <1>1 DEF declVars
<1>6. handlers'[r][i] = h
  BY <1>5
<1> HIDE DEF h, args
<1>7. request' # None /\ message' # None
  BY <1>1 DEF None
<1>8. TypeOK'
  BY <1>1, <1>2, <1>5, <1>7 DEF TypeOK
<1>9. RequestInv'
  <2>1. "index" \in DOMAIN request'
    BY <1>1
  <2>2. IsFor(i)'
    BY <1>1, <1>2, <1>4, <1>6, <2>1 DEF IsFor
  <2>3. QED
    BY <1>1, <1>2, <1>5, <1>7, <2>2 DEF RequestInv
<1>10. CallerGetsItsReturn'
  BY <1>1, <1>2 DEF CallerGetsItsReturn, None
<1>11. SameMethods' /\ NamedOnce' /\ CompiledInv'
  BY <1>1, DeclarationsStay DEF IInv, declVars
<1>12. QED
  BY <1>1, <1>8, <1>9, <1>10, <1>11 DEF IInv

\* A bare value is for the only method that takes it.
LEMMA SendValueInv ==
  ASSUME IInv, NEW r \in RoleNames, NEW impl \in AcceptsImpls(r), SendValue(r, impl)
  PROVE  IInv'
<1> DEFINE args == Values(impl.types)
<1>1. /\ phase = "running" /\ request = None
      /\ request' = [role |-> r, args |-> args]
      /\ message' = [role |-> r, variant |-> impl.variant, args |-> args]
      /\ UNCHANGED declVars /\ ran' = ran /\ answer' = answer
  BY DEF SendValue
<1>2. TypeOK /\ SameMethods /\ ran = None /\ answer = None
  BY <1>1 DEF IInv, RequestInv
<1>3. PICK i \in DOMAIN handlers[r] :
        /\ impl.types = Written(handlers[r][i])
        /\ impl.variant = VariantName(handlers[r][i])
        /\ \A k \in DOMAIN handlers[r] :
             Written(handlers[r][k]) = Written(handlers[r][i]) => k = i
  BY <1>2, AcceptsTells
<1>4. args = Values(Written(handlers[r][i]))
  BY <1>3
<1>5. UNCHANGED <<phase, canonical, traits, handlers>>
  BY <1>1 DEF declVars
<1> HIDE DEF args
<1>6. request' # None /\ message' # None
  BY <1>1 DEF None
<1>7. TypeOK'
  BY <1>1, <1>2, <1>5, <1>6 DEF TypeOK
<1>8. RequestInv'
  <2>1. "index" \notin DOMAIN request'
    BY <1>1
  <2>2. IsFor(i)'
    BY <1>1, <1>2, <1>3, <1>4, <1>5, <2>1 DEF IsFor
  <2>3. QED
    BY <1>1, <1>2, <1>5, <1>6, <2>2 DEF RequestInv
<1>9. CallerGetsItsReturn'
  BY <1>1, <1>2 DEF CallerGetsItsReturn, None
<1>10. SameMethods' /\ NamedOnce' /\ CompiledInv'
  BY <1>1, DeclarationsStay DEF IInv, declVars
<1>11. QED
  BY <1>1, <1>7, <1>8, <1>9, <1>10 DEF IInv

\* The arm that matches calls the method the message is for, because the names
\* that rustc compared tell the methods apart.
LEMMA DispatchInv ==
  ASSUME IInv, Dispatch
  PROVE  IInv'
<1> DEFINE r == request.role
<1>1. /\ TypeOK /\ SameMethods /\ message # None /\ ran = None
      /\ UNCHANGED declVars /\ request' = request /\ answer' = answer
  BY DEF Dispatch, IInv
<1>2. /\ request # None /\ phase = "running" /\ r \in RoleNames
      /\ \E k \in DOMAIN handlers[r] : IsFor(k)
  BY <1>1 DEF IInv, RequestInv, TypeOK
<1>3. NamesDistinct /\ answer = None
  BY <1>1, <1>2 DEF IInv, CompiledInv, TypeOK
<1>4. PICK k \in DOMAIN handlers[r] : IsFor(k)
  BY <1>2
<1> DEFINE h == handlers[r][k]
<1>5. /\ message.role = r /\ message.variant = VariantName(h)
      /\ message.args = request.args /\ request.args = Values(Written(h))
  BY <1>1, <1>4 DEF IsFor
<1>6. PICK i \in DOMAIN handlers[r] :
        /\ Arm(r, handlers[r][i]).variant = message.variant
        /\ \E s \in DOMAIN InherentMethods :
             /\ InherentMethods[s] = Arm(r, handlers[r][i]).method
             /\ ran' = [role |-> s[1], index |-> s[2],
                        context |-> Arm(r, handlers[r][i]).context,
                        args |-> SubSeq(message.args, 1, Arm(r, handlers[r][i]).arity)]
        /\ message' = [role |-> r, variant |-> Arm(r, handlers[r][i]).variant]
  BY <1>5 DEF Dispatch
<1>7. i = k
  <2>1. VariantName(handlers[r][i]) = VariantName(handlers[r][k])
    BY <1>5, <1>6 DEF Arm
  <2>2. QED
    BY <1>1, <1>2, <1>3, <2>1, VariantTells
<1>8. h \in Methods
  BY <1>1, <1>2, MethodsOf
<1>9. Arm(r, h).arity = Len(Written(h))
  BY <1>8, MethodShape DEF Arm
<1>10. PICK s \in DOMAIN InherentMethods :
         /\ InherentMethods[s] = Arm(r, h).method
         /\ ran' = [role |-> s[1], index |-> s[2], context |-> Arm(r, h).context,
                    args |-> SubSeq(message.args, 1, Arm(r, h).arity)]
  BY <1>6, <1>7
<1>11. s[1] = r /\ s[2] = k
  <2>1. InherentMethods[s] = RenamedMethod(r, h)
    BY <1>10 DEF Arm
  <2>2. QED
    BY <1>1, <1>2, <1>3, <2>1, RenamedTells
<1>12. SubSeq(message.args, 1, Arm(r, h).arity) = request.args
  <2>1. Written(h) \in ParamLists
    BY <1>8, MethodShape
  <2>2. QED
    BY <1>5, <1>9, <2>1, AllArguments
<1>13. Arm(r, h).context = HasContext(h) /\ Arm(r, h).variant = VariantName(h)
  BY DEF Arm
<1>14. /\ ran' = [role |-> r, index |-> k, context |-> HasContext(h), args |-> request.args]
       /\ message' = [role |-> r, variant |-> VariantName(h)]
  BY <1>6, <1>7, <1>10, <1>11, <1>12, <1>13
<1>15. UNCHANGED <<phase, canonical, traits, handlers>>
  BY <1>1 DEF declVars
<1>16. ran' # None /\ message' # None
  BY <1>14 DEF None
<1> HIDE DEF h
<1>17. IsFor(k)'
  <2>1. handlers'[request'.role][k] = h
    BY <1>1, <1>15 DEF h
  <2>2. /\ ran'.role = r /\ ran'.index = k /\ ran'.context = HasContext(h)
        /\ ran'.args = request.args /\ message'.role = r
        /\ message'.variant = VariantName(h)
    BY <1>14
  <2>3. IF "index" \in DOMAIN request
        THEN request.index = k /\ request.output = h.ret
        ELSE \A j \in DOMAIN handlers[r] : Written(handlers[r][j]) = Written(h) => j = k
    BY <1>4 DEF IsFor, h
  <2>4. QED
    BY <1>1, <1>5, <1>15, <1>16, <2>1, <2>2, <2>3 DEF IsFor
<1>18. TypeOK' /\ RequestInv' /\ CallerGetsItsReturn'
  BY <1>1, <1>2, <1>3, <1>4, <1>15, <1>16, <1>17
     DEF TypeOK, RequestInv, CallerGetsItsReturn, None
<1>19. SameMethods' /\ NamedOnce' /\ CompiledInv'
  BY <1>1, DeclarationsStay DEF IInv, declVars
<1>20. QED
  BY <1>1, <1>18, <1>19 DEF IInv

\* The return carries the variant of the method that was called, and that is one
\* of those the conversion to the caller's return type matches.
LEMMA TakeAnswerInv ==
  ASSUME IInv, TakeAnswer
  PROVE  IInv'
<1> DEFINE r == request.role
<1>1. /\ TypeOK /\ SameMethods /\ ran # None /\ answer = None
      /\ "index" \in DOMAIN request
      /\ UNCHANGED declVars /\ UNCHANGED <<message, request, ran>>
  BY DEF TakeAnswer, IInv
<1>2. PICK impl \in EmitsImpls(r) :
        /\ impl.output = request.output
        /\ answer' = IF message.variant \in impl.variants
                     THEN [from |-> <<ran.role, ran.index>>]
                     ELSE [from |-> <<"unimplemented">>]
  BY DEF TakeAnswer
<1>3. /\ request # None /\ phase = "running" /\ message # None /\ r \in RoleNames
      /\ \E k \in DOMAIN handlers[r] : IsFor(k)
  BY <1>1 DEF IInv, RequestInv
<1>4. PICK k \in DOMAIN handlers[r] : IsFor(k)
  BY <1>3
<1>5. /\ request.index = k /\ request.output = handlers[r][k].ret
      /\ message.variant = VariantName(handlers[r][k])
      /\ ran.role = r /\ ran.index = k
  BY <1>1, <1>4 DEF IsFor
<1>6. /\ k \in DOMAIN traits[r] /\ traits[r][k].ret = request.output
      /\ VariantName(traits[r][k]) = message.variant
  BY <1>1, <1>3, <1>5, MethodsOf DEF VariantName
<1>7. message.variant \in impl.variants
  <2>1. PICK t : impl = [output |-> t,
                         variants |-> {VariantName(traits[r][i]) :
                           i \in {j \in DOMAIN traits[r] : traits[r][j].ret = t}}]
    BY DEF EmitsImpls
  <2>2. t = request.output
    BY <1>2, <2>1
  <2>3. QED
    BY <1>6, <2>1, <2>2
<1>8. answer' = [from |-> <<r, k>>]
  BY <1>2, <1>5, <1>7
<1>9. CallerGetsItsReturn'
  BY <1>1, <1>5, <1>8 DEF CallerGetsItsReturn
<1>10. UNCHANGED <<phase, canonical, traits, handlers>>
  BY <1>1 DEF declVars
<1>11. TypeOK'
  BY <1>1, <1>10 DEF TypeOK
<1>12. RequestInv'
  <2>1. IsFor(k)'
    BY <1>1, <1>4, <1>10 DEF IsFor
  <2>2. QED
    BY <1>1, <1>3, <1>10, <2>1 DEF RequestInv
<1>13. SameMethods' /\ NamedOnce' /\ CompiledInv'
  BY <1>1, DeclarationsStay DEF IInv, declVars
<1>14. QED
  BY <1>1, <1>9, <1>11, <1>12, <1>13 DEF IInv

LEMMA StutterInv ==
  ASSUME IInv, UNCHANGED vars
  PROVE  IInv'
<1>1. /\ UNCHANGED <<phase, canonical, traits, handlers>>
      /\ UNCHANGED <<message, request, ran, answer>>
  BY DEF vars
<1>2. SameMethods' /\ NamedOnce' /\ CompiledInv'
  BY <1>1, DeclarationsStay DEF IInv
<1>3. TypeOK' /\ RequestInv' /\ CallerGetsItsReturn'
  BY <1>1 DEF IInv, TypeOK, RequestInv, IsFor, CallerGetsItsReturn
<1>4. QED
  BY <1>2, <1>3 DEF IInv

\* From its declaration to its answer, whatever a call becomes in between stands
\* for the method it was made to: the payload variant, the dispatch arm, the
\* renamed method and the return payload all lead back to it.
THEOREM Invariance == Spec => []IInv
<1>1. IInv /\ [Next]_vars => IInv'
  <2> SUFFICES ASSUME IInv, [Next]_vars PROVE IInv'
    OBVIOUS
  <2>1. CASE UNCHANGED vars
    BY <2>1, StutterInv
  <2>2. ASSUME NEW r \in RoleNames, NEW sig \in Signatures, NEW lent \in BOOLEAN,
               NEW inTrait \in BOOLEAN, AddMethod(r, sig, lent, inTrait)
        PROVE  IInv'
    BY <2>2, AddMethodInv
  <2>3. CASE Compile
    BY <2>3, CompileInv
  <2>4. ASSUME NEW r \in RoleNames, NEW i \in DOMAIN handlers[r], CallMethod(r, i)
        PROVE  IInv'
    BY <2>4, CallMethodInv
  <2>5. ASSUME NEW r \in RoleNames, NEW impl \in AcceptsImpls(r), SendValue(r, impl)
        PROVE  IInv'
    BY <2>5, SendValueInv
  <2>6. CASE Dispatch
    BY <2>6, DispatchInv
  <2>7. CASE TakeAnswer
    BY <2>7, TakeAnswerInv
  <2>8. QED
    BY <2>1, <2>2, <2>3, <2>4, <2>5, <2>6, <2>7 DEF Next
<1>2. QED
  BY InitInv, <1>1, PTL DEF Spec

\* The handler that runs is the one that was called, or the only one that takes
\* the value, with every argument and with a context if it was written with one.
THEOREM ReachesItsMethod == Spec => []MessageReachesItsMethod
<1>1. IInv => MessageReachesItsMethod
  <2> SUFFICES ASSUME IInv, ran # None
               PROVE  LET h == handlers[ran.role][ran.index]
                      IN  /\ ran.role = request.role
                          /\ ran.args = request.args /\ ran.args = Values(Written(h))
                          /\ ran.context = (Written(h) # h.params)
                          /\ IF "index" \in DOMAIN request THEN ran.index = request.index
                             ELSE \A i \in DOMAIN handlers[ran.role] :
                                    Written(handlers[ran.role][i]) = Written(h) => i = ran.index
    BY DEF MessageReachesItsMethod
  <2>1. /\ TypeOK /\ SameMethods /\ request.role \in RoleNames
        /\ \E i \in DOMAIN handlers[request.role] : IsFor(i)
    BY DEF IInv, RequestInv
  <2>2. PICK i \in DOMAIN handlers[request.role] : IsFor(i)
    BY <2>1
  <2>3. ran.role = request.role /\ ran.index = i
    BY <2>2 DEF IsFor
  <2> DEFINE h == handlers[request.role][i]
  <2>4. HasContext(h) = (Written(h) # h.params)
    <3>1. h \in Methods
      BY <2>1, MethodsOf
    <3>2. HasContext(h) \in BOOLEAN
      BY DEF HasContext
    <3>3. QED
      BY <3>1, <3>2, MethodShape
  <2>5. QED
    BY <2>2, <2>3, <2>4 DEF IsFor
<1>2. QED
  BY <1>1, Invariance, PTL

\* The caller gets what its own handler returned.
THEOREM AnswersComeBack == Spec => []CallerGetsItsReturn
<1>1. IInv => CallerGetsItsReturn
  BY DEF IInv
<1>2. QED
  BY <1>1, Invariance, PTL

\* A value that one method alone takes is accepted; an accepted one has a second
\* taker only where several share a parameter list.  src/core/role.rs:59 has it that
\* there never is a second.
THEOREM AcceptsTellsMethod == Spec => []AcceptsTellsTheMethod
<1>1. IInv => AcceptsTellsTheMethod
  <2> SUFFICES ASSUME IInv, phase = "running", NEW r \in RoleNames, NEW t
               PROVE  /\ Cardinality(Takers(r, t)) = 1 => Accepted(r, t)
                      /\ Accepted(r, t) =>
                           \E i \in Takers(r, t) : \A j \in Takers(r, t) \ {i} :
                             \E k \in Takers(r, t) \ {i, j} :
                               Written(handlers[r][k]) = Written(handlers[r][j])
    BY DEF AcceptsTellsTheMethod
  <2>1. /\ TypeOK /\ SameMethods /\ ImplsDistinct
        /\ DOMAIN handlers[r] = 1..Len(handlers[r]) /\ Len(handlers[r]) \in Nat
    BY MethodsOf DEF IInv, CompiledInv
  <2> DEFINE impl(i) == [types |-> Written(handlers[r][i]),
                         variant |-> VariantName(handlers[r][i])]
  <2>2. \A i \in Alone(r) : impl(i) \in AcceptsImpls(r)
    BY <2>1, AcceptsAlone
  <2>3. ASSUME Cardinality(Takers(r, t)) = 1
        PROVE  Accepted(r, t)
    <3>1. IsFiniteSet(Takers(r, t))
      <4>1. Takers(r, t) \subseteq 1..Len(handlers[r]) /\ IsFiniteSet(1..Len(handlers[r]))
        BY <2>1, FS_Interval DEF Takers
      <4>2. QED
        BY <4>1, FS_Subset
    <3>2. PICK i : Takers(r, t) = {i}
      BY <2>3, <3>1, FS_Singleton
    <3>3. i \in Alone(r) /\ Tuple(Written(handlers[r][i])) = t
      <4>1. /\ i \in DOMAIN handlers[r] /\ Written(handlers[r][i]) # <<>>
            /\ Tuple(Written(handlers[r][i])) = t
        BY <3>2 DEF Takers
      <4>2. ASSUME NEW j \in DOMAIN handlers[r],
                   Written(handlers[r][j]) = Written(handlers[r][i])
            PROVE  j = i
        <5>1. j \in Takers(r, t)
          BY <4>1, <4>2 DEF Takers
        <5>2. QED
          BY <3>2, <5>1
      <4>3. QED
        BY <4>1, <4>2 DEF Alone
    <3>4. impl(i).types = Written(handlers[r][i])
      OBVIOUS
    <3>5. QED
      BY <2>2, <3>3, <3>4 DEF Accepted
  <2>4. ASSUME Accepted(r, t)
        PROVE  \E i \in Takers(r, t) : \A j \in Takers(r, t) \ {i} :
                 \E k \in Takers(r, t) \ {i, j} :
                   Written(handlers[r][k]) = Written(handlers[r][j])
    <3>1. PICK a \in AcceptsImpls(r) : Tuple(a.types) = t
      BY <2>4 DEF Accepted
    <3>2. PICK i \in Alone(r) :
            /\ a.types = Written(handlers[r][i]) /\ i \in DOMAIN handlers[r]
            /\ \A k \in DOMAIN handlers[r] :
                 Written(handlers[r][k]) = Written(handlers[r][i]) => k = i
      BY <2>1, AcceptsTells
    <3>3. i \in Takers(r, t)
      BY <3>1, <3>2 DEF Takers, Alone
    <3>4. ASSUME NEW j \in Takers(r, t) \ {i}
          PROVE  \E k \in Takers(r, t) \ {i, j} :
                   Written(handlers[r][k]) = Written(handlers[r][j])
      <4>1. /\ j \in DOMAIN handlers[r] /\ Written(handlers[r][j]) # <<>> /\ j # i
            /\ Tuple(Written(handlers[r][j])) = t
        BY DEF Takers
      <4>2. j \notin Alone(r)
        <5> SUFFICES ASSUME j \in Alone(r) PROVE FALSE
          OBVIOUS
        <5>1. impl(j) \in AcceptsImpls(r) /\ impl(j).types = Written(handlers[r][j])
          BY <2>2
        <5>2. r \in Expanded
          BY <4>1, RoleExpanded, <2>1
        <5>3. impl(j) = a
          <6> HIDE DEF impl
          <6>1. QED
            BY <2>1, <3>1, <4>1, <5>1, <5>2 DEF ImplsDistinct
        <5>4. Written(handlers[r][j]) = Written(handlers[r][i])
          BY <3>2, <5>1, <5>3
        <5>5. QED
          BY <3>2, <4>1, <5>4
      <4>3. PICK k \in DOMAIN handlers[r] :
              Written(handlers[r][k]) = Written(handlers[r][j]) /\ k # j
        BY <4>1, <4>2 DEF Alone
      <4>4. k \in Takers(r, t)
        BY <4>1, <4>3 DEF Takers
      <4>5. k # i
        BY <3>2, <4>1, <4>3
      <4>6. QED
        BY <4>3, <4>4, <4>5
    <3>5. QED
      BY <3>3, <3>4
  <2>5. QED
    BY <2>3, <2>4
<1>2. QED
  BY <1>1, Invariance, PTL

-----------------------------------------------------------------------------
(* Compilation                                                             *)

\* The names of a performance are names of methods, on either side.
LEMMA NamesOf ==
  ASSUME TypeOK, SameMethods, NEW r \in RoleNames, NEW i \in DOMAIN handlers[r]
  PROVE  /\ handlers[r][i].name \in Idents
         /\ traits[r][i].name = handlers[r][i].name
         /\ VariantName(traits[r][i]) = handlers[r][i].name.words
<1>1. /\ handlers[r][i] \in Methods
      /\ traits[r][i].name = handlers[r][i].name
  BY MethodsOf
<1>2. RemoveContext(handlers[r][i]) \in Signatures
      /\ RemoveContext(handlers[r][i]).name = handlers[r][i].name
  BY <1>1, MethodShape
<1>3. QED
  BY <1>1, <1>2 DEF Signatures, VariantName

\* The dispatch functions of two roles have two names.
LEMMA DispatchTells ==
  ASSUME NEW r \in RoleNames, NEW q \in RoleNames,
         DispatchMethod(r) = DispatchMethod(q)
  PROVE  r = q
<1> DEFINE S == STRING \cup {"perform"}
<1>1. /\ r \in Seq(S) /\ q \in Seq(S) /\ Len(r) \in Nat /\ Len(q) \in Nat
      /\ <<"perform">> \in Seq(S) /\ Len(<<"perform">>) = 1
  <2>1. r \in Seq(S) /\ q \in Seq(S)
    BY NamesAssumption, SeqMonotonic
  <2>2. Len(r) \in Nat /\ Len(q) \in Nat
    BY <2>1, LenProperties
  <2>3. "perform" \in S
    OBVIOUS
  <2> HIDE DEF S
  <2>4. <<"perform">> \in Seq(S) /\ Len(<<"perform">>) = 1
    BY <2>3
  <2>5. QED
    BY <2>1, <2>2, <2>4
<1> HIDE DEF S
<1>2. ASSUME NEW p \in Seq(S)
      PROVE  /\ Len(<<"perform">> \o p) = 1 + Len(p)
             /\ \A k \in 1..Len(p) : (<<"perform">> \o p)[k + 1] = p[k]
  <2>1. Len(p) \in Nat
    BY LenProperties
  <2>2. /\ Len(<<"perform">> \o p) = 1 + Len(p)
        /\ \A i \in 1..(1 + Len(p)) :
             (<<"perform">> \o p)[i] = IF i <= 1 THEN <<"perform">>[i] ELSE p[i - 1]
    BY <1>1, ConcatProperties
  <2>3. ASSUME NEW k \in 1..Len(p) PROVE (<<"perform">> \o p)[k + 1] = p[k]
    <3>1. k + 1 \in 1..(1 + Len(p)) /\ ~(k + 1 <= 1) /\ (k + 1) - 1 = k
      BY <2>1
    <3>2. QED
      BY <2>2, <3>1
  <2>4. QED
    BY <2>2, <2>3
<1>3. Len(r) = Len(q) /\ \A k \in 1..Len(r) : r[k] = q[k]
  BY <1>1, <1>2 DEF DispatchMethod
<1>4. QED
  BY <1>1, <1>3, SeqEqual

\* What the expansion adds to the state type, and under which names.
LEMMA Inherent ==
  ASSUME TypeOK, SameMethods
  PROVE  /\ Declared \subseteq DOMAIN InherentMethods
         /\ \A m \in Declared :
              /\ m = <<m[1], m[2]>> /\ m[1] \in Expanded
              /\ m[2] \in DOMAIN handlers[m[1]] /\ m[2] # 0
              /\ InherentMethods[m] = m[1] \o handlers[m[1]][m[2]].name.words
         /\ \A q \in Expanded :
              <<q, 0>> \in DOMAIN InherentMethods /\ InherentMethods[<<q, 0>>] = DispatchMethod(q)
         /\ \A s \in DOMAIN InherentMethods :
              s \in Declared \/ \E q \in Expanded : s = <<q, 0>>
<1> DEFINE places == UNION {{q} \X DOMAIN handlers[q] : q \in Expanded}
<1>1. \A m \in Declared : /\ m = <<m[1], m[2]>> /\ m[1] \in RoleNames
                          /\ m[2] \in DOMAIN handlers[m[1]] /\ m[2] # 0
  BY MethodsOf DEF Declared
<1>2. \A m \in Declared : m[1] \in Expanded
  BY <1>1, RoleExpanded
<1>3. Declared = places
  <2>1. Declared \subseteq places
    BY <1>1, <1>2
  <2>2. places \subseteq Declared
    BY DEF Declared, Expanded
  <2>3. QED
    BY <2>1, <2>2
<1> HIDE DEF places
<1>4. DOMAIN InherentMethods = Declared \cup (Expanded \X {0})
  BY <1>3 DEF InherentMethods, places
<1>5. \A s \in DOMAIN InherentMethods :
        InherentMethods[s] = IF s[2] = 0 THEN DispatchMethod(s[1])
                             ELSE RenamedMethod(s[1], handlers[s[1]][s[2]])
  BY DEF InherentMethods
<1>6. ASSUME NEW m \in Declared
      PROVE  InherentMethods[m] = m[1] \o handlers[m[1]][m[2]].name.words
  BY <1>1, <1>4, <1>5, <1>6 DEF RenamedMethod
<1>7. ASSUME NEW q \in Expanded
      PROVE  /\ <<q, 0>> \in DOMAIN InherentMethods
             /\ InherentMethods[<<q, 0>>] = DispatchMethod(q)
  BY <1>4, <1>5
<1>8. \A s \in DOMAIN InherentMethods : s \in Declared \/ \E q \in Expanded : s = <<q, 0>>
  BY <1>4
<1>9. QED
  BY <1>1, <1>2, <1>4, <1>6, <1>7, <1>8

\* rustc objects to a name exactly if those of the declaration are not apart.
LEMMA NamesFit ==
  ASSUME TypeOK, SameMethods, NamedOnce
  PROVE  NamesDistinct <=> NamesApart
<1> DEFINE name(m) == handlers[m[1]][m[2]].name
           joined(m) == m[1] \o name(m).words
<1>1. /\ Declared \subseteq DOMAIN InherentMethods
      /\ \A m \in Declared :
           /\ m = <<m[1], m[2]>> /\ m[1] \in Expanded
           /\ m[2] \in DOMAIN handlers[m[1]] /\ m[2] # 0
           /\ InherentMethods[m] = joined(m)
      /\ \A q \in Expanded :
           <<q, 0>> \in DOMAIN InherentMethods /\ InherentMethods[<<q, 0>>] = DispatchMethod(q)
      /\ \A s \in DOMAIN InherentMethods :
           s \in Declared \/ \E q \in Expanded : s = <<q, 0>>
  BY Inherent
<1>2. ASSUME NEW r \in Expanded, NEW i \in DOMAIN traits[r]
      PROVE  /\ r \in RoleNames /\ i \in DOMAIN handlers[r] /\ <<r, i>> \in Declared
             /\ traits[r][i].name = name(<<r, i>>)
             /\ VariantName(traits[r][i]) = name(<<r, i>>).words
  <2>1. r \in RoleNames /\ i \in DOMAIN handlers[r]
    BY DEF Expanded, SameMethods
  <2>2. <<r, i>> \in Declared
    BY <2>1 DEF Declared
  <2>3. QED
    BY <2>1, <2>2, NamesOf
<1>3. ASSUME NamesDistinct
      PROVE  NamesApart
  <2>1. \A s, u \in DOMAIN InherentMethods : InherentMethods[s] = InherentMethods[u] => s = u
    BY <1>3 DEF NamesDistinct, Distinct
  <2>2. ASSUME NEW m \in Declared
        PROVE  name(m) # Ident(<<"enqueue">>)
    <3>1. m[1] \in Expanded /\ m[2] \in DOMAIN handlers[m[1]] /\ m[1] \in RoleNames
      BY <1>1 DEF Expanded
    <3>2. m[2] \in DOMAIN traits[m[1]] /\ traits[m[1]][m[2]].name = name(m)
      BY <3>1, NamesOf DEF SameMethods
    <3>3. QED
      BY <1>3, <3>1, <3>2 DEF NamesDistinct
  <2>3. ASSUME NEW m \in Declared, NEW n \in Declared, joined(m) = joined(n)
        PROVE  m = n
    <3>1. m \in DOMAIN InherentMethods /\ n \in DOMAIN InherentMethods
          /\ InherentMethods[m] = InherentMethods[n]
      BY <1>1, <2>3
    <3>2. QED
      BY <2>1, <3>1
  <2>4. ASSUME NEW m \in Declared, NEW q \in Expanded, joined(m) = DispatchMethod(q)
        PROVE  FALSE
    <3>1. /\ m \in DOMAIN InherentMethods /\ <<q, 0>> \in DOMAIN InherentMethods
          /\ InherentMethods[m] = InherentMethods[<<q, 0>>]
      BY <1>1, <2>4
    <3>2. m = <<q, 0>>
      BY <2>1, <3>1
    <3>3. QED
      BY <1>1, <3>2
  <2>5. QED
    BY <2>2, <2>3, <2>4 DEF NamesApart
<1>4. ASSUME NamesApart
      PROVE  NamesDistinct
  <2>1. /\ \A m \in Declared : name(m) # Ident(<<"enqueue">>)
        /\ \A m, n \in Declared : joined(m) = joined(n) => m = n
        /\ \A m \in Declared, q \in Expanded : joined(m) # DispatchMethod(q)
    BY <1>4 DEF NamesApart
  <2>2. ASSUME NEW r \in Expanded
        PROVE  /\ Distinct([i \in DOMAIN traits[r] |-> VariantName(traits[r][i])])
               /\ Distinct([i \in DOMAIN traits[r] |-> traits[r][i].name])
               /\ \A i \in DOMAIN traits[r] : traits[r][i].name # Ident(<<"enqueue">>)
    <3>1. ASSUME NEW i \in DOMAIN traits[r], NEW j \in DOMAIN traits[r],
                 name(<<r, i>>).words = name(<<r, j>>).words
          PROVE  i = j
      <4>1. <<r, i>> \in Declared /\ <<r, j>> \in Declared
        BY <1>2
      <4>2. joined(<<r, i>>) = joined(<<r, j>>)
        BY <3>1
      <4>3. <<r, i>> = <<r, j>>
        <5> HIDE DEF joined
        <5>1. QED
          BY <2>1, <4>1, <4>2
      <4>4. QED
        BY <4>3
    <3>2. \A i \in DOMAIN traits[r] :
            /\ <<r, i>> \in Declared
            /\ traits[r][i].name = name(<<r, i>>)
            /\ VariantName(traits[r][i]) = name(<<r, i>>).words
      BY <1>2
    <3> HIDE DEF name
    <3>3. Distinct([i \in DOMAIN traits[r] |-> VariantName(traits[r][i])])
      BY <3>1, <3>2 DEF Distinct
    <3>4. Distinct([i \in DOMAIN traits[r] |-> traits[r][i].name])
      <4>1. ASSUME NEW i \in DOMAIN traits[r], NEW j \in DOMAIN traits[r],
                   traits[r][i].name = traits[r][j].name
            PROVE  i = j
        <5>1. name(<<r, i>>) = name(<<r, j>>)
          BY <3>2, <4>1
        <5>2. QED
          BY <3>1, <5>1
      <4>2. QED
        BY <4>1 DEF Distinct
    <3>5. QED
      BY <2>1, <3>2, <3>3, <3>4
  <2>3. ASSUME NEW s \in DOMAIN InherentMethods, NEW u \in DOMAIN InherentMethods,
               InherentMethods[s] = InherentMethods[u]
        PROVE  s = u
    <3> HIDE DEF joined
    <3>1. CASE s \in Declared /\ u \in Declared
      <4>1. joined(s) = joined(u)
        BY <1>1, <2>3, <3>1
      <4>2. QED
        BY <2>1, <3>1, <4>1
    <3>2. ASSUME NEW q \in Expanded, s = <<q, 0>>, NEW p \in Expanded, u = <<p, 0>>
          PROVE  s = u
      <4>1. DispatchMethod(q) = DispatchMethod(p) /\ q \in RoleNames /\ p \in RoleNames
        BY <1>1, <2>3, <3>2 DEF Expanded
      <4>2. q = p
        BY <4>1, DispatchTells
      <4>3. QED
        BY <3>2, <4>2
    <3>3. ASSUME NEW q \in Expanded, s = <<q, 0>>, u \in Declared
          PROVE  s = u
      <4>1. joined(u) = DispatchMethod(q)
        BY <1>1, <2>3, <3>3
      <4>2. QED
        BY <2>1, <3>3, <4>1
    <3>4. ASSUME NEW q \in Expanded, u = <<q, 0>>, s \in Declared
          PROVE  s = u
      <4>1. joined(s) = DispatchMethod(q)
        BY <1>1, <2>3, <3>4
      <4>2. QED
        BY <2>1, <3>4, <4>1
    <3>5. QED
      BY <1>1, <3>1, <3>2, <3>3, <3>4
  <2>4. QED
    BY <2>2, <2>3 DEF NamesDistinct, Distinct
<1>5. QED
  BY <1>3, <1>4

\* And to a second impl of Accepts exactly if two tuples are not apart.
LEMMA ImplsFit ==
  ASSUME TypeOK, SameMethods
  PROVE  ImplsDistinct <=> TuplesApart
<1> DEFINE impl(r, i) == [types |-> Written(handlers[r][i]),
                          variant |-> VariantName(handlers[r][i])]
<1>1. \A r \in RoleNames : AcceptsImpls(r) = {impl(r, i) : i \in Alone(r)}
  BY AcceptsAlone
<1>2. \A r, i : impl(r, i).types = Written(handlers[r][i])
  OBVIOUS
<1> HIDE DEF impl
<1>3. ASSUME ImplsDistinct, NEW r \in RoleNames, NEW i \in Alone(r), NEW j \in Alone(r),
             Tuple(Written(handlers[r][i])) = Tuple(Written(handlers[r][j]))
      PROVE  i = j
  <2>1. i \in DOMAIN handlers[r] /\ r \in Expanded
    BY RoleExpanded DEF Alone
  <2>2. impl(r, i) = impl(r, j)
    BY <1>1, <1>2, <1>3, <2>1 DEF ImplsDistinct
  <2>3. Written(handlers[r][i]) = Written(handlers[r][j])
    BY <1>2, <2>2
  <2>4. QED
    BY <2>1, <2>3 DEF Alone
<1>4. ASSUME TuplesApart, NEW r \in Expanded, NEW a \in AcceptsImpls(r), NEW b \in AcceptsImpls(r),
             Tuple(a.types) = Tuple(b.types)
      PROVE  a = b
  <2>1. r \in RoleNames
    BY DEF Expanded
  <2>2. PICK i \in Alone(r) : a = impl(r, i)
    BY <1>1, <2>1
  <2>3. PICK j \in Alone(r) : b = impl(r, j)
    BY <1>1, <2>1
  <2>4. i = j
    BY <1>2, <1>4, <2>1, <2>2, <2>3 DEF TuplesApart
  <2>5. QED
    BY <2>2, <2>3, <2>4
<1>5. QED
  BY <1>3, <1>4 DEF ImplsDistinct, TuplesApart

\* The shell implements the trait, and every arm fits the payload enum.
LEMMA PerformancesFit ==
  ASSUME TypeOK, SameMethods
  PROVE  PerformanceFits
<1> SUFFICES ASSUME NEW r \in RoleNames
             PROVE  /\ {ShellMethod(handlers[r][i]) : i \in DOMAIN handlers[r]}
                         = {TraitMethods(r)[i] : i \in DOMAIN traits[r]}
                    /\ \A v \in PayloadVariants(r) : \E i \in DOMAIN handlers[r] :
                         Arm(r, handlers[r][i]).variant = v.name
                    /\ \A i \in DOMAIN handlers[r] : \E v \in PayloadVariants(r) :
                         /\ v.name = Arm(r, handlers[r][i]).variant
                         /\ Len(v.fields) = Arm(r, handlers[r][i]).arity
  BY DEF PerformanceFits, Expanded
<1>1. DOMAIN traits[r] = DOMAIN handlers[r]
  BY MethodsOf
<1>2. ASSUME NEW i \in DOMAIN handlers[r]
      PROVE  /\ RoleSignatures(r)[i] = RemoveContext(handlers[r][i])
             /\ RoleSignatures(r)[i].name = handlers[r][i].name
             /\ RoleSignatures(r)[i].params = Written(handlers[r][i])
             /\ TraitMethods(r)[i] = ShellMethod(handlers[r][i])
             /\ Arm(r, handlers[r][i]).variant = VariantName(RoleSignatures(r)[i])
             /\ Arm(r, handlers[r][i]).arity = Len(RoleSignatures(r)[i].params)
  <2>1. handlers[r][i] \in Methods /\ i \in DOMAIN traits[r]
    BY <1>1, MethodsOf
  <2>2. RoleSignatures(r)[i] = RemoveContext(handlers[r][i])
    BY <2>1 DEF RoleSignatures, SameMethods
  <2>3. /\ RemoveContext(handlers[r][i]) \in Signatures
        /\ RemoveContext(handlers[r][i]).name = handlers[r][i].name
        /\ RemoveContext(handlers[r][i]).params = Written(handlers[r][i])
        /\ Len(Written(handlers[r][i])) \in Nat
        /\ Len(handlers[r][i].params) = IF HasContext(handlers[r][i])
                                        THEN Len(Written(handlers[r][i])) + 1
                                        ELSE Len(Written(handlers[r][i]))
    BY <2>1, MethodShape
  <2>4. TraitMethods(r)[i] = ShellMethod(handlers[r][i])
    BY <2>1, <2>2, <2>3, PlainMethod DEF TraitMethods, ShellMethod
  <2>5. Arm(r, handlers[r][i]).variant = VariantName(RoleSignatures(r)[i])
    BY <2>2, <2>3 DEF Arm, VariantName
  <2>6. Arm(r, handlers[r][i]).arity = Len(RoleSignatures(r)[i].params)
    BY <2>2, <2>3 DEF Arm
  <2>7. QED
    BY <2>2, <2>3, <2>4, <2>5, <2>6
<1>3. DOMAIN RoleSignatures(r) = DOMAIN handlers[r]
  BY <1>1 DEF RoleSignatures
<1>4. PayloadVariants(r)
        = {[name |-> VariantName(RoleSignatures(r)[i]), fields |-> RoleSignatures(r)[i].params] :
             i \in DOMAIN handlers[r]}
  BY <1>1 DEF PayloadVariants
<1>5. {ShellMethod(handlers[r][i]) : i \in DOMAIN handlers[r]}
         = {TraitMethods(r)[i] : i \in DOMAIN traits[r]}
  <2>1. \A i \in DOMAIN handlers[r] : TraitMethods(r)[i] = ShellMethod(handlers[r][i])
    BY <1>2
  <2>2. QED
    BY <1>1, <2>1
<1>6. ASSUME NEW v \in PayloadVariants(r)
      PROVE  \E i \in DOMAIN handlers[r] : Arm(r, handlers[r][i]).variant = v.name
  <2>1. PICK i \in DOMAIN handlers[r] :
          v = [name |-> VariantName(RoleSignatures(r)[i]), fields |-> RoleSignatures(r)[i].params]
    BY <1>4
  <2>2. Arm(r, handlers[r][i]).variant = VariantName(RoleSignatures(r)[i])
    BY <1>2
  <2>3. QED
    BY <2>1, <2>2
<1>7. ASSUME NEW i \in DOMAIN handlers[r]
      PROVE  \E v \in PayloadVariants(r) :
               /\ v.name = Arm(r, handlers[r][i]).variant
               /\ Len(v.fields) = Arm(r, handlers[r][i]).arity
  <2> DEFINE v == [name |-> VariantName(RoleSignatures(r)[i]), fields |-> RoleSignatures(r)[i].params]
  <2>1. /\ Arm(r, handlers[r][i]).variant = VariantName(RoleSignatures(r)[i])
        /\ Arm(r, handlers[r][i]).arity = Len(RoleSignatures(r)[i].params)
    BY <1>2
  <2>2. v \in PayloadVariants(r)
    BY <1>4
  <2>3. v.name = Arm(r, handlers[r][i]).variant /\ Len(v.fields) = Arm(r, handlers[r][i]).arity
    BY <2>1
  <2>4. QED
    BY <2>2, <2>3
<1>8. QED
  BY <1>5, <1>6, <1>7

\* Of any roles and names rustc rejects exactly the actors two of whose names, or two
\* of whose tuples, are not apart.
THEOREM ExpansionsAlwaysFit == Spec => []ExpansionsFit
<1>1. Init => ExpansionsFit
  BY DEF Init, ExpansionsFit
<1>2. IInv /\ ExpansionsFit /\ [Next]_vars => ExpansionsFit'
  <2> SUFFICES ASSUME IInv, ExpansionsFit, [Next]_vars PROVE ExpansionsFit'
    OBVIOUS
  <2>1. ASSUME traits' = traits, handlers' = handlers
        PROVE  (NamesApart /\ TuplesApart)' <=> NamesApart /\ TuplesApart
    <3>1. Declared' = Declared /\ Expanded' = Expanded
      BY <2>1 DEF Declared, Expanded
    <3>2. NamesApart' <=> NamesApart
      BY <2>1, <3>1 DEF NamesApart
    <3>3. TuplesApart' <=> TuplesApart
      <4>1. \A r : Alone(r)' = Alone(r)
        BY <2>1 DEF Alone
      <4>2. QED
        BY <2>1, <4>1 DEF TuplesApart
    <3>4. QED
      BY <3>2, <3>3
  <2>2. CASE Compile
    <3>1. Compiles <=> NamesApart /\ TuplesApart
      BY NamesFit, ImplsFit, PerformancesFit DEF IInv, Compiles
    <3>2. phase' = (IF Compiles THEN "running" ELSE "rejected")
          /\ traits' = traits /\ handlers' = handlers
      BY <2>2 DEF Compile
    <3>3. QED
      BY <2>1, <3>1, <3>2 DEF ExpansionsFit
  <2>3. CASE UNCHANGED <<phase, traits, handlers>>
    BY <2>1, <2>3 DEF ExpansionsFit
  <2>4. ASSUME NEW r \in RoleNames, NEW sig \in Signatures, NEW lent \in BOOLEAN,
               NEW inTrait \in BOOLEAN, AddMethod(r, sig, lent, inTrait)
        PROVE  ExpansionsFit'
    BY <2>4 DEF AddMethod, ExpansionsFit
  <2>5. QED
    BY <2>2, <2>3, <2>4 DEF Next, vars, declVars, CallMethod, SendValue, Dispatch, TakeAnswer
<1>3. QED
  BY Invariance, <1>1, <1>2, PTL DEF Spec
=============================================================================
