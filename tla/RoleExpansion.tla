--------------------------- MODULE RoleExpansion ---------------------------
(***************************************************************************)
(* What #[role] and #[performance] generate, and what becomes of a call    *)
(* that goes through it.  A role turns into a payload enum, a return enum  *)
(* and the impls of Accepts and Emits; a performance turns into sending    *)
(* methods on the shell and a dispatch function on the state.  The two are *)
(* expanded apart, from signatures that may differ by a Context parameter, *)
(* and only meet again when rustc compiles them and when a message made by *)
(* one is matched by the other.                                            *)
(*                                                                         *)
(* A type is a record of a constructor and arguments; an identifier is the *)
(* sequence of its words and the style it is written in, because the case  *)
(* conversions of the macro keep the words and forget the style.           *)
(***************************************************************************)
EXTENDS Naturals, Sequences, FiniteSets

CONSTANTS
  RoleNames,    \* names of roles, as sequences of words
  Idents,       \* names of methods
  ParamLists,   \* parameter lists, the receiver and the Context left out
  Returns,      \* return types
  MaxMethods,   \* bound: methods declared in all,
  MaxOfOneRole  \* and in all by an actor of one role, its roles canonical

\* A payload owns what it carries: of all references only 'static ones can be
\* parameters, and rustc sees to that.
ASSUME ParamsAssumption ==
  \A types \in ParamLists :
    /\ types \in Seq({types[k] : k \in DOMAIN types})
    /\ types # <<>> => Head(types).name # "&"

ASSUME NamesAssumption == RoleNames \subseteq Seq(STRING)

Atom(n) == [name |-> n, args |-> <<>>]
Reference(t) == [name |-> "&", args |-> <<t>>]
ContextRef == Reference(Atom("Context"))
Tuple(ts) == IF Len(ts) = 1 THEN ts[1] ELSE [name |-> "()", args |-> ts]
Ident(words) == [words |-> words, style |-> "snake"]

VARIABLES
  phase,      \* "declaring", then "running" or "rejected" by rustc
  canonical,  \* the roles defined by their performance
  traits,     \* role -> the signatures its trait is written with
  handlers,   \* role -> the methods of its performance, as written
  message,    \* the payload in flight, or None
  request,    \* history: what the caller asked for, or None
  ran,        \* the handler that ran, and its arguments, or None
  answer      \* what the caller got, or None

vars == <<phase, canonical, traits, handlers, message, request, ran, answer>>
declVars == <<phase, canonical, traits, handlers>>

None == [is |-> "none"]
Signatures == [name : Idents, params : ParamLists, ret : Returns]
WithContext(sig) == [sig EXCEPT !.params = <<ContextRef>> \o @]
Methods == Signatures \cup {WithContext(sig) : sig \in Signatures}

-----------------------------------------------------------------------------
(* SignatureExt                                                            *)

\* Mutants: a 'static reference counts as a Context, and none does.
HasContext_AnyReference(sig) ==
  sig.params # <<>> /\ Head(sig.params).name \in {"&", "&'static"}

HasContext_Never(sig) == sig.params = <<>> /\ sig.params # <<>>

\* has_context_input: the first parameter after the receiver is a reference
\* whose lifetime is not 'static, whatever it refers to.
HasContext(sig) == sig.params # <<>> /\ Head(sig.params).name = "&"

RemoveContext(sig) ==
  IF HasContext(sig) THEN [sig EXCEPT !.params = Tail(@)] ELSE sig

\* enum_variant_name, in upper camel case.
VariantName(sig) == sig.name.words

-----------------------------------------------------------------------------
(* RoleOutput, from the signatures a trait is written with                 *)

\* RoleDecl::new.
RoleSignatures(r) == [i \in DOMAIN traits[r] |-> RemoveContext(traits[r][i])]

PayloadVariants(r) ==
  {[name |-> VariantName(sig), fields |-> sig.params] :
     sig \in {RoleSignatures(r)[i] : i \in DOMAIN traits[r]}}

Group(sigs, types) == {i \in DOMAIN sigs : sigs[i].params = types}

\* Mutant: a shared parameter list goes to the first of its methods.
AcceptsOf_FirstOfGroup(sigs) ==
  {[types |-> sigs[i].params, variant |-> VariantName(sigs[i])] :
     i \in {j \in DOMAIN sigs : /\ sigs[j].params # <<>>
                               /\ \A k \in Group(sigs, sigs[j].params) : j <= k}}

\* create_from_impls: one impl for every parameter list that is not empty and
\* belongs to a single method.  The impl is of the tuple of the list.
AcceptsOf(sigs) ==
  {[types |-> sigs[i].params, variant |-> VariantName(sigs[i])] :
     i \in {j \in DOMAIN sigs : /\ sigs[j].params # <<>>
                               /\ Group(sigs, sigs[j].params) = {j}}}

AcceptsImpls(r) == AcceptsOf(RoleSignatures(r))

\* Mutant: only the first method of a return type is matched.
EmitsImpls_FirstOnly(r) ==
  {[output |-> traits[r][i].ret, variants |-> {VariantName(traits[r][i])}] :
     i \in {j \in DOMAIN traits[r] :
              \A k \in 1..(j - 1) : traits[r][k].ret # traits[r][j].ret}}

\* create_output_from_impls: one impl for every return type, matching the
\* variants of all methods that return it.
EmitsImpls(r) ==
  {[output |-> t,
    variants |-> {VariantName(traits[r][i]) :
                    i \in {j \in DOMAIN traits[r] : traits[r][j].ret = t}}] :
     t \in {traits[r][i].ret : i \in DOMAIN traits[r]}}

\* The methods of the trait: InterfaceRewriter strips the context once more,
\* and `enqueue` joins them.
TraitMethods(r) ==
  [i \in DOMAIN traits[r] |-> RemoveContext(RoleSignatures(r)[i])]

-----------------------------------------------------------------------------
(* PerfDispatch, from the methods a performance is written with            *)

\* create_sending_method.
ShellMethod(h) == RemoveContext(h)

\* make_method_name, in snake case.
RenamedMethod(r, h) == r \o h.name.words

\* dispatch_case: which variant it matches, how many fields it binds, and
\* whether the handler is lent the context.
Arm(r, h) ==
  [variant |-> VariantName(h),
   arity   |-> IF HasContext(h) THEN Len(h.params) - 1 ELSE Len(h.params),
   method  |-> RenamedMethod(r, h),
   context |-> HasContext(h)]

DispatchMethod(r) == <<"perform">> \o r

-----------------------------------------------------------------------------
(* rustc                                                                   *)

Distinct(f) == \A x, y \in DOMAIN f : f[x] = f[y] => x = y

Expanded == {r \in RoleNames : handlers[r] # <<>>}

\* The methods the expansion adds to the state type, named by where they are
\* from.
InherentMethods ==
  LET sources == UNION {{r} \X DOMAIN handlers[r] : r \in Expanded}
  IN  [s \in sources \cup (Expanded \X {0}) |->
         IF s[2] = 0 THEN DispatchMethod(s[1])
         ELSE RenamedMethod(s[1], handlers[s[1]][s[2]])]

NamesDistinct ==
  /\ \A r \in Expanded :
       /\ Distinct([i \in DOMAIN traits[r] |-> VariantName(traits[r][i])])
       /\ Distinct([i \in DOMAIN traits[r] |-> traits[r][i].name])
       /\ \A i \in DOMAIN traits[r] : traits[r][i].name # Ident(<<"enqueue">>)
  /\ Distinct(InherentMethods)

ImplsDistinct ==
  \A r \in Expanded : \A a, b \in AcceptsImpls(r) :
    Tuple(a.types) = Tuple(b.types) => a = b

\* The shell implements the trait, and every arm fits the payload enum.
PerformanceFits ==
  \A r \in Expanded :
    /\ {ShellMethod(handlers[r][i]) : i \in DOMAIN handlers[r]}
         = {TraitMethods(r)[i] : i \in DOMAIN traits[r]}
    /\ \A v \in PayloadVariants(r) : \E i \in DOMAIN handlers[r] :
         Arm(r, handlers[r][i]).variant = v.name
    /\ \A i \in DOMAIN handlers[r] : \E v \in PayloadVariants(r) :
         /\ v.name = Arm(r, handlers[r][i]).variant
         /\ Len(v.fields) = Arm(r, handlers[r][i]).arity

Compiles == NamesDistinct /\ ImplsDistinct /\ PerformanceFits

-----------------------------------------------------------------------------
TypeOK ==
  /\ phase \in {"declaring", "running", "rejected"}
  /\ canonical \subseteq RoleNames
  /\ traits \in [RoleNames -> Seq(Methods)]
  /\ handlers \in [RoleNames -> Seq(Methods)]
  /\ message # None => request # None /\ phase = "running"
  /\ answer # None => ran # None

Init ==
  /\ phase = "declaring"
  /\ canonical \in SUBSET RoleNames
  /\ traits = [r \in RoleNames |-> <<>>]
  /\ handlers = [r \in RoleNames |-> <<>>]
  /\ message = None /\ request = None /\ ran = None /\ answer = None

Declared == UNION {{r} \X DOMAIN handlers[r] : r \in RoleNames}

\* One more method.  A handler takes a Context or not; the trait of a canonical
\* role is the performance itself, any other is written apart from it.
AddMethod(r, sig, lent, inTrait) ==
  /\ phase = "declaring"
  /\ \/ Cardinality(Declared) < MaxMethods
     \/ canonical = RoleNames /\ Expanded \subseteq {r} /\ Len(handlers[r]) < MaxOfOneRole
  /\ \A i \in DOMAIN handlers[r] : handlers[r][i].name # sig.name
  /\ r \in canonical => inTrait = lent
  /\ handlers' = [handlers EXCEPT ![r] =
                    Append(@, IF lent THEN WithContext(sig) ELSE sig)]
  /\ traits' = [traits EXCEPT ![r] =
                  Append(@, IF inTrait THEN WithContext(sig) ELSE sig)]
  /\ UNCHANGED <<phase, canonical, message, request, ran, answer>>

Compile ==
  /\ phase = "declaring" /\ Expanded # {}
  /\ phase' = IF Compiles THEN "running" ELSE "rejected"
  /\ UNCHANGED <<canonical, traits, handlers, message, request, ran, answer>>

Values(types) == [k \in DOMAIN types |-> [position |-> k, type |-> types[k]]]

\* A call of a method of the trait, which the shell implements.
CallMethod(r, i) ==
  /\ phase = "running" /\ request = None
  /\ LET h == handlers[r][i]
         args == Values(ShellMethod(h).params)
     IN  /\ request' = [role |-> r, index |-> i, args |-> args,
                        output |-> h.ret]
         /\ message' = [role |-> r, variant |-> VariantName(h), args |-> args]
  /\ UNCHANGED <<declVars, ran, answer>>

\* A bare value is sent: Message::send_when_ready and its kin.
SendValue(r, impl) ==
  /\ phase = "running" /\ request = None
  /\ LET args == Values(impl.types)
     IN  /\ request' = [role |-> r, args |-> args]
         /\ message' = [role |-> r, variant |-> impl.variant, args |-> args]
  /\ UNCHANGED <<declVars, ran, answer>>

\* The dispatch function: the first arm of that variant calls its method.
Dispatch ==
  /\ message # None /\ ran = None
  /\ LET r == message.role
         arms == [i \in DOMAIN handlers[r] |-> Arm(r, handlers[r][i])]
     IN  \E i \in DOMAIN arms :
           /\ arms[i].variant = message.variant
           /\ \A j \in 1..(i - 1) : arms[j].variant # message.variant
           /\ \E s \in DOMAIN InherentMethods :
                /\ InherentMethods[s] = arms[i].method
                /\ ran' = [role |-> s[1], index |-> s[2],
                           context |-> arms[i].context,
                           args |-> SubSeq(message.args, 1, arms[i].arity)]
           /\ message' = [role |-> r, variant |-> arms[i].variant]
  /\ UNCHANGED <<declVars, request, answer>>

\* ReturnPath::send and the conversion at the caller's end.
TakeAnswer ==
  /\ ran # None /\ answer = None /\ "index" \in DOMAIN request
  /\ \E impl \in EmitsImpls(request.role) :
       /\ impl.output = request.output
       /\ answer' = IF message.variant \in impl.variants
                    THEN [from |-> <<ran.role, ran.index>>]
                    ELSE [from |-> <<"unimplemented">>]
  /\ UNCHANGED <<declVars, message, request, ran>>

Next ==
  \/ \E r \in RoleNames, sig \in Signatures, lent, inTrait \in BOOLEAN :
       AddMethod(r, sig, lent, inTrait)
  \/ Compile
  \/ \E r \in RoleNames : \E i \in DOMAIN handlers[r] : CallMethod(r, i)
  \/ \E r \in RoleNames : \E impl \in AcceptsImpls(r) : SendValue(r, impl)
  \/ Dispatch
  \/ TakeAnswer

Spec == Init /\ [][Next]_vars

-----------------------------------------------------------------------------
\* The parameters a caller passes to a method, as its author wrote it.
Written(h) ==
  IF h.params # <<>> /\ Head(h.params) = ContextRef
  THEN Tail(h.params) ELSE h.params

\* The names of the methods and roles of an actor stay apart when they are joined:
\* those of one role, too, which must not differ by their case alone.
NamesApart ==
  LET name(m) == handlers[m[1]][m[2]].name
      joined(m) == m[1] \o name(m).words
  IN  /\ \A m \in Declared : name(m) # Ident(<<"enqueue">>)
      /\ \A m, n \in Declared : joined(m) = joined(n) => m = n
      /\ \A m \in Declared, q \in Expanded : joined(m) # DispatchMethod(q)

\* The methods of a role that share their parameter list with no other one.
Alone(r) ==
  {i \in DOMAIN handlers[r] :
     /\ Written(handlers[r][i]) # <<>>
     /\ \A j \in DOMAIN handlers[r] :
          Written(handlers[r][j]) = Written(handlers[r][i]) => j = i}

\* No two of them take the same tuple, one as its fields and one as a whole.
TuplesApart ==
  \A r \in RoleNames : \A i, j \in Alone(r) :
    Tuple(Written(handlers[r][i])) = Tuple(Written(handlers[r][j])) => i = j

\* Whatever mixture of Context parameters a trait and its performance are written
\* with, their expansions fit each other: rustc rejects an actor for nothing but the
\* names and tuples it was declared with, and every collision of those it does reject
\* (`room_go` of the role Chat with `go` of ChatRoom, say).
ExpansionsFit ==
  /\ phase = "rejected" => ~(NamesApart /\ TuplesApart)
  /\ phase = "running" => NamesApart /\ TuplesApart

\* The handler that runs is the one that was called, or the only one with the
\* parameter list that the value was sent as, with every argument in its place and a context
\* exactly if it was written with one.
MessageReachesItsMethod ==
  ran # None =>
    LET h == handlers[ran.role][ran.index]
    IN  /\ ran.role = request.role
        /\ ran.args = request.args /\ ran.args = Values(Written(h))
        /\ ran.context = (Written(h) # h.params)
        /\ IF "index" \in DOMAIN request THEN ran.index = request.index
           ELSE \A i \in DOMAIN handlers[ran.role] :
                  Written(handlers[ran.role][i]) = Written(h) => i = ran.index

\* The caller gets what its own handler returned: the payload of the return
\* always has a variant the conversion to the caller's type knows.
CallerGetsItsReturn ==
  answer # None => answer.from = <<request.role, request.index>>

\* Whose methods take a value of type t: as their only parameter or, a tuple, as all of
\* them.  And whether the role accepts such values.
Takers(r, t) ==
  {i \in DOMAIN handlers[r] :
     Written(handlers[r][i]) # <<>> /\ Tuple(Written(handlers[r][i])) = t}
Accepted(r, t) == \E impl \in AcceptsImpls(r) : Tuple(impl.types) = t

\* A value that one method alone takes is accepted; and an accepted value is taken by
\* one method, unless there are others that all share a parameter list with each
\* other: never by just two.  The macro counts lists, and of two lists with
\* one tuple rustc objects to the second impl, but only if neither list is shared.
\* (src/core/role.rs:59 has it that there is exactly one method.)
AcceptsTellsTheMethod ==
  phase = "running" =>
    \A r \in RoleNames : \A t \in {Tuple(types) : types \in ParamLists} :
      /\ Cardinality(Takers(r, t)) = 1 => Accepted(r, t)
      /\ Accepted(r, t) =>
           \E i \in Takers(r, t) : \A j \in Takers(r, t) \ {i} :
             \E k \in Takers(r, t) \ {i, j} :
               Written(handlers[r][k]) = Written(handlers[r][j])

-----------------------------------------------------------------------------
(* The inductive invariant: it implies the properties of the calls above.  *)

\* A trait and its performance are written with the same methods, up to Context.
SameMethods ==
  \A r \in RoleNames :
    /\ DOMAIN traits[r] = DOMAIN handlers[r]
    /\ \A i \in DOMAIN handlers[r] :
         RemoveContext(traits[r][i]) = RemoveContext(handlers[r][i])

\* No performance has two methods of one name.
NamedOnce ==
  \A r \in RoleNames : \A i, j \in DOMAIN handlers[r] :
    handlers[r][i].name = handlers[r][j].name => i = j

\* What runs has compiled.
CompiledInv == phase = "running" => NamesDistinct /\ ImplsDistinct

\* The message in flight, or the handler that took it, is for method i.
IsFor(i) ==
  LET h == handlers[request.role][i]
  IN  /\ request.args = Values(Written(h))
      /\ IF "index" \in DOMAIN request
         THEN request.index = i /\ request.output = h.ret
         ELSE \A j \in DOMAIN handlers[request.role] :
                Written(handlers[request.role][j]) = Written(h) => j = i
      /\ message.role = request.role /\ message.variant = VariantName(h)
      /\ ran = None => message.args = request.args
      /\ ran # None =>
           /\ ran.role = request.role /\ ran.index = i /\ ran.args = request.args
           /\ ran.context = HasContext(h)

RequestInv ==
  /\ request = None => message = None /\ ran = None /\ answer = None
  /\ request # None =>
       /\ phase = "running" /\ message # None
       /\ request.role \in RoleNames
       /\ \E i \in DOMAIN handlers[request.role] : IsFor(i)

IInv ==
  /\ TypeOK
  /\ SameMethods
  /\ NamedOnce
  /\ CompiledInv
  /\ RequestInv
  /\ CallerGetsItsReturn
=============================================================================
