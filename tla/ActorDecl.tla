----------------------------- MODULE ActorDecl -----------------------------
(***************************************************************************)
(* The macros' front end: how `#[actor]` reads the items of a module, what *)
(* it refuses, and what it and the `#[performance]` blocks outside of the  *)
(* module expand to.  An item stands for itself by its index; of a method  *)
(* only what the macros look at is kept, and what a role and a performance *)
(* expand to is the matter of RoleExpansion.                               *)
(***************************************************************************)
EXTENDS Naturals, Sequences, FiniteSets

CONSTANTS
  Impls,      \* impl blocks that a program may contain
  RoleNames,  \* the roles they may be of
  Modules,    \* the contents of modules to check: sequences of Items
  Outsides    \* the blocks with #[performance] to check beside a module

\* An impl block: whether it has #[performance] and that has a `canonical` that can
\* be parsed, the trait, "none" if inherent, whether that is a path of several
\* segments, whether the self type is a path, and its methods.  One with "pattern" has
\* a parameter whose pattern does not read as an expression, like `mut x: T`.
Methods == {"plain", "pattern", "generic", "no receiver"}
ASSUME ImplsAreImpls ==
  /\ "none" \notin RoleNames
  /\ \A b \in Impls :
       /\ {b.tagged, b.canonical, b.extended, b.selfpath} \subseteq BOOLEAN
       /\ b.trait \in RoleNames \cup {"none"}
       /\ b.methods \in Seq(Methods)

Items == [sort : {"impl"}, impl : Impls] \cup [sort : {"stop", "catch", "fn", "data", "other"}]

ASSUME InputsAreItems ==
  /\ Modules \subseteq Seq(Items)
  /\ Outsides \subseteq SUBSET Impls

VARIABLES
  items,         \* the content of the module
  outside,       \* the blocks outside
  next,          \* the item that is read next
  performances,  \* what was made of the items before it, each set by their index
  roles,
  data_items,
  misc,
  exit, panic,   \* the `stop` and `catch` functions, 0 if none
  verdict,       \* "reading", "declared", then "expanded", "error" or "abort"
  errors,        \* the items an error is reported at, 0 for the module
  dispatching,   \* the items that dispatch functions were made of
  accepted,      \* the blocks outside that they were made of
  refused        \* and those for which that was refused

declVars == <<performances, roles, data_items, misc, exit, panic>>
inputVars == <<items, outside>>
outputVars == <<dispatching, accepted, refused>>
vars == <<inputVars, next, declVars, verdict, errors, outputVars>>

Final == {"expanded", "error", "abort"}

Init ==
  /\ items \in Modules /\ outside \in Outsides
  /\ next = 1
  /\ performances = {} /\ roles = {} /\ data_items = {} /\ misc = {}
  /\ exit = 0 /\ panic = 0
  /\ verdict = "reading" /\ errors = {}
  /\ dispatching = {} /\ accepted = {} /\ refused = {}

-----------------------------------------------------------------------------
(* ActorDecl::new                                                          *)

\* PerformanceDecl::new
Unsupported(b) ==
  \E k \in DOMAIN b.methods : b.methods[k] \in {"generic", "no receiver"}

Sort(i) == items[i].sort
IsPerformance(i) == Sort(i) = "impl" /\ items[i].impl.tagged

Reading(i) == verdict = "reading" /\ next = i /\ i \in DOMAIN items

Continue ==
  /\ next' = next + 1
  /\ UNCHANGED <<inputVars, verdict, errors, outputVars>>

\* Mutant: only blocks that define a role are performances.
ReadPerformance_CanonicalOnly(i) ==
  /\ Reading(i) /\ IsPerformance(i)
  /\ items[i].impl.trait # "none" /\ ~Unsupported(items[i].impl)
  /\ performances' = IF items[i].impl.canonical THEN performances \cup {i} ELSE performances
  /\ roles' = IF items[i].impl.canonical THEN roles \cup {i} ELSE roles
  /\ Continue
  /\ UNCHANGED <<data_items, misc, exit, panic>>

ReadPerformance(i) ==
  /\ Reading(i) /\ IsPerformance(i)
  /\ items[i].impl.trait # "none" /\ ~Unsupported(items[i].impl)
  /\ performances' = performances \cup {i}
  /\ roles' = IF items[i].impl.canonical THEN roles \cup {i} ELSE roles
  /\ Continue
  /\ UNCHANGED <<data_items, misc, exit, panic>>

\* The first of its methods that is not supported ends the macro.
RefusePerformance(i) ==
  /\ Reading(i) /\ IsPerformance(i)
  /\ items[i].impl.trait # "none" /\ Unsupported(items[i].impl)
  /\ verdict' = "error" /\ errors' = {i}
  /\ UNCHANGED <<inputVars, next, declVars, outputVars>>

\* imp.trait_.as_ref().unwrap()
AbortOnInherent(i) ==
  /\ Reading(i) /\ IsPerformance(i) /\ items[i].impl.trait = "none"
  /\ verdict' = "abort"
  /\ UNCHANGED <<inputVars, next, declVars, errors, outputVars>>

\* Mutant: the first function of a name wins.
ReadHook_KeepsFirst(i) ==
  /\ Reading(i) /\ Sort(i) \in {"stop", "catch"}
  /\ exit' = IF Sort(i) = "stop" /\ exit = 0 THEN i ELSE exit
  /\ panic' = IF Sort(i) = "catch" /\ panic = 0 THEN i ELSE panic
  /\ Continue
  /\ UNCHANGED <<performances, roles, data_items, misc>>

\* HandlerFunctions::add replaces what was there.
ReadHook(i) ==
  /\ Reading(i) /\ Sort(i) \in {"stop", "catch"}
  /\ exit' = IF Sort(i) = "stop" THEN i ELSE exit
  /\ panic' = IF Sort(i) = "catch" THEN i ELSE panic
  /\ Continue
  /\ UNCHANGED <<performances, roles, data_items, misc>>

ReadData(i) ==
  /\ Reading(i) /\ Sort(i) = "data"
  /\ data_items' = data_items \cup {i}
  /\ Continue
  /\ UNCHANGED <<performances, roles, misc, exit, panic>>

\* Mutant: impl blocks without the attribute are dropped.
ReadOther_NoImpl(i) ==
  /\ Reading(i) /\ Sort(i) \notin {"stop", "catch", "data"} /\ ~IsPerformance(i)
  /\ misc' = IF Sort(i) = "impl" THEN misc ELSE misc \cup {i}
  /\ Continue
  /\ UNCHANGED <<performances, roles, data_items, exit, panic>>

\* Everything else is passed through.
ReadOther(i) ==
  /\ Reading(i) /\ Sort(i) \notin {"stop", "catch", "data"} /\ ~IsPerformance(i)
  /\ misc' = misc \cup {i}
  /\ Continue
  /\ UNCHANGED <<performances, roles, data_items, exit, panic>>

\* data_items.into_iter().at_most_one(), then the check of the performances.
Declare ==
  /\ verdict = "reading" /\ next > Len(items)
  /\ verdict' = IF Cardinality(data_items) = 1 /\ performances # {} THEN "declared" ELSE "error"
  /\ errors' = IF Cardinality(data_items) > 1 THEN data_items
               ELSE IF verdict' = "error" THEN {0} ELSE {}
  /\ UNCHANGED <<inputVars, next, declVars, outputVars>>

-----------------------------------------------------------------------------
(* ActorOutput::new and make_performance                                   *)

\* Mutant: a performance without methods gets a dispatch function.
Dispatches_Always(b) == TRUE

\* PerfDispatch::new returns None for a performance without methods.
Dispatches(b) == b.methods # <<>>

\* create_sending_method makes the message of the patterns of the parameters: they
\* must parse as expressions, or PerfDispatch::new fails.
Unsendable(b) == \E k \in DOMAIN b.methods : b.methods[k] = "pattern"

\* The roles that cannot be defined, `trait a::b` does not parse, and the
\* performances that cannot be sent to.
BadRoles == {i \in roles : items[i].impl.extended}
BadPerformances == {i \in performances : Unsendable(items[i].impl)}

FirstOf(S) == CHOOSE i \in S : \A j \in S : i <= j

\* Mutant: the error of a performance is dropped with the performance.
Expand_DropsErrors ==
  /\ verdict = "declared"
  /\ IF BadRoles = {}
     THEN /\ verdict' = "expanded"
          /\ dispatching' = {i \in performances \ BadPerformances : Dispatches(items[i].impl)}
          /\ UNCHANGED errors
     ELSE verdict' = "error" /\ errors' = {FirstOf(BadRoles)} /\ UNCHANGED dispatching
  /\ UNCHANGED <<inputVars, next, declVars, accepted, refused>>

\* Roles come first, and the first role or performance that fails ends the macro.
Expand ==
  /\ verdict = "declared"
  /\ LET bad == IF BadRoles # {} THEN BadRoles ELSE BadPerformances
     IN  IF bad = {}
         THEN /\ verdict' = "expanded"
              /\ dispatching' = {i \in performances : Dispatches(items[i].impl)}
              /\ UNCHANGED errors
         ELSE verdict' = "error" /\ errors' = {FirstOf(bad)} /\ UNCHANGED dispatching
  /\ UNCHANGED <<inputVars, next, declVars, accepted, refused>>

\* Outside of a module a performance is expanded on its own.
ExpandPerformance(b) ==
  /\ b \in outside \ (accepted \cup refused)
  /\ IF /\ b.trait # "none" /\ b.selfpath
        /\ ~Unsupported(b) /\ ~Unsendable(b) /\ Dispatches(b)
     THEN accepted' = accepted \cup {b} /\ UNCHANGED refused
     ELSE refused' = refused \cup {b} /\ UNCHANGED accepted
  /\ UNCHANGED <<inputVars, next, declVars, verdict, errors, dispatching>>

Next ==
  \/ \E i \in DOMAIN items :
       \/ ReadPerformance(i) \/ RefusePerformance(i) \/ AbortOnInherent(i)
       \/ ReadHook(i) \/ ReadData(i) \/ ReadOther(i)
  \/ Declare \/ Expand
  \/ \E b \in outside : ExpandPerformance(b)

Spec == Init /\ [][Next]_vars

-----------------------------------------------------------------------------
(* Properties                                                              *)

Indices == DOMAIN items

TypeOK ==
  /\ items \in Seq(Items) /\ outside \in Outsides
  /\ next \in 1..(Len(items) + 1)
  /\ UNION {performances, roles, data_items, misc, dispatching} \subseteq Indices
  /\ {exit, panic} \cup errors \subseteq Indices \cup {0}
  /\ roles \cup dispatching \subseteq performances
  /\ misc \cap (performances \cup data_items \cup {exit, panic}) = {}
  /\ verdict \in Final \cup {"reading", "declared"}
  /\ accepted \cup refused \subseteq outside

AllOf(sort) == {i \in Indices : Sort(i) = sort}
AllPerformances == {i \in Indices : IsPerformance(i)}
Broken(i) == items[i].impl.trait = "none" \/ Unsupported(items[i].impl)

\* What there is to say of a module as a whole, in the order of precedence of the
\* errors: a performance that cannot be read, the number of data items and of
\* performances (shakespeare-macro/src/lib.rs:101), a role that cannot be defined, a
\* performance that cannot be sent to.
Answer ==
  LET unread == {i \in AllPerformances : Broken(i)}
      undefined == {i \in AllPerformances : items[i].impl.canonical /\ items[i].impl.extended}
      unsendable == {i \in AllPerformances : Unsendable(items[i].impl)}
      error(at) == [verdict |-> "error", errors |-> at]
  IN  IF unread # {} THEN
        IF items[FirstOf(unread)].impl.trait = "none"
        THEN [verdict |-> "abort", errors |-> {}]
        ELSE error({FirstOf(unread)})
      ELSE IF Cardinality(AllOf("data")) > 1 THEN error(AllOf("data"))
      ELSE IF AllOf("data") = {} \/ AllPerformances = {} THEN error({0})
      ELSE IF undefined # {} THEN error({FirstOf(undefined)})
      ELSE IF unsendable # {} THEN error({FirstOf(unsendable)})
      ELSE [verdict |-> "expanded", errors |-> {}]

\* The macro reads a module item by item, ends at the first performance it cannot
\* read and expands in parts that fail one by one; yet what it says in the end is what
\* the whole module calls for: it expands exactly the modules it can, reports all
\* extra data items (tests/fails/multiple_data.rs), and of performances the first at
\* fault, whatever comes after it.
VerdictFitsModule ==
  verdict \in Final => [verdict |-> verdict, errors |-> errors] = Answer

\* shakespeare-macro/src/lib.rs:108: nothing of an accepted module disappears: an
\* item is in one part of the output, or a later `stop` or `catch` took its place.
NothingIsLost ==
  verdict = "expanded" =>
    \A i \in Indices :
      \/ i \in {exit, panic}
      \/ Sort(i) \in {"stop", "catch"} /\ \E j \in {exit, panic} : j > i /\ Sort(j) = Sort(i)
      \/ Cardinality({part \in {performances, data_items, misc} : i \in part}) = 1

\* What the loop has read of a set of items, and a hook that no later item replaced.
ReadOf(S) == {i \in S : i < next}

LastHook(h, sort) ==
  /\ h # 0 => h \in ReadOf(AllOf(sort))
  /\ \A i \in ReadOf(AllOf(sort)) : i <= h

\* Each part of the declaration is exactly what of the module belongs there.
PartsOfTheModule ==
  /\ performances = ReadOf(AllPerformances)
  /\ \A i \in performances : ~Broken(i)
  /\ roles = {i \in performances : items[i].impl.canonical}
  /\ data_items = ReadOf(AllOf("data"))
  /\ misc = ReadOf(AllOf("fn") \cup AllOf("other") \cup (AllOf("impl") \ AllPerformances))
  /\ LastHook(exit, "stop") /\ LastHook(panic, "catch")

\* Whatever was accepted was read to its end, and what was not has a reason.
ReadAndCounted ==
  next > Len(items) /\ Cardinality(data_items) = 1 /\ performances # {}

ReasonForVerdict ==
  /\ verdict # "error" => errors = {}
  /\ verdict \in {"declared", "expanded"} => ReadAndCounted
  /\ verdict = "expanded" =>
       /\ BadRoles = {} /\ BadPerformances = {}
       /\ dispatching = {i \in performances : Dispatches(items[i].impl)}
  /\ verdict = "abort" => next \in AllPerformances /\ items[next].impl.trait = "none"
  /\ verdict = "error" =>
       \/ /\ next \in AllPerformances /\ Broken(next) /\ items[next].impl.trait # "none"
          /\ errors = {next}
       \/ next > Len(items) /\ Cardinality(data_items) > 1 /\ errors = data_items
       \/ /\ next > Len(items) /\ ~(Cardinality(data_items) > 1)
          /\ Cardinality(data_items) # 1 \/ performances = {}
          /\ errors = {0}
       \/ ReadAndCounted /\ BadRoles # {} /\ errors = {FirstOf(BadRoles)}
       \/ /\ ReadAndCounted /\ BadRoles = {} /\ BadPerformances # {}
          /\ errors = {FirstOf(BadPerformances)}

\* The inductive invariant: what ActorDecl::new has made of the items so far, and
\* why it stopped.
IInv ==
  /\ TypeOK
  /\ PartsOfTheModule
  /\ ReasonForVerdict

\* The blocks for a role, inside and outside.
Inside(r) == {i \in AllPerformances : items[i].impl.trait = r}
Outside(r) == {b \in outside : b.trait = r}

\* shakespeare-macro/src/lib.rs:179: the body of a performance may be outside if the
\* block inside is empty; then, too, there is one dispatch function for its queue.
SplitPerformancesFit ==
  verdict = "expanded" /\ outside = accepted =>
    \A r \in RoleNames :
      (\E i \in Indices :
         /\ Inside(r) = {i}
         /\ IF items[i].impl.methods = <<>>
            THEN \E b \in outside : Outside(r) = {b}
            ELSE Outside(r) = {})
        => Cardinality(dispatching \cap Inside(r)) + Cardinality(accepted \cap Outside(r)) = 1
=============================================================================
