--------------------------- MODULE ActorContract ---------------------------
(***************************************************************************)
(* What an actor promises the holders of its handles, with no event loop   *)
(* in sight: one first-in-first-out mailbox per role, one handler at a     *)
(* time, and the only reasons for which the actor may leave its serving    *)
(* phase: a panic, a stop request whose backlog has been worked off, or    *)
(* the last handle being gone.  ActorLoop implements this specification.   *)
(*                                                                         *)
(* It is a safety contract.  It leaves open when an actor without handles  *)
(* leaves, and what becomes of a message that is still in a mailbox then.  *)
(***************************************************************************)
EXTENDS Naturals, Sequences, Functions

CONSTANTS Roles, Msgs, Holders

VARIABLES
  mailbox,   \* role -> the messages accepted and not taken yet
  handles,   \* the holders of a handle
  stopped,   \* whether a handler asked the actor to stop
  backlog,   \* the messages that were waiting when it did
  phase,     \* "serving", then "ending" (its hook runs), then "ended"
  fate,      \* message -> what became of it
  verdict    \* what the owner of the exit handle was told

vars == <<mailbox, handles, stopped, backlog, phase, fate, verdict>>

Waiting == {m \in Msgs : fate[m] = "queued"}
Busy == \E m \in Msgs : fate[m] = "handling"

\* `start` returns one handle; there may be clones before the first message.
Init ==
  /\ mailbox = [r \in Roles |-> <<>>]
  /\ handles \subseteq Holders /\ handles # {}
  /\ stopped = FALSE /\ backlog = {}
  /\ phase = "serving"
  /\ fate = [m \in Msgs |-> "unsent"]
  /\ verdict = "pending"

\* A sender, the running handler maybe, may clone its handle, or let go of it,
\* as it sends.
Accept(r, m) ==
  /\ handles # {} \/ Busy
  /\ fate[m] = "unsent" /\ phase # "ended"
  /\ mailbox' = [mailbox EXCEPT ![r] = Append(@, m)]
  /\ fate' = [fate EXCEPT ![m] = "queued"]
  /\ handles' \subseteq Holders
  /\ UNCHANGED <<stopped, backlog, phase, verdict>>

Reject(m) ==
  /\ handles # {} /\ fate[m] = "unsent" /\ phase # "serving"
  /\ fate' = [fate EXCEPT ![m] = "rejected"]
  /\ handles' \subseteq Holders
  /\ UNCHANGED <<mailbox, stopped, backlog, phase, verdict>>

Take(r) ==
  /\ phase = "serving" /\ ~Busy /\ mailbox[r] # <<>>
  /\ mailbox' = [mailbox EXCEPT ![r] = Tail(@)]
  /\ fate' = [fate EXCEPT ![Head(mailbox[r])] = "handling"]
  /\ UNCHANGED <<handles, stopped, backlog, phase, verdict>>

\* The handles in a message go with it.
Complete(m) ==
  /\ fate[m] = "handling"
  /\ fate' = [fate EXCEPT ![m] = "done"]
  /\ handles' \subseteq handles
  /\ UNCHANGED <<mailbox, stopped, backlog, phase, verdict>>

Panic(m) ==
  /\ fate[m] = "handling"
  /\ fate' = [fate EXCEPT ![m] = "failed"]
  /\ phase' = "ending"
  /\ handles' \subseteq handles
  /\ UNCHANGED <<mailbox, stopped, backlog, verdict>>

Stop ==
  /\ Busy
  /\ stopped' = TRUE
  /\ backlog' = backlog \cup Waiting
  /\ UNCHANGED <<mailbox, handles, phase, fate, verdict>>

\* Handles come from handles, and from the handler that is running.
Acquire(h) ==
  /\ handles # {} \/ Busy
  /\ handles' = handles \cup {h}
  /\ UNCHANGED <<mailbox, stopped, backlog, phase, fate, verdict>>

\* Handles go, several at once when their common owner does.
Release ==
  /\ handles' \subseteq handles
  /\ UNCHANGED <<mailbox, stopped, backlog, phase, fate, verdict>>

Leave ==
  /\ phase = "serving" /\ ~Busy
  /\ handles = {} \/ stopped
  /\ backlog \cap Waiting = {}
  /\ phase' = "ending"
  /\ UNCHANGED <<mailbox, handles, stopped, backlog, fate, verdict>>

Lose(r) ==
  /\ phase = "ending"
  /\ mailbox' = [mailbox EXCEPT ![r] = <<>>]
  /\ fate' = [m \in Msgs |-> IF m \in Range(mailbox[r]) THEN "lost" ELSE fate[m]]
  /\ handles' \subseteq handles
  /\ UNCHANGED <<stopped, backlog, phase, verdict>>

End ==
  /\ phase = "ending" /\ Waiting = {}
  /\ phase' = "ended"
  /\ UNCHANGED <<mailbox, handles, stopped, backlog, fate, verdict>>

\* The exit handle tells, once, how the actor ended: a hook of the user's that
\* panics is the only way to another answer.
Report ==
  /\ verdict = "pending"
  /\ \/ /\ phase = "ended"
        /\ verdict' \in {"unreachable",
             IF \E m \in Msgs : fate[m] = "failed" THEN "Panic" ELSE "Exit"}
     \/ verdict' = "detached"
  /\ UNCHANGED <<mailbox, handles, stopped, backlog, phase, fate>>

Next ==
  \/ \E r \in Roles, m \in Msgs : Accept(r, m)
  \/ \E r \in Roles : Take(r) \/ Lose(r)
  \/ \E m \in Msgs : Reject(m) \/ Complete(m) \/ Panic(m)
  \/ \E h \in Holders : Acquire(h)
  \/ Release \/ Stop \/ Leave \/ End \/ Report

Spec == Init /\ [][Next]_vars
=============================================================================
