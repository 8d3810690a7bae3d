----------------------------- MODULE Serializer -----------------------------
(***************************************************************************)
(* What the Executor interface of internal/infrastructure/actor promises,  *)
(* without locks, channels or goroutines: the operations of one key are    *)
(* executed one at a time in the order in which they were accepted, an     *)
(* operation is accepted at most once and never after the shutdown, and    *)
(* the shutdown is complete only when every accepted operation has run.    *)
(***************************************************************************)
EXTENDS Sequences

CONSTANTS Calls, Keys, None

VARIABLES
  waiting,  \* per key, the accepted operations that have not started
  active,   \* per key, the operation being executed
  ran,      \* operations that have been executed
  answer,   \* what each caller was told
  shut,     \* no operation is accepted any more
  quiet     \* the shutdown is complete

vars == <<waiting, active, ran, answer, shut, quiet>>

Known(c) ==
  \/ c \in ran
  \/ \E k \in Keys : active[k] = c \/ \E i \in DOMAIN waiting[k] : waiting[k][i] = c

Init ==
  /\ waiting = [k \in Keys |-> <<>>]
  /\ active = [k \in Keys |-> None]
  /\ ran = {}
  /\ answer = [c \in Calls |-> "none"]
  /\ shut = FALSE
  /\ quiet = FALSE

Accept(c, k) ==
  /\ ~shut /\ answer[c] = "none" /\ ~Known(c)
  /\ waiting' = [waiting EXCEPT ![k] = Append(@, c)]
  /\ UNCHANGED <<active, ran, answer, shut, quiet>>

Begin(k) ==
  /\ active[k] = None /\ waiting[k] # <<>>
  /\ active' = [active EXCEPT ![k] = Head(waiting[k])]
  /\ waiting' = [waiting EXCEPT ![k] = Tail(@)]
  /\ UNCHANGED <<ran, answer, shut, quiet>>

End(k) ==
  /\ active[k] # None
  /\ ran' = ran \cup {active[k]}
  /\ active' = [active EXCEPT ![k] = None]
  /\ UNCHANGED <<waiting, answer, shut, quiet>>

\* "ok" only after execution, "closed" only for an operation that will never
\* run, "ctx" says nothing about the operation.
Tell(c, a) ==
  /\ answer[c] = "none"
  /\ \/ a = "ok" /\ c \in ran
     \/ a = "closed" /\ shut /\ ~Known(c)
     \/ a = "ctx"
  /\ answer' = [answer EXCEPT ![c] = a]
  /\ UNCHANGED <<waiting, active, ran, shut, quiet>>

Shut ==
  /\ ~shut
  /\ shut' = TRUE
  /\ UNCHANGED <<waiting, active, ran, answer, quiet>>

Quiesce ==
  /\ shut /\ ~quiet
  /\ \A k \in Keys : waiting[k] = <<>> /\ active[k] = None
  /\ quiet' = TRUE
  /\ UNCHANGED <<waiting, active, ran, answer, shut>>

Next ==
  \/ \E c \in Calls, k \in Keys : Accept(c, k)
  \/ \E k \in Keys : Begin(k) \/ End(k)
  \/ \E c \in Calls, a \in {"ok", "closed", "ctx"} : Tell(c, a)
  \/ Shut
  \/ Quiesce

Spec == Init /\ [][Next]_vars
=============================================================================
