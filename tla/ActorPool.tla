------------------------------ MODULE ActorPool ------------------------------
(***************************************************************************)
(* The per-(scope, path) actor pool of internal/infrastructure/actor.      *)
(*                                                                         *)
(* Every goroutine that runs Pool.Do is a member of Calls: it makes one    *)
(* call, on one key, and returns.  Every goroutine that runs Pool.Close is *)
(* a member of Closers.  Each key that has been used owns a channel and an *)
(* actor goroutine.                                                        *)
(*                                                                         *)
(* Pool.mu is a Go sync.RWMutex.  A goroutine that asks for the write lock *)
(* first becomes the announced writer, which keeps new readers out, and    *)
(* enters once the readers that already hold the lock have left.  The      *)
(* critical sections of create and Close never block, so each of them is   *)
(* one step, taken when the announced writer finds no reader left.         *)
(***************************************************************************)
EXTENDS Naturals, Sequences, FiniteSets

CONSTANTS Calls,       \* goroutines that call Do, once each
          Closers,     \* goroutines that call Close, once each
          Keys,        \* (scope, path) pairs
          KeyChoices,  \* which key each call may be about
          BufferSize,  \* capacity of an actor's channel (WithBufferSize)
          None         \* "nobody": no writer announced, no operation running

Threads == Calls \cup Closers

ASSUME ThreadsAssumption == Calls \cap Closers = {}
ASSUME NoneAssumption    == None \notin Threads
ASSUME KeyAssumption     == KeyChoices \subseteq [Calls -> Keys]
ASSUME BufferAssumption  == BufferSize \in Nat

VARIABLES
  pc,         \* where each goroutine is in Do or Close
  key,        \* the key of each call, chosen when Do is entered
  answer,     \* what Do returned, "none" before it returns
  readers,    \* calls that hold mu for reading
  writer,     \* the announced writer of mu
  closed,     \* Pool.closed
  actors,     \* DOMAIN of Pool.actors: keys that have a channel and an actor
  queue,      \* the operations in each key's channel
  running,    \* the operation each actor executes
  finished,   \* operations whose fn has returned
  shutCh,     \* keys whose channel has been closed
  exited,     \* keys whose actor goroutine has left its loop
  toClose,    \* Close's local slice of the channels it still has to close
  preceded    \* history: the calls that had returned when each call entered Do

callVars  == <<key, preceded>>
lockVars  == <<readers, writer>>
actorVars == <<queue, running, finished, exited>>
closeVars == <<closed, shutCh, toClose>>
vars == <<pc, key, answer, readers, writer, closed, actors, queue,
          running, finished, shutCh, exited, toClose, preceded>>

CallPC  == {"idle", "rlock", "create", "lock", "relock", "sending", "waiting",
            "returned"}
ClosePC == {"idle", "close", "lock", "closing", "returned", "noop"}
Answers == {"none", "ok", "closed", "ctx"}

Init ==
  /\ pc        = [t \in Threads |-> "idle"]
  /\ key       \in KeyChoices
  /\ answer    = [c \in Calls |-> "none"]
  /\ readers   = {}
  /\ writer    = None
  /\ closed    = FALSE
  /\ actors    = {}
  /\ queue     = [k \in Keys |-> <<>>]
  /\ running   = [k \in Keys |-> None]
  /\ finished  = {}
  /\ shutCh    = {}
  /\ exited    = {}
  /\ toClose   = [x \in Closers |-> {}]
  /\ preceded  = [c \in Calls |-> {}]

-----------------------------------------------------------------------------
(* Pool.Do                                                                 *)

Goto(t, from, to) ==
  /\ pc[t] = from
  /\ pc' = [pc EXCEPT ![t] = to]

\* Do leaves with answer a.
Return(c, from, a) ==
  /\ Goto(c, from, "returned")
  /\ answer' = [answer EXCEPT ![c] = a]

\* A caller enters Do.
Invoke(c) ==
  /\ Goto(c, "idle", "rlock")
  /\ preceded' = [preceded EXCEPT ![c] = {d \in Calls : pc[d] = "returned"}]
  /\ UNCHANGED <<key, answer, lockVars, closeVars, actors, actorVars>>

\* The first read-locked section: closed check, then the map lookup.  The lock
\* is kept only when the channel was found.
Lookup(c) ==
  /\ writer = None
  /\ \/ /\ closed
        /\ Return(c, "rlock", "closed")
        /\ UNCHANGED readers
     \/ /\ ~closed /\ key[c] \in actors
        /\ Goto(c, "rlock", "sending")
        /\ readers' = readers \cup {c}
        /\ UNCHANGED answer
     \/ /\ ~closed /\ key[c] \notin actors
        /\ Goto(c, "rlock", "create")
        /\ UNCHANGED <<answer, readers>>
  /\ UNCHANGED <<callVars, writer, closeVars, actors, actorVars>>

\* create asks for the write lock.
CreateLock(c) ==
  /\ writer = None
  /\ Goto(c, "create", "lock")
  /\ writer' = c
  /\ UNCHANGED <<callVars, answer, readers, closeVars, actors, actorVars>>

\* The body of create: nil when closed, the existing channel when another call
\* made it first, otherwise a new channel with its actor goroutine.
Create(c) ==
  /\ writer = c /\ readers = {}
  /\ \/ /\ closed
        /\ Return(c, "lock", "closed")
        /\ UNCHANGED actors
     \/ /\ ~closed
        /\ Goto(c, "lock", "relock")
        /\ actors' = actors \cup {key[c]}
        /\ UNCHANGED answer
  /\ writer' = None
  /\ UNCHANGED <<callVars, readers, closeVars, actorVars>>

\* Mutant: Do trusts the channel create gave it and does not look at closed again.
RelockUnchecked(c) ==
  /\ writer = None
  /\ Goto(c, "relock", "sending")
  /\ readers' = readers \cup {c}
  /\ UNCHANGED <<callVars, answer, writer, closeVars, actors, actorVars>>

\* Do takes the read lock again and looks at closed again.
Relock(c) ==
  /\ writer = None
  /\ \/ /\ closed
        /\ Return(c, "relock", "closed")
        /\ UNCHANGED readers
     \/ /\ ~closed
        /\ Goto(c, "relock", "sending")
        /\ readers' = readers \cup {c}
        /\ UNCHANGED answer
  /\ UNCHANGED <<callVars, writer, closeVars, actors, actorVars>>

\* A channel of capacity BufferSize accepts a value when it has room, or, when
\* it has no buffer, when the actor is waiting in its receive.
CanSend(k) ==
  \/ Len(queue[k]) < BufferSize
  \/ queue[k] = <<>> /\ running[k] = None

\* Mutant: the newest operation goes to the front of the queue.
SendInFront(c) ==
  /\ Goto(c, "sending", "waiting")
  /\ CanSend(key[c])
  /\ queue' = [queue EXCEPT ![key[c]] = <<c>> \o @]
  /\ readers' = readers \ {c}
  /\ UNCHANGED <<callVars, answer, writer, closeVars, actors, running,
                 finished, exited>>

\* Mutant: the RUnlock after the select is missing.
SendKeepsLock(c) ==
  /\ Goto(c, "sending", "waiting")
  /\ CanSend(key[c])
  /\ queue' = [queue EXCEPT ![key[c]] = Append(@, c)]
  /\ UNCHANGED <<callVars, answer, lockVars, closeVars, actors, running,
                 finished, exited>>

\* The send succeeds; the read lock, held while the send blocked, is released.
Send(c) ==
  /\ Goto(c, "sending", "waiting")
  /\ CanSend(key[c])
  /\ queue' = [queue EXCEPT ![key[c]] = Append(@, c)]
  /\ readers' = readers \ {c}
  /\ UNCHANGED <<callVars, answer, writer, closeVars, actors, running,
                 finished, exited>>

\* The caller's context ends (cancelled, or its deadline passes) before the
\* send went through.
CancelSend(c) ==
  /\ Return(c, "sending", "ctx")
  /\ readers' = readers \ {c}
  /\ UNCHANGED <<callVars, writer, closeVars, actors, actorVars>>

\* The actor's answer is in the done channel.
Reply(c) ==
  /\ c \in finished
  /\ Return(c, "waiting", "ok")
  /\ UNCHANGED <<callVars, lockVars, closeVars, actors, actorVars>>

\* The context is done before the answer was taken: Do returns, the operation
\* stays where it is and the actor will still execute it.
CancelWait(c) ==
  /\ Return(c, "waiting", "ctx")
  /\ UNCHANGED <<callVars, lockVars, closeVars, actors, actorVars>>

-----------------------------------------------------------------------------
(* The actor goroutine of key k: for o := range ch { o.done <- o.fn() }    *)

\* Receiving drains a closed channel before the range loop ends.
Start(k) ==
  /\ k \in actors \ exited
  /\ running[k] = None /\ queue[k] # <<>>
  /\ running' = [running EXCEPT ![k] = Head(queue[k])]
  /\ queue' = [queue EXCEPT ![k] = Tail(@)]
  /\ UNCHANGED <<pc, callVars, answer, lockVars, closeVars, actors,
                 finished, exited>>

\* Mutant: the actor receives without noticing that the channel is closed and
\* executes the zero operation.
FinishZero(k) ==
  /\ running[k] # None \/ k \in shutCh
  /\ finished' = finished \cup {running[k]}
  /\ running' = [running EXCEPT ![k] = None]
  /\ UNCHANGED <<pc, callVars, answer, lockVars, closeVars, actors,
                 queue, exited>>

\* fn returns; done has capacity one, so the actor never waits for the caller.
Finish(k) ==
  /\ running[k] # None
  /\ finished' = finished \cup {running[k]}
  /\ running' = [running EXCEPT ![k] = None]
  /\ UNCHANGED <<pc, callVars, answer, lockVars, closeVars, actors,
                 queue, exited>>

\* Mutant: the actor stops when it is told to, without draining its channel.
ExitAtOnce(k) ==
  /\ k \in (actors \cap shutCh) \ exited
  /\ running[k] = None
  /\ exited' = exited \cup {k}
  /\ UNCHANGED <<pc, callVars, answer, lockVars, closeVars, actors,
                 queue, running, finished>>

\* The closed channel is empty: the range loop ends.
Exit(k) ==
  /\ k \in (actors \cap shutCh) \ exited
  /\ running[k] = None /\ queue[k] = <<>>
  /\ exited' = exited \cup {k}
  /\ UNCHANGED <<pc, callVars, answer, lockVars, closeVars, actors,
                 queue, running, finished>>

-----------------------------------------------------------------------------
(* Pool.Close                                                              *)

InvokeClose(x) ==
  /\ Goto(x, "idle", "close")
  /\ UNCHANGED <<callVars, answer, lockVars, closeVars, actors, actorVars>>

CloseLock(x) ==
  /\ writer = None
  /\ Goto(x, "close", "lock")
  /\ writer' = x
  /\ UNCHANGED <<callVars, answer, readers, closeVars, actors, actorVars>>

\* Mutant: Close does not ask whether the pool is closed already.
MarkClosedAgain(x) ==
  /\ writer = x /\ readers = {}
  /\ Goto(x, "lock", "closing")
  /\ closed' = TRUE
  /\ toClose' = [toClose EXCEPT ![x] = actors]
  /\ writer' = None
  /\ UNCHANGED <<callVars, answer, readers, shutCh, actors, actorVars>>

\* The locked part of Close.  A second Close returns here, at once.
MarkClosed(x) ==
  /\ writer = x /\ readers = {}
  /\ \/ /\ closed
        /\ Goto(x, "lock", "noop")
        /\ UNCHANGED <<closed, toClose>>
     \/ /\ ~closed
        /\ Goto(x, "lock", "closing")
        /\ closed' = TRUE
        /\ toClose' = [toClose EXCEPT ![x] = actors]
  /\ writer' = None
  /\ UNCHANGED <<callVars, answer, readers, shutCh, actors, actorVars>>

\* close(ch) for one of the collected channels, outside the lock.
CloseChannel(x, k) ==
  /\ pc[x] = "closing"
  /\ k \in toClose[x]
  /\ shutCh' = shutCh \cup {k}
  /\ toClose' = [toClose EXCEPT ![x] = @ \ {k}]
  /\ UNCHANGED <<pc, callVars, answer, lockVars, closed, actors, actorVars>>

\* Mutant: Close does not wait for the actors.
CloseNoWait(x) ==
  /\ toClose[x] = {}
  /\ Goto(x, "closing", "returned")
  /\ UNCHANGED <<callVars, answer, lockVars, closeVars, actors, actorVars>>

\* wg.Wait() returns once every actor goroutine has left its loop.
AwaitActors(x) ==
  /\ toClose[x] = {}
  /\ actors \subseteq exited
  /\ Goto(x, "closing", "returned")
  /\ UNCHANGED <<callVars, answer, lockVars, closeVars, actors, actorVars>>

-----------------------------------------------------------------------------
CallStep(c) ==
  \/ Lookup(c) \/ CreateLock(c) \/ Create(c) \/ Relock(c)
  \/ Send(c) \/ Reply(c)

ActorStep(k) == Start(k) \/ Finish(k) \/ Exit(k)

CloserStep(x) ==
  \/ CloseLock(x) \/ MarkClosed(x) \/ AwaitActors(x)
  \/ \E k \in Keys : CloseChannel(x, k)

\* Every goroutine is where it stays: the stuttering this step allows keeps a
\* finished pool from counting as a deadlock, and nothing else does.
Terminated ==
  /\ \A t \in Threads : pc[t] \in {"idle", "returned", "noop"}
  /\ \A k \in Keys : queue[k] = <<>> /\ running[k] = None
  /\ UNCHANGED vars

Next ==
  \/ \E c \in Calls : Invoke(c) \/ CallStep(c) \/ CancelSend(c) \/ CancelWait(c)
  \/ \E k \in Keys : ActorStep(k)
  \/ \E x \in Closers : InvokeClose(x) \/ CloserStep(x)
  \/ Terminated

Spec == Init /\ [][Next]_vars

\* The Go scheduler runs every goroutine that can run, sync.RWMutex admits
\* every waiter when no other goroutine keeps asking for the lock (there are
\* finitely many), and every fn given to the pool returns.  Nothing makes a
\* caller call, a context end or an owner close the pool.
Fairness ==
  /\ \A c \in Calls   : WF_vars(CallStep(c))
  /\ \A k \in Keys    : WF_vars(ActorStep(k))
  /\ \A x \in Closers : WF_vars(CloserStep(x))

FairSpec == Spec /\ Fairness

-----------------------------------------------------------------------------
(* Properties                                                              *)

\* Every variable holds a value of its type: in particular an actor executes
\* operations of real callers only.
TypeOK ==
  /\ pc \in [Threads -> CallPC \cup ClosePC]
  /\ \A c \in Calls : pc[c] \in CallPC
  /\ \A x \in Closers : pc[x] \in ClosePC
  /\ key \in [Calls -> Keys]
  /\ answer \in [Calls -> Answers]
  /\ readers \subseteq Calls
  /\ writer \in Threads \cup {None}
  /\ closed \in BOOLEAN
  /\ actors \subseteq Keys
  /\ queue \in [Keys -> Seq(Calls)]
  /\ running \in [Keys -> Calls \cup {None}]
  /\ finished \subseteq Calls
  /\ shutCh \subseteq Keys
  /\ exited \subseteq Keys
  /\ toClose \in [Closers -> SUBSET Keys]
  /\ preceded \in [Calls -> SUBSET Calls]

Queued(c)   == \E i \in DOMAIN queue[key[c]] : queue[key[c]][i] = c
Accepted(c) == Queued(c) \/ running[key[c]] = c \/ c \in finished

\* Do's select never meets a closed channel (a send on one panics), although
\* Close closes the channels after it has given the lock back: every call in
\* the select still holds the read lock it saw closed = false under.
NoSendOnClosed == \A c \in Calls : pc[c] = "sending" => key[c] \notin shutCh

\* close(ch) is never called twice on a channel (that panics too), however
\* many goroutines call Close at the same time.
NoDoubleClose ==
  \A x, y \in Closers : x # y => toClose[x] \cap (toClose[y] \cup shutCh) = {}

\* Once Do has returned, for whatever reason, a call of the same key that is
\* made later is not executed before it: in particular the write of a caller
\* that gave up waiting cannot overtake, or be overtaken by, a later write.
RealTimeOrder ==
  \A c \in Calls : \A d \in preceded[c] :
    /\ key[c] = key[d]
    /\ running[key[c]] = c \/ c \in finished
    /\ Accepted(d)
    => d \in finished

\* Do and Close return: nobody waits for ever, not on the lock that a sender
\* holds while its channel is full, nor on an actor that has been told to stop.
Responsive ==
  /\ \A c \in Calls   : pc[c] = "rlock" ~> pc[c] = "returned"
  /\ \A x \in Closers : pc[x] = "close" ~> pc[x] \in {"returned", "noop"}

\* An operation that a channel has accepted is executed, also when its caller
\* has given up and when the pool has been closed in between.
AcceptedRuns == \A c \in Calls : Queued(c) ~> c \in finished

\* The pool implements the per-key serializer: the operations of a key run one
\* at a time in the order of acceptance, none is accepted after the shutdown,
\* and a Close that waited returns only when all accepted ones have run.
Abstract == INSTANCE Serializer WITH
  waiting <- queue, active <- running, ran <- finished, shut <- closed,
  quiet <- \E x \in Closers : pc[x] = "returned"

ImplementsSerializer == Abstract!Spec
=============================================================================
