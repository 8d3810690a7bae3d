--------------------------- MODULE ActorPoolProofs ---------------------------
(***************************************************************************)
(* Proofs about the actor pool, for every set of callers, closers and keys *)
(* and every channel capacity.                                             *)
(*                                                                         *)
(* NoSendOnClosed and NoDoubleClose are not inductive.  What makes them    *)
(* true is the read-write lock: the calls inside the select are exactly    *)
(* its readers, Close sets the closed flag when there are none, and no     *)
(* call gets in afterwards (LockInv, GateInv).  The refinement of          *)
(* Serializer follows an operation from the channel to the actor (RInv).   *)
(* RealTimeOrder compares what was executed; its invariant follows two     *)
(* operations from their calls on (KeyInv, PrecInv, OrderInv).             *)
(***************************************************************************)
EXTENDS ActorPool, TLAPS

\* The lock: the readers are the calls in the select of Do, and the announced
\* writer is the one goroutine between asking for the write lock and leaving.
LockInv ==
  /\ \A c \in Calls : c \in readers <=> pc[c] = "sending"
  /\ \A t \in Threads : pc[t] = "lock" => writer = t

\* The closed flag is a gate: before it is set no channel is closed or about to
\* be, after it is set no call is in the select; the channels still to be
\* closed belong to one closer and are not closed yet.
GateInv ==
  /\ closed => \A c \in Calls : pc[c] # "sending"
  /\ ~closed => /\ shutCh = {}
                /\ \A x \in Closers : toClose[x] = {} /\ pc[x] \notin {"closing", "returned"}
  /\ \A x \in Closers : toClose[x] \cap shutCh = {}
  /\ \A x, y \in Closers : x # y => toClose[x] \cap toClose[y] = {}

IInv == TypeOK /\ LockInv /\ GateInv

-----------------------------------------------------------------------------
\* Head and Tail of a non-empty channel are well typed.
LEMMA ChannelTypes ==
  ASSUME NEW S, NEW q \in Seq(S), q # <<>>
  PROVE  Head(q) \in S /\ Tail(q) \in Seq(S)
OBVIOUS

\* The initial state of New is well typed.
LEMMA InitType == Init => TypeOK
<1> SUFFICES ASSUME Init PROVE TypeOK
  OBVIOUS
<1> USE DEF Init
<1>1. pc \in [Threads -> CallPC \cup ClosePC]
  BY DEF CallPC
<1>2. (\A c \in Calls : pc[c] \in CallPC) /\ (\A x \in Closers : pc[x] \in ClosePC)
  BY DEF CallPC, ClosePC, Threads
<1>3. key \in [Calls -> Keys] /\ answer \in [Calls -> Answers]
  BY KeyAssumption DEF Answers
<1>4. queue \in [Keys -> Seq(Calls)] /\ running \in [Keys -> Calls \cup {None}]
  OBVIOUS
<1>5. closed \in BOOLEAN /\ toClose \in [Closers -> SUBSET Keys]
      /\ preceded \in [Calls -> SUBSET Calls]
  OBVIOUS
<1> QED
  BY <1>1, <1>2, <1>3, <1>4, <1>5 DEF TypeOK

\* Every step of Do, of an actor and of Close keeps the state well typed.
LEMMA NextType == TypeOK /\ [Next]_vars => TypeOK'
<1> SUFFICES ASSUME TypeOK, [Next]_vars PROVE TypeOK'
  OBVIOUS
<1> USE ThreadsAssumption DEF TypeOK, CallPC, ClosePC, Answers, Threads, Goto, Return,
        callVars, lockVars, actorVars, closeVars
<1>1. ASSUME NEW c \in Calls, Invoke(c) PROVE TypeOK'
  BY <1>1 DEF Invoke
<1>2. ASSUME NEW c \in Calls, Lookup(c) PROVE TypeOK'
  BY <1>2 DEF Lookup
<1>3. ASSUME NEW c \in Calls, CreateLock(c) PROVE TypeOK'
  BY <1>3 DEF CreateLock
<1>4. ASSUME NEW c \in Calls, Create(c) PROVE TypeOK'
  <2>1. CASE closed
    BY <1>4, <2>1 DEF Create
  <2>2. CASE ~closed
    <3>1. /\ pc' = [pc EXCEPT ![c] = "relock"] /\ actors' = actors \cup {key[c]}
          /\ writer' = None /\ UNCHANGED <<callVars, answer, readers, closeVars, actorVars>>
      BY <1>4, <2>2 DEF Create
    <3>2. key[c] \in Keys
      OBVIOUS
    <3> QED BY <3>1, <3>2
  <2> QED BY <2>1, <2>2
<1>5. ASSUME NEW c \in Calls, Relock(c) PROVE TypeOK'
  BY <1>5 DEF Relock
<1>6. ASSUME NEW c \in Calls, Send(c) PROVE TypeOK'
  BY <1>6 DEF Send
<1>7. ASSUME NEW c \in Calls, CancelSend(c) PROVE TypeOK'
  BY <1>7 DEF CancelSend
<1>8. ASSUME NEW c \in Calls, Reply(c) PROVE TypeOK'
  BY <1>8 DEF Reply
<1>9. ASSUME NEW c \in Calls, CancelWait(c) PROVE TypeOK'
  BY <1>9 DEF CancelWait
<1>10. ASSUME NEW k \in Keys, Start(k) PROVE TypeOK'
  BY <1>10, ChannelTypes DEF Start
<1>11. ASSUME NEW k \in Keys, Finish(k) PROVE TypeOK'
  BY <1>11 DEF Finish
<1>12. ASSUME NEW k \in Keys, Exit(k) PROVE TypeOK'
  BY <1>12 DEF Exit
<1>13. ASSUME NEW x \in Closers, InvokeClose(x) PROVE TypeOK'
  BY <1>13 DEF InvokeClose
<1>14. ASSUME NEW x \in Closers, CloseLock(x) PROVE TypeOK'
  BY <1>14 DEF CloseLock
<1>15. ASSUME NEW x \in Closers, MarkClosed(x) PROVE TypeOK'
  BY <1>15 DEF MarkClosed
<1>16. ASSUME NEW x \in Closers, NEW k \in Keys, CloseChannel(x, k) PROVE TypeOK'
  BY <1>16 DEF CloseChannel
<1>17. ASSUME NEW x \in Closers, AwaitActors(x) PROVE TypeOK'
  BY <1>17 DEF AwaitActors
<1>18. CASE UNCHANGED vars
  BY <1>18 DEF vars
<1>19. CASE Terminated
  BY <1>18, <1>19 DEF Terminated
<1> QED
  BY <1>1, <1>2, <1>3, <1>4, <1>5, <1>6, <1>7, <1>8, <1>9, <1>10, <1>11, <1>12,
     <1>13, <1>14, <1>15, <1>16, <1>17, <1>18, <1>19
  DEF Next, CallStep, ActorStep, CloserStep

\* Every reachable state of the pool is well typed.
THEOREM TypeCorrect == Spec => []TypeOK
<1> QED BY InitType, NextType, PTL DEF Spec

-----------------------------------------------------------------------------
\* The lock discipline is kept by every step.
LEMMA NextLock == TypeOK /\ LockInv /\ [Next]_vars => LockInv'
<1> SUFFICES ASSUME TypeOK, LockInv, [Next]_vars PROVE LockInv'
  OBVIOUS
<1> USE ThreadsAssumption, NoneAssumption
    DEF TypeOK, LockInv, Threads, Goto, Return, callVars, lockVars,
        actorVars, closeVars
<1>1. ASSUME NEW c \in Calls, Invoke(c) PROVE LockInv'
  BY <1>1 DEF Invoke
<1>2. ASSUME NEW c \in Calls, Lookup(c) PROVE LockInv'
  BY <1>2 DEF Lookup
<1>3. ASSUME NEW c \in Calls, CreateLock(c) PROVE LockInv'
  BY <1>3 DEF CreateLock
<1>4. ASSUME NEW c \in Calls, Create(c) PROVE LockInv'
  BY <1>4 DEF Create
<1>5. ASSUME NEW c \in Calls, Relock(c) PROVE LockInv'
  BY <1>5 DEF Relock
<1>6. ASSUME NEW c \in Calls, Send(c) PROVE LockInv'
  BY <1>6 DEF Send
<1>7. ASSUME NEW c \in Calls, CancelSend(c) PROVE LockInv'
  BY <1>7 DEF CancelSend
<1>8. ASSUME NEW c \in Calls, Reply(c) PROVE LockInv'
  BY <1>8 DEF Reply
<1>9. ASSUME NEW c \in Calls, CancelWait(c) PROVE LockInv'
  BY <1>9 DEF CancelWait
<1>10. ASSUME NEW k \in Keys, Start(k) PROVE LockInv'
  BY <1>10 DEF Start
<1>11. ASSUME NEW k \in Keys, Finish(k) PROVE LockInv'
  BY <1>11 DEF Finish
<1>12. ASSUME NEW k \in Keys, Exit(k) PROVE LockInv'
  BY <1>12 DEF Exit
<1>13. ASSUME NEW x \in Closers, InvokeClose(x) PROVE LockInv'
  BY <1>13 DEF InvokeClose
<1>14. ASSUME NEW x \in Closers, CloseLock(x) PROVE LockInv'
  BY <1>14 DEF CloseLock
<1>15. ASSUME NEW x \in Closers, MarkClosed(x) PROVE LockInv'
  BY <1>15 DEF MarkClosed
<1>16. ASSUME NEW x \in Closers, NEW k \in Keys, CloseChannel(x, k) PROVE LockInv'
  BY <1>16 DEF CloseChannel
<1>17. ASSUME NEW x \in Closers, AwaitActors(x) PROVE LockInv'
  BY <1>17 DEF AwaitActors
<1>18. CASE UNCHANGED vars
  BY <1>18 DEF vars
<1>19. CASE Terminated
  BY <1>18, <1>19 DEF Terminated
<1> QED
  BY <1>1, <1>2, <1>3, <1>4, <1>5, <1>6, <1>7, <1>8, <1>9, <1>10, <1>11, <1>12,
     <1>13, <1>14, <1>15, <1>16, <1>17, <1>18, <1>19
  DEF Next, CallStep, ActorStep, CloserStep

\* The closed flag stays a gate: here the lock is what the steps into the
\* select and the step that sets the flag rely on.
LEMMA NextGate == TypeOK /\ LockInv /\ GateInv /\ [Next]_vars => GateInv'
<1> SUFFICES ASSUME TypeOK, LockInv, GateInv, [Next]_vars PROVE GateInv'
  OBVIOUS
<1> USE ThreadsAssumption, NoneAssumption
    DEF TypeOK, LockInv, GateInv, Threads, Goto, Return, callVars, lockVars,
        actorVars, closeVars
<1>1. ASSUME NEW c \in Calls, Invoke(c) PROVE GateInv'
  BY <1>1 DEF Invoke
<1>2. ASSUME NEW c \in Calls, Lookup(c) PROVE GateInv'
  BY <1>2 DEF Lookup
<1>3. ASSUME NEW c \in Calls, CreateLock(c) PROVE GateInv'
  BY <1>3 DEF CreateLock
<1>4. ASSUME NEW c \in Calls, Create(c) PROVE GateInv'
  BY <1>4 DEF Create
<1>5. ASSUME NEW c \in Calls, Relock(c) PROVE GateInv'
  BY <1>5 DEF Relock
<1>6. ASSUME NEW c \in Calls, Send(c) PROVE GateInv'
  BY <1>6 DEF Send
<1>7. ASSUME NEW c \in Calls, CancelSend(c) PROVE GateInv'
  BY <1>7 DEF CancelSend
<1>8. ASSUME NEW c \in Calls, Reply(c) PROVE GateInv'
  BY <1>8 DEF Reply
<1>9. ASSUME NEW c \in Calls, CancelWait(c) PROVE GateInv'
  BY <1>9 DEF CancelWait
<1>10. ASSUME NEW k \in Keys, Start(k) PROVE GateInv'
  BY <1>10 DEF Start
<1>11. ASSUME NEW k \in Keys, Finish(k) PROVE GateInv'
  BY <1>11 DEF Finish
<1>12. ASSUME NEW k \in Keys, Exit(k) PROVE GateInv'
  BY <1>12 DEF Exit
<1>13. ASSUME NEW x \in Closers, InvokeClose(x) PROVE GateInv'
  BY <1>13 DEF InvokeClose
<1>14. ASSUME NEW x \in Closers, CloseLock(x) PROVE GateInv'
  BY <1>14 DEF CloseLock
<1>15. ASSUME NEW x \in Closers, MarkClosed(x) PROVE GateInv'
  BY <1>15 DEF MarkClosed
<1>16. ASSUME NEW x \in Closers, NEW k \in Keys, CloseChannel(x, k) PROVE GateInv'
  BY <1>16 DEF CloseChannel
<1>17. ASSUME NEW x \in Closers, AwaitActors(x) PROVE GateInv'
  BY <1>17 DEF AwaitActors
<1>18. CASE UNCHANGED vars
  BY <1>18 DEF vars
<1>19. CASE Terminated
  BY <1>18, <1>19 DEF Terminated
<1> QED
  BY <1>1, <1>2, <1>3, <1>4, <1>5, <1>6, <1>7, <1>8, <1>9, <1>10, <1>11, <1>12,
     <1>13, <1>14, <1>15, <1>16, <1>17, <1>18, <1>19
  DEF Next, CallStep, ActorStep, CloserStep

\* The inductive invariant holds initially and is kept by every step.
THEOREM Inductive == Spec => []IInv
<1>1. Init => IInv
  <2>1. Init => LockInv /\ GateInv
    BY DEF Init, LockInv, GateInv, Threads
  <2> QED BY <2>1, InitType DEF IInv
<1>2. IInv /\ [Next]_vars => IInv'
  BY NextType, NextLock, NextGate DEF IInv
<1> QED BY <1>1, <1>2, PTL DEF Spec

\* No call of Do ever sends on a closed channel, whatever the interleaving of
\* callers, actors and closers.
THEOREM SendSafe == Spec => []NoSendOnClosed
<1>1. IInv => NoSendOnClosed
  BY DEF IInv, GateInv, NoSendOnClosed
<1> QED BY <1>1, Inductive, PTL

\* No channel is ever closed twice.
THEOREM CloseOnce == Spec => []NoDoubleClose
<1>1. IInv => NoDoubleClose
  BY DEF IInv, GateInv, NoDoubleClose
<1> QED BY <1>1, Inductive, PTL

-----------------------------------------------------------------------------
(***************************************************************************)
(* The pool implements the serializer.  The refinement needs three more    *)
(* facts: an operation is known to a channel or an actor only once its     *)
(* call is past the send, an actor that has left its loop (or was never    *)
(* started) has nothing queued or running, and at most one closer waits.   *)
(***************************************************************************)
Past == {"waiting", "returned"}

AcceptInv ==
  /\ \A c \in Calls : answer[c] = "none" <=> pc[c] # "returned"
  /\ \A k \in Keys : \A i \in DOMAIN queue[k] : pc[queue[k][i]] \in Past
  /\ \A k \in Keys : running[k] # None => pc[running[k]] \in Past
  /\ \A c \in finished : pc[c] \in Past

ActorInv ==
  /\ \A c \in Calls : pc[c] \in {"relock", "sending"} => key[c] \in actors
  /\ \A k \in Keys \ actors : queue[k] = <<>> /\ running[k] = None
  /\ \A k \in exited : closed /\ queue[k] = <<>> /\ running[k] = None

CloserInv ==
  \A x, y \in Closers :
    pc[x] \in {"closing", "returned"} /\ pc[y] \in {"closing", "returned"} => x = y

RInv == IInv /\ AcceptInv /\ ActorInv /\ CloserInv

\* The channel that an operation is appended to, and the one that its head is
\* taken from, elementwise.
LEMMA ChannelElements ==
  ASSUME NEW S, NEW q \in Seq(S), NEW e \in S
  PROVE  /\ \A i \in DOMAIN Append(q, e) :
              Append(q, e)[i] = e \/ (i \in DOMAIN q /\ Append(q, e)[i] = q[i])
         /\ q # <<>> => /\ 1 \in DOMAIN q /\ Head(q) = q[1]
                        /\ \A i \in DOMAIN Tail(q) :
                             i + 1 \in DOMAIN q /\ Tail(q)[i] = q[i + 1]
OBVIOUS

\* A step that moves one goroutine and touches no channel keeps AcceptInv when
\* it does not move it back before the send and answers it when it returns.
LEMMA AcceptFrame ==
  ASSUME TypeOK, AcceptInv, NEW t \in Threads, NEW to, NEW a \in {"ok", "closed", "ctx"},
         pc' = [pc EXCEPT ![t] = to], UNCHANGED <<queue, running, finished>>,
         pc[t] \in Past => to \in Past,
         \/ answer' = answer /\ (t \in Calls => to # "returned" /\ pc[t] # "returned")
         \/ answer' = [answer EXCEPT ![t] = a] /\ to = "returned"
  PROVE  AcceptInv'
<1> USE DEF AcceptInv, TypeOK, Threads
<1>1. \A u \in Threads : pc[u] \in Past => pc'[u] \in Past
  OBVIOUS
<1>2. \A k \in Keys : \A i \in DOMAIN queue[k] : queue[k][i] \in Threads
  OBVIOUS
<1>3. \A k \in Keys : \A i \in DOMAIN queue'[k] : pc'[queue'[k][i]] \in Past
  BY <1>1, <1>2
<1>4. \A k \in Keys : running'[k] # None => pc'[running'[k]] \in Past
  BY <1>1
<1>5. \A c \in finished' : pc'[c] \in Past
  BY <1>1
<1>6. \A c \in Calls : answer'[c] = "none" <=> pc'[c] # "returned"
  OBVIOUS
<1> QED BY <1>3, <1>4, <1>5, <1>6

\* Only calls past the send are queued, running or finished, and a call has an
\* answer exactly when it has returned.
LEMMA NextAccept == TypeOK /\ AcceptInv /\ [Next]_vars => AcceptInv'
<1> SUFFICES ASSUME TypeOK, AcceptInv, [Next]_vars PROVE AcceptInv'
  OBVIOUS
<1> USE ThreadsAssumption, NoneAssumption
    DEF TypeOK, AcceptInv, Past, Threads, Goto, Return, callVars, lockVars,
        actorVars, closeVars
<1>1. ASSUME NEW c \in Calls, Invoke(c) PROVE AcceptInv'
  BY <1>1 DEF Invoke
<1>2. ASSUME NEW c \in Calls, Lookup(c) PROVE AcceptInv'
  <2>1. pc[c] = "rlock" /\ UNCHANGED <<queue, running, finished>>
    BY <1>2 DEF Lookup
  <2>2. CASE closed
    <3>1. pc' = [pc EXCEPT ![c] = "returned"] /\ answer' = [answer EXCEPT ![c] = "closed"]
      BY <1>2, <2>2 DEF Lookup
    <3> QED BY <2>1, <3>1, AcceptFrame
  <2>3. CASE ~closed
    <3>1. answer' = answer /\ \E to \in {"sending", "create"} : pc' = [pc EXCEPT ![c] = to]
      BY <1>2, <2>3 DEF Lookup
    <3> QED BY <2>1, <3>1, AcceptFrame
  <2> QED BY <2>2, <2>3
<1>3. ASSUME NEW c \in Calls, CreateLock(c) PROVE AcceptInv'
  BY <1>3 DEF CreateLock
<1>4. ASSUME NEW c \in Calls, Create(c) PROVE AcceptInv'
  <2>1. pc[c] = "lock" /\ UNCHANGED <<queue, running, finished>>
    BY <1>4 DEF Create
  <2>2. CASE closed
    <3>1. pc' = [pc EXCEPT ![c] = "returned"] /\ answer' = [answer EXCEPT ![c] = "closed"]
      BY <1>4, <2>2 DEF Create
    <3> QED BY <2>1, <3>1, AcceptFrame
  <2>3. CASE ~closed
    <3>1. answer' = answer /\ \E to \in {"relock"} : pc' = [pc EXCEPT ![c] = to]
      BY <1>4, <2>3 DEF Create
    <3> QED BY <2>1, <3>1, AcceptFrame
  <2> QED BY <2>2, <2>3
<1>5. ASSUME NEW c \in Calls, Relock(c) PROVE AcceptInv'
  <2>1. pc[c] = "relock" /\ UNCHANGED <<queue, running, finished>>
    BY <1>5 DEF Relock
  <2>2. CASE closed
    <3>1. pc' = [pc EXCEPT ![c] = "returned"] /\ answer' = [answer EXCEPT ![c] = "closed"]
      BY <1>5, <2>2 DEF Relock
    <3> QED BY <2>1, <3>1, AcceptFrame
  <2>3. CASE ~closed
    <3>1. answer' = answer /\ \E to \in {"sending"} : pc' = [pc EXCEPT ![c] = to]
      BY <1>5, <2>3 DEF Relock
    <3> QED BY <2>1, <3>1, AcceptFrame
  <2> QED BY <2>2, <2>3
<1>6. ASSUME NEW c \in Calls, Send(c) PROVE AcceptInv'
  BY <1>6, ChannelElements DEF Send
<1>7. ASSUME NEW c \in Calls, CancelSend(c) PROVE AcceptInv'
  BY <1>7 DEF CancelSend
<1>8. ASSUME NEW c \in Calls, Reply(c) PROVE AcceptInv'
  BY <1>8 DEF Reply
<1>9. ASSUME NEW c \in Calls, CancelWait(c) PROVE AcceptInv'
  BY <1>9 DEF CancelWait
<1>10. ASSUME NEW k \in Keys, Start(k) PROVE AcceptInv'
  BY <1>10, ChannelElements DEF Start
<1>11. ASSUME NEW k \in Keys, Finish(k) PROVE AcceptInv'
  BY <1>11 DEF Finish
<1>12. ASSUME NEW k \in Keys, Exit(k) PROVE AcceptInv'
  BY <1>12 DEF Exit
<1>13. ASSUME NEW x \in Closers, InvokeClose(x) PROVE AcceptInv'
  BY <1>13 DEF InvokeClose
<1>14. ASSUME NEW x \in Closers, CloseLock(x) PROVE AcceptInv'
  BY <1>14 DEF CloseLock
<1>15. ASSUME NEW x \in Closers, MarkClosed(x) PROVE AcceptInv'
  <2>1. /\ \E to \in {"closing", "noop"} : pc' = [pc EXCEPT ![x] = to]
        /\ pc[x] = "lock" /\ UNCHANGED <<answer, queue, running, finished>>
    BY <1>15 DEF MarkClosed
  <2> QED BY <2>1, AcceptFrame
<1>16. ASSUME NEW x \in Closers, NEW k \in Keys, CloseChannel(x, k) PROVE AcceptInv'
  BY <1>16 DEF CloseChannel
<1>17. ASSUME NEW x \in Closers, AwaitActors(x) PROVE AcceptInv'
  BY <1>17 DEF AwaitActors
<1>18. CASE UNCHANGED vars
  BY <1>18 DEF vars
<1>19. CASE Terminated
  BY <1>18, <1>19 DEF Terminated
<1> QED
  BY <1>1, <1>2, <1>3, <1>4, <1>5, <1>6, <1>7, <1>8, <1>9, <1>10, <1>11, <1>12,
     <1>13, <1>14, <1>15, <1>16, <1>17, <1>18, <1>19
  DEF Next, CallStep, ActorStep, CloserStep

\* Actors that do not exist, or have left their loop, hold no operation.
LEMMA NextActor == TypeOK /\ LockInv /\ GateInv /\ ActorInv /\ [Next]_vars => ActorInv'
<1> SUFFICES ASSUME TypeOK, LockInv, GateInv, ActorInv, [Next]_vars PROVE ActorInv'
  OBVIOUS
<1> USE ThreadsAssumption, NoneAssumption
    DEF TypeOK, LockInv, GateInv, ActorInv, Threads, Goto, Return, callVars, lockVars,
        actorVars, closeVars
<1>1. ASSUME NEW c \in Calls, Invoke(c) PROVE ActorInv'
  BY <1>1 DEF Invoke
<1>2. ASSUME NEW c \in Calls, Lookup(c) PROVE ActorInv'
  BY <1>2 DEF Lookup
<1>3. ASSUME NEW c \in Calls, CreateLock(c) PROVE ActorInv'
  BY <1>3 DEF CreateLock
<1>4. ASSUME NEW c \in Calls, Create(c) PROVE ActorInv'
  BY <1>4 DEF Create
<1>5. ASSUME NEW c \in Calls, Relock(c) PROVE ActorInv'
  BY <1>5 DEF Relock
<1>6. ASSUME NEW c \in Calls, Send(c) PROVE ActorInv'
  BY <1>6 DEF Send
<1>7. ASSUME NEW c \in Calls, CancelSend(c) PROVE ActorInv'
  BY <1>7 DEF CancelSend
<1>8. ASSUME NEW c \in Calls, Reply(c) PROVE ActorInv'
  BY <1>8 DEF Reply
<1>9. ASSUME NEW c \in Calls, CancelWait(c) PROVE ActorInv'
  BY <1>9 DEF CancelWait
<1>10. ASSUME NEW k \in Keys, Start(k) PROVE ActorInv'
  BY <1>10 DEF Start
<1>11. ASSUME NEW k \in Keys, Finish(k) PROVE ActorInv'
  BY <1>11 DEF Finish
<1>12. ASSUME NEW k \in Keys, Exit(k) PROVE ActorInv'
  BY <1>12 DEF Exit
<1>13. ASSUME NEW x \in Closers, InvokeClose(x) PROVE ActorInv'
  BY <1>13 DEF InvokeClose
<1>14. ASSUME NEW x \in Closers, CloseLock(x) PROVE ActorInv'
  BY <1>14 DEF CloseLock
<1>15. ASSUME NEW x \in Closers, MarkClosed(x) PROVE ActorInv'
  BY <1>15 DEF MarkClosed
<1>16. ASSUME NEW x \in Closers, NEW k \in Keys, CloseChannel(x, k) PROVE ActorInv'
  BY <1>16 DEF CloseChannel
<1>17. ASSUME NEW x \in Closers, AwaitActors(x) PROVE ActorInv'
  BY <1>17 DEF AwaitActors
<1>18. CASE UNCHANGED vars
  BY <1>18 DEF vars
<1>19. CASE Terminated
  BY <1>18, <1>19 DEF Terminated
<1> QED
  BY <1>1, <1>2, <1>3, <1>4, <1>5, <1>6, <1>7, <1>8, <1>9, <1>10, <1>11, <1>12,
     <1>13, <1>14, <1>15, <1>16, <1>17, <1>18, <1>19
  DEF Next, CallStep, ActorStep, CloserStep

\* Only the closer that set the flag gets past the locked part of Close.
LEMMA NextCloser == TypeOK /\ GateInv /\ CloserInv /\ [Next]_vars => CloserInv'
<1> SUFFICES ASSUME TypeOK, GateInv, CloserInv, [Next]_vars PROVE CloserInv'
  OBVIOUS
<1> USE ThreadsAssumption, NoneAssumption
    DEF TypeOK, GateInv, CloserInv, Threads, Goto, Return, callVars, lockVars,
        actorVars, closeVars
<1>1. ASSUME NEW c \in Calls, Invoke(c) PROVE CloserInv'
  BY <1>1 DEF Invoke
<1>2. ASSUME NEW c \in Calls, Lookup(c) PROVE CloserInv'
  BY <1>2 DEF Lookup
<1>3. ASSUME NEW c \in Calls, CreateLock(c) PROVE CloserInv'
  BY <1>3 DEF CreateLock
<1>4. ASSUME NEW c \in Calls, Create(c) PROVE CloserInv'
  BY <1>4 DEF Create
<1>5. ASSUME NEW c \in Calls, Relock(c) PROVE CloserInv'
  BY <1>5 DEF Relock
<1>6. ASSUME NEW c \in Calls, Send(c) PROVE CloserInv'
  BY <1>6 DEF Send
<1>7. ASSUME NEW c \in Calls, CancelSend(c) PROVE CloserInv'
  BY <1>7 DEF CancelSend
<1>8. ASSUME NEW c \in Calls, Reply(c) PROVE CloserInv'
  BY <1>8 DEF Reply
<1>9. ASSUME NEW c \in Calls, CancelWait(c) PROVE CloserInv'
  BY <1>9 DEF CancelWait
<1>10. ASSUME NEW k \in Keys, Start(k) PROVE CloserInv'
  BY <1>10 DEF Start
<1>11. ASSUME NEW k \in Keys, Finish(k) PROVE CloserInv'
  BY <1>11 DEF Finish
<1>12. ASSUME NEW k \in Keys, Exit(k) PROVE CloserInv'
  BY <1>12 DEF Exit
<1>13. ASSUME NEW x \in Closers, InvokeClose(x) PROVE CloserInv'
  BY <1>13 DEF InvokeClose
<1>14. ASSUME NEW x \in Closers, CloseLock(x) PROVE CloserInv'
  BY <1>14 DEF CloseLock
<1>15. ASSUME NEW x \in Closers, MarkClosed(x) PROVE CloserInv'
  BY <1>15 DEF MarkClosed
<1>16. ASSUME NEW x \in Closers, NEW k \in Keys, CloseChannel(x, k) PROVE CloserInv'
  BY <1>16 DEF CloseChannel
<1>17. ASSUME NEW x \in Closers, AwaitActors(x) PROVE CloserInv'
  BY <1>17 DEF AwaitActors
<1>18. CASE UNCHANGED vars
  BY <1>18 DEF vars
<1>19. CASE Terminated
  BY <1>18, <1>19 DEF Terminated
<1> QED
  BY <1>1, <1>2, <1>3, <1>4, <1>5, <1>6, <1>7, <1>8, <1>9, <1>10, <1>11, <1>12,
     <1>13, <1>14, <1>15, <1>16, <1>17, <1>18, <1>19
  DEF Next, CallStep, ActorStep, CloserStep

\* The strengthened invariant holds in every reachable state.
THEOREM Refinable == Spec => []RInv
<1>1. Init => AcceptInv /\ ActorInv /\ CloserInv
  BY ThreadsAssumption DEF Init, AcceptInv, ActorInv, CloserInv, Threads
<1>2. RInv /\ [Next]_vars => (AcceptInv /\ ActorInv /\ CloserInv)'
  BY NextAccept, NextActor, NextCloser DEF RInv, IInv
<1> QED BY <1>1, <1>2, Inductive, PTL DEF RInv, Spec

\* An operation whose call has not passed the send is unknown to the serializer.
LEMMA Unknown ==
  ASSUME RInv, NEW c \in Calls, pc[c] \notin Past
  PROVE  ~Abstract!Known(c)
BY NoneAssumption DEF RInv, IInv, TypeOK, AcceptInv, Abstract!Known, Threads

\* quiet is false while no closer has returned, and does not change in a step
\* that moves no closer to the end of Close.
LEMMA QuietFrame ==
  ASSUME NEW t \in Threads, NEW to, TypeOK, pc' = [pc EXCEPT ![t] = to],
         t \in Closers => pc[t] # "returned" /\ to # "returned"
  PROVE  (\E x \in Closers : pc[x] = "returned") <=> (\E x \in Closers : pc'[x] = "returned")
BY DEF TypeOK, Threads

\* Every step of the pool is a step of the serializer or leaves it as it is.
LEMMA StepRefines ==
  ASSUME RInv, RInv', [Next]_vars PROVE [Abstract!Next]_(Abstract!vars)
<1> USE ThreadsAssumption, NoneAssumption
    DEF Goto, Return, callVars, lockVars, actorVars, closeVars, Threads, Abstract!vars
<1> DEFINE Q == \E x \in Closers : pc[x] = "returned"
<1>t. TypeOK
  BY DEF RInv, IInv
<1>f. ASSUME NEW c \in Calls, NEW to, pc' = [pc EXCEPT ![c] = to] PROVE Q' = Q
  BY <1>f, <1>t, QuietFrame
<1>g. ASSUME NEW x \in Closers, NEW to \in {"close", "lock", "closing", "noop"},
             pc[x] \in {"idle", "close", "lock"}, pc' = [pc EXCEPT ![x] = to]
      PROVE  Q' = Q
  BY <1>g, <1>t, QuietFrame
<1>tell. ASSUME NEW c \in Calls, NEW a \in {"ok", "closed", "ctx"}, NEW from,
                Return(c, from, a), from # "returned",
                UNCHANGED <<queue, running, finished, closed>>,
                \/ a = "ok" /\ c \in finished
                \/ a = "closed" /\ closed /\ pc[c] \notin Past
                \/ a = "ctx"
         PROVE  Abstract!Next
  <2>1. answer[c] = "none"
    BY <1>tell DEF RInv, AcceptInv
  <2>2. Q' = Q
    BY <1>tell, <1>f
  <2>3. Abstract!Tell(c, a)
    BY <1>tell, <2>1, <2>2, Unknown DEF Abstract!Tell
  <2> QED BY <2>3 DEF Abstract!Next
<1>1. ASSUME NEW c \in Calls, Invoke(c) PROVE UNCHANGED Abstract!vars
  BY <1>1, <1>f DEF Invoke
<1>2. ASSUME NEW c \in Calls, Lookup(c) PROVE [Abstract!Next]_(Abstract!vars)
  <2>1. CASE closed
    BY <1>2, <2>1, <1>tell DEF Lookup, Past
  <2>2. CASE ~closed
    BY <1>2, <2>2, <1>f DEF Lookup
  <2> QED BY <2>1, <2>2
<1>3. ASSUME NEW c \in Calls, CreateLock(c) PROVE UNCHANGED Abstract!vars
  BY <1>3, <1>f DEF CreateLock
<1>4. ASSUME NEW c \in Calls, Create(c) PROVE [Abstract!Next]_(Abstract!vars)
  <2>1. CASE closed
    BY <1>4, <2>1, <1>tell DEF Create, Past
  <2>2. CASE ~closed
    BY <1>4, <2>2, <1>f DEF Create
  <2> QED BY <2>1, <2>2
<1>5. ASSUME NEW c \in Calls, Relock(c) PROVE [Abstract!Next]_(Abstract!vars)
  <2>1. CASE closed
    BY <1>5, <2>1, <1>tell DEF Relock, Past
  <2>2. CASE ~closed
    BY <1>5, <2>2, <1>f DEF Relock
  <2> QED BY <2>1, <2>2
<1>6. ASSUME NEW c \in Calls, Send(c) PROVE Abstract!Next
  <2>1. ~closed /\ answer[c] = "none" /\ key[c] \in Keys
    BY <1>6, <1>t DEF Send, RInv, IInv, GateInv, AcceptInv, TypeOK
  <2>2. ~Abstract!Known(c)
    BY <1>6, Unknown DEF Send, Past
  <2>3. Q' = Q
    BY <1>6, <1>f DEF Send
  <2>4. Abstract!Accept(c, key[c])
    BY <1>6, <2>1, <2>2, <2>3 DEF Send, Abstract!Accept
  <2> QED BY <2>1, <2>4 DEF Abstract!Next
<1>7. ASSUME NEW c \in Calls, CancelSend(c) PROVE Abstract!Next
  BY <1>7, <1>tell DEF CancelSend
<1>8. ASSUME NEW c \in Calls, Reply(c) PROVE Abstract!Next
  BY <1>8, <1>tell DEF Reply
<1>9. ASSUME NEW c \in Calls, CancelWait(c) PROVE Abstract!Next
  BY <1>9, <1>tell DEF CancelWait
<1>10. ASSUME NEW k \in Keys, Start(k) PROVE Abstract!Next
  <2>1. Abstract!Begin(k)
    BY <1>10 DEF Start, Abstract!Begin
  <2> QED BY <2>1 DEF Abstract!Next
<1>11. ASSUME NEW k \in Keys, Finish(k) PROVE Abstract!Next
  <2>1. Abstract!End(k)
    BY <1>11 DEF Finish, Abstract!End
  <2> QED BY <2>1 DEF Abstract!Next
<1>12. ASSUME NEW k \in Keys, Exit(k) PROVE UNCHANGED Abstract!vars
  BY <1>12 DEF Exit
<1>13. ASSUME NEW x \in Closers, InvokeClose(x) PROVE UNCHANGED Abstract!vars
  BY <1>13, <1>g DEF InvokeClose
<1>14. ASSUME NEW x \in Closers, CloseLock(x) PROVE UNCHANGED Abstract!vars
  BY <1>14, <1>g DEF CloseLock
<1>15. ASSUME NEW x \in Closers, MarkClosed(x) PROVE [Abstract!Next]_(Abstract!vars)
  <2>1. CASE closed
    BY <1>15, <2>1, <1>g DEF MarkClosed
  <2>2. CASE ~closed
    <3>1. Q' = Q
      BY <1>15, <2>2, <1>g DEF MarkClosed
    <3>2. Abstract!Shut
      BY <1>15, <2>2, <3>1 DEF MarkClosed, Abstract!Shut
    <3> QED BY <3>2 DEF Abstract!Next
  <2> QED BY <2>1, <2>2
<1>16. ASSUME NEW x \in Closers, NEW k \in Keys, CloseChannel(x, k)
       PROVE  UNCHANGED Abstract!vars
  BY <1>16 DEF CloseChannel
<1>17. ASSUME NEW x \in Closers, AwaitActors(x) PROVE Abstract!Next
  <2>1. \A k \in Keys : queue[k] = <<>> /\ running[k] = None
    BY <1>17 DEF AwaitActors, RInv, ActorInv
  <2>2. closed /\ ~Q
    BY <1>17 DEF AwaitActors, RInv, IInv, GateInv, CloserInv
  <2>3. Q'
    BY <1>17, <1>t DEF AwaitActors, TypeOK
  <2>4. Abstract!Quiesce
    BY <1>17, <2>1, <2>2, <2>3 DEF AwaitActors, Abstract!Quiesce
  <2> QED BY <2>4 DEF Abstract!Next
<1>18. CASE UNCHANGED vars \/ Terminated
  BY <1>18 DEF vars, Terminated
<1> QED
  BY <1>1, <1>2, <1>3, <1>4, <1>5, <1>6, <1>7, <1>8, <1>9, <1>10, <1>11, <1>12,
     <1>13, <1>14, <1>15, <1>16, <1>17, <1>18
  DEF Next, CallStep, ActorStep, CloserStep

\* The pool, with its lock, channels and goroutines, implements the serializer.
THEOREM PoolImplementsSerializer == Spec => ImplementsSerializer
<1>1. Init => Abstract!Init
  BY ThreadsAssumption DEF Init, Abstract!Init, Threads
<1>2. RInv /\ RInv' /\ [Next]_vars => [Abstract!Next]_(Abstract!vars)
  BY StepRefines
<1> QED BY <1>1, <1>2, Refinable, PTL DEF Spec, ImplementsSerializer, Abstract!Spec

-----------------------------------------------------------------------------
(* The order in which the actor executes the operations of a key: a call   *)
(* made after another of its key has returned is not executed before it,   *)
(* even when the other gave up waiting (RealTimeOrder).                    *)

\* Every operation is in the channel, or with the actor, of its own key.
KeyInv ==
  /\ \A k \in Keys : \A i \in DOMAIN queue[k] : key[queue[k][i]] = k
  /\ \A k \in Keys : running[k] # None => key[running[k]] = k

\* A call that preceded another had returned when the other was made.
PrecInv ==
  \A c \in Calls : \A d \in preceded[c] : pc[d] = "returned" /\ pc[c] # "idle" /\ c # d

\* What preceded c on c's key and is still in the channel is before c there; what is
\* with the actor has not been overtaken.
OrderInv ==
  \A c \in Calls : \A d \in preceded[c] : key[c] = key[d] /\ d \notin finished =>
    /\ running[key[c]] = d => c \notin finished
    /\ \A j \in DOMAIN queue[key[c]] : queue[key[c]][j] = d =>
         /\ running[key[c]] # c /\ c \notin finished
         /\ \A i \in DOMAIN queue[key[c]] : queue[key[c]][i] = c => j < i

OInv == KeyInv /\ PrecInv /\ OrderInv

\* One goroutine goes on, and no operation moves.
LEMMA OrderFrame ==
  ASSUME TypeOK, OInv, NEW t \in Threads, NEW to, pc' = [pc EXCEPT ![t] = to],
         pc[t] # "returned" \/ t \notin Calls, to # "idle",
         UNCHANGED <<key, preceded, queue, running, finished>>
  PROVE  OInv'
<1>1. \A c \in Calls : /\ pc[c] = "returned" => pc'[c] = "returned"
                       /\ pc[c] # "idle" => pc'[c] # "idle"
  BY DEF TypeOK, Threads
<1>2. \A c \in Calls : preceded[c] \subseteq Calls  BY DEF TypeOK
<1>3. PrecInv'  BY <1>1, <1>2 DEF OInv, PrecInv
<1>4. KeyInv' /\ OrderInv'  BY DEF OInv, KeyInv, OrderInv
<1> QED BY <1>3, <1>4 DEF OInv

\* A call that is made now is in no channel yet.
LEMMA InvokeOrder ==
  ASSUME TypeOK, AcceptInv, OInv, NEW c \in Calls, Invoke(c)
  PROVE  OInv'
<1>1. /\ pc[c] = "idle" /\ pc' = [pc EXCEPT ![c] = "rlock"]
      /\ preceded' = [preceded EXCEPT ![c] = {d \in Calls : pc[d] = "returned"}]
      /\ UNCHANGED <<key, queue, running, finished>>
  BY DEF Invoke, Goto, lockVars, closeVars, actorVars
<1>2. preceded \in [Calls -> SUBSET Calls] /\ pc \in [Threads -> CallPC \cup ClosePC]
  BY DEF TypeOK
<1>3. PrecInv'
  BY <1>1, <1>2 DEF OInv, PrecInv, Threads
<1>4. c \notin finished /\ \A k \in Keys : running[k] # c /\ \A i \in DOMAIN queue[k] : queue[k][i] # c
  BY <1>1, ThreadsAssumption, NoneAssumption DEF AcceptInv, Past, Threads
<1>5. key[c] \in Keys  BY DEF TypeOK
<1>6. OrderInv'
  BY <1>1, <1>2, <1>4, <1>5 DEF OInv, OrderInv
<1>7. KeyInv'  BY <1>1 DEF OInv, KeyInv
<1> QED BY <1>3, <1>6, <1>7 DEF OInv

\* The channel that an operation is appended to.
LEMMA Appended ==
  ASSUME NEW q \in Seq(Calls), NEW c \in Calls
  PROVE  /\ DOMAIN Append(q, c) = 1..(Len(q) + 1) /\ DOMAIN q = 1..Len(q) /\ Len(q) \in Nat
         /\ Append(q, c)[Len(q) + 1] = c /\ \A i \in 1..Len(q) : Append(q, c)[i] = q[i]
OBVIOUS

\* An operation goes to the end of its channel; nothing it precedes can be there, for its
\* call has not returned.
LEMMA SendOrder ==
  ASSUME TypeOK, OInv, NEW c \in Calls, Send(c)
  PROVE  OInv'
<1> DEFINE k == key[c]
           q == queue[k]
<1>1. /\ pc[c] = "sending" /\ pc' = [pc EXCEPT ![c] = "waiting"]
      /\ queue' = [queue EXCEPT ![k] = Append(q, c)]
      /\ UNCHANGED <<key, preceded, running, finished>>
  BY DEF Send, Goto, callVars
<1>2. k \in Keys /\ q \in Seq(Calls) /\ queue \in [Keys -> Seq(Calls)]
      /\ pc \in [Threads -> CallPC \cup ClosePC] /\ preceded \in [Calls -> SUBSET Calls]
      /\ \A e \in Calls : key[e] \in Keys
  BY DEF TypeOK
<1>3. PrecInv'  BY <1>1, <1>2 DEF OInv, PrecInv, Threads
<1>4. \A e \in Calls : c \notin preceded[e]  BY <1>1 DEF OInv, PrecInv
<1>5. queue'[k] = Append(q, c) /\ \A x \in Keys : x # k => queue'[x] = queue[x]
  BY <1>1, <1>2
<1>6. /\ DOMAIN queue'[k] = 1..(Len(q) + 1) /\ DOMAIN q = 1..Len(q) /\ Len(q) \in Nat
      /\ queue'[k][Len(q) + 1] = c /\ \A i \in 1..Len(q) : queue'[k][i] = q[i]
  BY <1>2, <1>5, Appended
<1>7. KeyInv'
  <2>1. \A x \in Keys : \A i \in DOMAIN queue'[x] : key[queue'[x][i]] = x
    <3>1. ASSUME NEW i \in DOMAIN queue'[k]  PROVE key[queue'[k][i]] = k
      <4>1. i \in 1..Len(q) \/ i = Len(q) + 1  BY <1>6
      <4> QED BY <1>2, <1>6, <4>1 DEF OInv, KeyInv
    <3> HIDE DEF k, q
    <3> QED BY <1>5, <3>1 DEF OInv, KeyInv
  <2> QED BY <1>1, <2>1 DEF OInv, KeyInv
<1>8. OrderInv'
  <2> SUFFICES ASSUME NEW e \in Calls, NEW d \in preceded[e], key[e] = key[d], d \notin finished
               PROVE  /\ running[key[e]] = d => e \notin finished
                      /\ \A j \in DOMAIN queue'[key[e]] : queue'[key[e]][j] = d =>
                           /\ running[key[e]] # e /\ e \notin finished
                           /\ \A i \in DOMAIN queue'[key[e]] : queue'[key[e]][i] = e => j < i
    BY <1>1 DEF OrderInv
  <2>1. /\ running[key[e]] = d => e \notin finished
        /\ \A j \in DOMAIN queue[key[e]] : queue[key[e]][j] = d =>
             /\ running[key[e]] # e /\ e \notin finished
             /\ \A i \in DOMAIN queue[key[e]] : queue[key[e]][i] = e => j < i
    BY DEF OInv, OrderInv
  <2>2. d # c  BY <1>4
  <2>3. CASE key[e] # k  BY <1>2, <1>5, <2>1, <2>3
  <2>4. CASE key[e] = k
    <3>1. ASSUME NEW j \in DOMAIN queue'[k], queue'[k][j] = d
          PROVE  /\ running[k] # e /\ e \notin finished
                 /\ \A i \in DOMAIN queue'[k] : queue'[k][i] = e => j < i
      <4>1. j \in 1..Len(q) /\ q[j] = d  BY <1>6, <2>2, <3>1
      <4>2. running[k] # e /\ e \notin finished /\ \A i \in DOMAIN q : q[i] = e => j < i
        BY <1>6, <2>1, <2>4, <4>1
      <4>3. ASSUME NEW i \in DOMAIN queue'[k], queue'[k][i] = e  PROVE j < i
        <5>1. i \in 1..Len(q) \/ i = Len(q) + 1  BY <1>6
        <5> QED BY <1>6, <4>1, <4>2, <4>3, <5>1
      <4> QED BY <4>2, <4>3
    <3> QED BY <2>1, <2>4, <3>1
  <2> QED BY <2>3, <2>4
<1> QED BY <1>3, <1>7, <1>8 DEF OInv

\* The channel that its head is taken from.
LEMMA Shifted ==
  ASSUME NEW q \in Seq(Calls), q # <<>>
  PROVE  /\ 1 \in DOMAIN q /\ Head(q) = q[1] /\ Head(q) \in Calls
         /\ \A i \in DOMAIN Tail(q) : i \in Nat /\ i + 1 \in DOMAIN q /\ Tail(q)[i] = q[i + 1]
         /\ \A i \in DOMAIN q : i \in Nat /\ 1 <= i
OBVIOUS

\* An actor takes the oldest operation of its channel: whatever precedes it there would
\* have come first.
LEMMA StartOrder ==
  ASSUME TypeOK, OInv, NEW k \in Keys, Start(k)
  PROVE  OInv'
<1> DEFINE q == queue[k]
<1>1. /\ running[k] = None /\ q # <<>>
      /\ running' = [running EXCEPT ![k] = Head(q)]
      /\ queue' = [queue EXCEPT ![k] = Tail(q)]
      /\ UNCHANGED <<pc, key, preceded, finished>>
  BY DEF Start, callVars
<1>2. q \in Seq(Calls) /\ queue \in [Keys -> Seq(Calls)] /\ running \in [Keys -> Calls \cup {None}]
      /\ preceded \in [Calls -> SUBSET Calls] /\ \A e \in Calls : key[e] \in Keys
  BY DEF TypeOK
<1>3. /\ 1 \in DOMAIN q /\ Head(q) = q[1] /\ Head(q) \in Calls
      /\ \A i \in DOMAIN Tail(q) : i \in Nat /\ i + 1 \in DOMAIN q /\ Tail(q)[i] = q[i + 1]
      /\ \A i \in DOMAIN q : i \in Nat /\ 1 <= i
  BY <1>1, <1>2, Shifted
<1>4. /\ queue'[k] = Tail(q) /\ running'[k] = q[1]
      /\ \A x \in Keys : x # k => queue'[x] = queue[x] /\ running'[x] = running[x]
  BY <1>1, <1>2, <1>3
<1>5. PrecInv'  BY <1>1 DEF OInv, PrecInv
<1>6. KeyInv'
  <2>1. \A i \in DOMAIN q : key[q[i]] = k  BY DEF OInv, KeyInv
  <2>2. \A i \in DOMAIN queue'[k] : key[queue'[k][i]] = k  BY <1>3, <1>4, <2>1
  <2>3. key[running'[k]] = k  BY <1>3, <1>4, <2>1
  <2> QED BY <1>1, <1>4, <2>2, <2>3 DEF OInv, KeyInv
<1>7. OrderInv'
  <2> SUFFICES ASSUME NEW e \in Calls, NEW d \in preceded[e], key[e] = key[d], d \notin finished
               PROVE  /\ running'[key[e]] = d => e \notin finished
                      /\ \A j \in DOMAIN queue'[key[e]] : queue'[key[e]][j] = d =>
                           /\ running'[key[e]] # e /\ e \notin finished
                           /\ \A i \in DOMAIN queue'[key[e]] : queue'[key[e]][i] = e => j < i
    BY <1>1 DEF OrderInv
  <2>1. /\ running[key[e]] = d => e \notin finished
        /\ \A j \in DOMAIN queue[key[e]] : queue[key[e]][j] = d =>
             /\ running[key[e]] # e /\ e \notin finished
             /\ \A i \in DOMAIN queue[key[e]] : queue[key[e]][i] = e => j < i
    BY DEF OInv, OrderInv
  <2>2. CASE key[e] # k  BY <1>2, <1>4, <2>1, <2>2
  <2>3. CASE key[e] = k
    <3>1. running'[k] = d => e \notin finished  BY <1>3, <1>4, <2>1, <2>3
    <3>2. ASSUME NEW j \in DOMAIN queue'[k], queue'[k][j] = d
          PROVE  /\ running'[k] # e /\ e \notin finished
                 /\ \A i \in DOMAIN queue'[k] : queue'[k][i] = e => j < i
      <4>1. j \in Nat /\ j + 1 \in DOMAIN q /\ q[j + 1] = d  BY <1>3, <1>4, <3>2
      <4>2. e \notin finished /\ \A i \in DOMAIN q : q[i] = e => j + 1 < i
        BY <2>1, <2>3, <4>1
      <4>3. j # 0  BY <1>4, <1>2, <3>2
      <4>4. running'[k] # e  BY <1>3, <1>4, <4>1, <4>2
      <4>5. ASSUME NEW i \in DOMAIN queue'[k], queue'[k][i] = e  PROVE j < i
        <5>1. i \in Nat /\ i + 1 \in DOMAIN q /\ q[i + 1] = e  BY <1>3, <1>4, <4>5
        <5> QED BY <4>1, <4>2, <5>1
      <4> QED BY <4>2, <4>4, <4>5
    <3> QED BY <2>3, <3>1, <3>2
  <2> QED BY <2>2, <2>3
<1> QED BY <1>5, <1>6, <1>7 DEF OInv

\* The operation with the actor has run: none that precedes it is still waiting.
LEMMA FinishOrder ==
  ASSUME TypeOK, OInv, NEW k \in Keys, Finish(k)
  PROVE  OInv'
<1> DEFINE r == running[k]
<1>1. /\ r # None /\ running' = [running EXCEPT ![k] = None] /\ finished' = finished \cup {r}
      /\ UNCHANGED <<pc, key, preceded, queue>>
  BY DEF Finish, callVars
<1>2. running \in [Keys -> Calls \cup {None}] /\ r \in Calls /\ preceded \in [Calls -> SUBSET Calls]
      /\ \A e \in Calls : key[e] \in Keys
  BY <1>1 DEF TypeOK
<1>3. key[r] = k  BY <1>1 DEF OInv, KeyInv
<1>4. running'[k] = None /\ \A x \in Keys : x # k => running'[x] = running[x]
  BY <1>1, <1>2
<1>5. KeyInv' /\ PrecInv'  BY <1>1, <1>4 DEF OInv, KeyInv, PrecInv
<1>6. OrderInv'
  <2> SUFFICES ASSUME NEW e \in Calls, NEW d \in preceded[e], key[e] = key[d], d \notin finished'
               PROVE  /\ running'[key[e]] = d => e \notin finished'
                      /\ \A j \in DOMAIN queue[key[e]] : queue[key[e]][j] = d =>
                           /\ running'[key[e]] # e /\ e \notin finished'
                           /\ \A i \in DOMAIN queue[key[e]] : queue[key[e]][i] = e => j < i
    BY <1>1 DEF OrderInv
  <2>1. d \notin finished /\ d # r /\ d \in Calls /\ d # None
    BY <1>1, <1>2, NoneAssumption DEF Threads
  <2>2. /\ running[key[e]] = d => e \notin finished
        /\ \A j \in DOMAIN queue[key[e]] : queue[key[e]][j] = d =>
             /\ running[key[e]] # e /\ e \notin finished
             /\ \A i \in DOMAIN queue[key[e]] : queue[key[e]][i] = e => j < i
    BY <2>1 DEF OInv, OrderInv
  <2>3. e # None  BY NoneAssumption DEF Threads
  <2>4. CASE e = r
    <3>1. key[e] = k /\ running[k] = e  BY <1>3, <2>4
    <3> QED BY <1>4, <2>1, <2>2, <3>1
  <2>5. CASE e # r
    <3>1. e \notin finished => e \notin finished'  BY <1>1, <2>5
    <3>2. running'[key[e]] \in {running[key[e]], None}  BY <1>2, <1>4
    <3> QED BY <2>1, <2>2, <2>3, <3>1, <3>2
  <2> QED BY <2>4, <2>5
<1> QED BY <1>5, <1>6 DEF OInv

\* Every step keeps the order.
LEMMA NextOrder == TypeOK /\ AcceptInv /\ OInv /\ [Next]_vars => OInv'
<1> SUFFICES ASSUME TypeOK, AcceptInv, OInv, [Next]_vars  PROVE OInv'  OBVIOUS
<1> USE DEF Goto, Return, callVars, lockVars, closeVars, actorVars
<1>1. ASSUME NEW c \in Calls, Invoke(c)  PROVE OInv'  BY <1>1, InvokeOrder
<1>2. ASSUME NEW c \in Calls, Send(c)  PROVE OInv'  BY <1>2, SendOrder
<1>3. ASSUME NEW k \in Keys, Start(k) \/ Finish(k)  PROVE OInv'  BY <1>3, StartOrder, FinishOrder
<1>4. ASSUME NEW c \in Calls,
             Lookup(c) \/ CreateLock(c) \/ Create(c) \/ Relock(c) \/ CancelSend(c) \/ Reply(c) \/ CancelWait(c)
      PROVE  OInv'
  <2>1. \E to : pc' = [pc EXCEPT ![c] = to] /\ to # "idle" /\ pc[c] # "returned"
    BY <1>4 DEF Lookup, CreateLock, Create, Relock, CancelSend, Reply, CancelWait
  <2>2. UNCHANGED <<key, preceded, queue, running, finished>>
    BY <1>4 DEF Lookup, CreateLock, Create, Relock, CancelSend, Reply, CancelWait
  <2> QED BY <2>1, <2>2, OrderFrame DEF Threads
<1>5. ASSUME NEW x \in Closers, InvokeClose(x) \/ CloseLock(x) \/ MarkClosed(x) \/ AwaitActors(x)
      PROVE  OInv'
  <2>1. \E to : pc' = [pc EXCEPT ![x] = to] /\ to # "idle"
    BY <1>5 DEF InvokeClose, CloseLock, MarkClosed, AwaitActors
  <2>2. UNCHANGED <<key, preceded, queue, running, finished>>
    BY <1>5 DEF InvokeClose, CloseLock, MarkClosed, AwaitActors
  <2>3. x \in Threads /\ x \notin Calls  BY ThreadsAssumption DEF Threads
  <2> QED BY <2>1, <2>2, <2>3, OrderFrame
<1>6. ASSUME UNCHANGED <<pc, key, preceded, queue, running, finished>>  PROVE OInv'
  BY <1>6 DEF OInv, KeyInv, PrecInv, OrderInv
<1>7. (\E k \in Keys : Exit(k)) \/ (\E x \in Closers, k \in Keys : CloseChannel(x, k)) \/ Terminated \/ UNCHANGED vars
        => UNCHANGED <<pc, key, preceded, queue, running, finished>>
  BY DEF Exit, CloseChannel, Terminated, vars
<1> QED BY <1>1, <1>2, <1>3, <1>4, <1>5, <1>6, <1>7 DEF Next, CallStep, ActorStep, CloserStep

\* Once Do has returned, for whatever reason, no later call of its key is executed
\* before its operation, if that was accepted at all (the actor's loop and the FIFO
\* channel of pool.go).
THEOREM OrderKept == Spec => []RealTimeOrder
<1>1. Init => OInv
  <2> SUFFICES ASSUME Init  PROVE OInv  OBVIOUS
  <2>1. preceded = [c \in Calls |-> {}] /\ queue = [k \in Keys |-> <<>>] /\ running = [k \in Keys |-> None]
    BY DEF Init
  <2> QED BY <2>1 DEF OInv, KeyInv, PrecInv, OrderInv
<1>2. RInv /\ OInv /\ [Next]_vars => OInv'  BY NextOrder DEF RInv, IInv
<1>3. RInv /\ OInv => RealTimeOrder
  BY DEF RInv, IInv, TypeOK, OInv, PrecInv, OrderInv, RealTimeOrder, Accepted, Queued
<1> QED BY <1>1, <1>2, <1>3, Refinable, PTL DEF Spec
=============================================================================
