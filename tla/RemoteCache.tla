---------------------------- MODULE RemoteCache ----------------------------
(***************************************************************************)
(* The caches of a RemoteVault, kept fresh by the events of the server it  *)
(* reads (internal/infra/remotevault, internal/infrastructure/mcp/events.go*)
(* and the write handlers of mcp/handlers.go).                             *)
(*                                                                         *)
(* Goroutines of the gateway read and write notes of one remote scope      *)
(* through the RemoteVault; other clients of the server write behind its   *)
(* back.  A handler of the server changes a note, then publishes, then     *)
(* answers.  The bus keeps a bounded buffer for the gateway's stream and   *)
(* drops what does not fit; the stream may break, and the gateway learns   *)
(* of it later.                                                            *)
(*                                                                         *)
(* A note is a version number; its size decides how the body cache evicts. *)
(* The summary cache holds one listing, for one query.                     *)
(***************************************************************************)
EXTENDS Integers, Sequences, Functions

CONSTANTS
  Procs,       \* goroutines of the gateway
  Others,      \* other clients of the server
  Paths,       \* paths of notes, as the caches spell them
  Misspelt,    \* another spelling of a path, as an event may carry it
  Nil,         \* no job, no listing, no subscription
  Size,        \* size of the note with each version
  MaxBytes,    \* capacity of the body cache (64 MiB in the code)
  BufCap,      \* buffer of a subscriber (64 in the code)
  MaxVersion   \* bound: versions of a note

ASSUME CacheAssumption ==
  /\ Procs \cap Others = {} /\ Misspelt \notin Paths
  /\ MaxVersion \in Nat \ {0} /\ BufCap \in Nat /\ MaxBytes \in Nat
  /\ Size \in [1..MaxVersion -> Nat]

Writes == {"create", "update", "move", "delete", "trash", "promote",
           "createBatch", "updateBatch"}
Moving == {"move", "trash", "promote"}
Batch == {"createBatch", "updateBatch"}
Versions == 1..MaxVersion
Entries == [path : Paths, ver : Versions]
Listings == UNION {[L -> Versions] : L \in SUBSET Paths}
Buffers == UNION {[1..n -> Paths \cup {Misspelt}] : n \in 0..BufCap}
Pending == {<<>>} \cup {<<p>> : p \in Paths} \cup {<<p, q>> : p, q \in Paths}

GetJob == [op : {"get"}, at : {"call", "set"}, path : Paths, ver : 0..MaxVersion]
QueryJob == [op : {"query"}, at : {"call"}, rows : {Nil}]
            \cup [op : {"query"}, at : {"set"}, rows : Listings]
WriteJob == [op : Writes, at : {"publish"}, path : Paths, to : Paths, raw : BOOLEAN,
             pub : Pending, done : Listings]

ASSUME NilAssumption ==
  Nil \notin GetJob \cup QueryJob \cup WriteJob \cup Listings \cup Buffers

VARIABLES
  srv,      \* server: version of each path, counting its removals
  live,     \* server: the paths that hold a note
  sub,      \* server: buffer of the gateway's subscription, or Nil
  stream,   \* gateway: its end of the stream: "down", "up" or "broken"
  bodies,   \* gateway: body cache, oldest entry first
  listing,  \* gateway: summary cache: the listing it holds, or Nil
  job,      \* what each goroutine and each other client is doing
  blame,    \* ghost: why the body cached for a path may be stale
  sblame,   \* ghost: why the cached listing may be stale
  wrote     \* ghost: version below which no body of a path may be cached

vars == <<srv, live, sub, stream, bodies, listing, job, blame, sblame, wrote>>
server == <<srv, live, sub>>
gateway == <<bodies, listing, blame, sblame, wrote>>

Clients == Procs \cup Others
Causes == {"dropped", "unsubscribed", "misspelt", "unpublished", "race"}
Snapshot == [p \in live |-> srv[p]]

Init ==
  /\ srv = [p \in Paths |-> 1]
  /\ live \in SUBSET Paths
  /\ sub = Nil /\ stream = "down"
  /\ bodies = <<>> /\ listing = Nil
  /\ job = [c \in Clients |-> Nil]
  /\ blame = [p \in Paths |-> {}] /\ sblame = {}
  /\ wrote = [p \in Paths |-> 0]

-----------------------------------------------------------------------------
(* The body cache: first in, first out, within a number of bytes. *)

PathsIn(q) == {e.path : e \in Range(q)}
Cached == PathsIn(bodies)
EntryOf(p) == CHOOSE e \in Range(bodies) : e.path = p

(* Recursive functions on the prefixes of a queue. *)
Without(q, ps) ==
  LET kept[i \in 0..Len(q)] ==
        IF i = 0 THEN <<>>
        ELSE IF q[i].path \in ps THEN kept[i - 1] ELSE Append(kept[i - 1], q[i])
  IN kept[Len(q)]

Bytes(q) ==
  LET total[i \in 0..Len(q)] == IF i = 0 THEN 0 ELSE total[i - 1] + Size[q[i].ver]
  IN total[Len(q)]

(* Evict the oldest entries until size more bytes fit. *)
MakeRoom(q, size) ==
  LET From(i) == SubSeq(q, i, Len(q))
      fits == {i \in 1..(Len(q) + 1) : Bytes(From(i)) + size <= MaxBytes}
  IN IF fits = {} THEN <<>>
     ELSE From(CHOOSE i \in fits : \A j \in fits : i <= j)

\* Mutant: set keeps the entry the path already has.
CacheSetAgain(q, p, v) ==
  LET room == MakeRoom(q, Size[v])
  IN IF Size[v] > MaxBytes THEN room ELSE Append(room, [path |-> p, ver |-> v])

(* A note larger than the cache is not cached, after it evicted the rest. *)
CacheSet(q, p, v) ==
  LET room == MakeRoom(Without(q, {p}), Size[v])
  IN IF Size[v] > MaxBytes THEN room ELSE Append(room, [path |-> p, ver |-> v])

(* What is known of the paths that have just lost their entry. *)
Forget(ps) == blame' = [p \in Paths |-> IF p \in ps THEN {} ELSE blame[p]]

InvalidateBodies(ps) == bodies' = Without(bodies, ps) /\ Forget(ps)
InvalidateListing == listing' = Nil /\ sblame' = {}

(* The versions in old, with those in new put over them. *)
Overwritten(old, new) ==
  [x \in Paths |-> IF x \in DOMAIN new THEN new[x] ELSE old[x]]

At(c, at) == job[c] # Nil /\ job[c].at = at
Return(c) == job' = [job EXCEPT ![c] = Nil]

-----------------------------------------------------------------------------
(* Reads.  A hit returns at once; a miss calls the server, and whatever it  *)
(* answered enters the cache when the goroutine runs again.                 *)

GetMiss(c, p) ==
  /\ c \in Procs /\ job[c] = Nil /\ p \notin Cached
  /\ job' = [job EXCEPT ![c] = [op |-> "get", at |-> "call", path |-> p, ver |-> 0]]
  /\ UNCHANGED <<server, stream, gateway>>

GetCall(c) ==
  /\ At(c, "call") /\ job[c].op = "get"
  /\ IF job[c].path \in live
     THEN job' = [job EXCEPT ![c].at = "set", ![c].ver = srv[job[c].path]]
     ELSE Return(c)
  /\ UNCHANGED <<server, stream, gateway>>

GetSet(c) ==
  /\ At(c, "set") /\ job[c].op = "get"
  /\ LET p == job[c].path
         v == job[c].ver
         q == CacheSet(bodies, p, v)
     IN /\ bodies' = q
        /\ blame' = [x \in Paths |->
             IF x \notin PathsIn(q) THEN {}
             ELSE IF x # p THEN blame[x]
             ELSE IF v # srv[p] THEN {"race"} ELSE {}]
        /\ wrote' = [wrote EXCEPT ![p] =
             IF p \in PathsIn(q) /\ v < srv[p] /\ v < @ THEN v ELSE @]
  /\ Return(c)
  /\ UNCHANGED <<server, stream, listing, sblame>>

QueryMiss(c) ==
  /\ c \in Procs /\ job[c] = Nil /\ listing = Nil
  /\ job' = [job EXCEPT ![c] = [op |-> "query", at |-> "call", rows |-> Nil]]
  /\ UNCHANGED <<server, stream, gateway>>

QueryCall(c) ==
  /\ At(c, "call") /\ job[c].op = "query"
  /\ job' = [job EXCEPT ![c].at = "set", ![c].rows = Snapshot]
  /\ UNCHANGED <<server, stream, gateway>>

QuerySet(c) ==
  /\ At(c, "set") /\ job[c].op = "query"
  /\ listing' = job[c].rows
  /\ sblame' = IF job[c].rows # Snapshot THEN {"race"} ELSE {}
  /\ Return(c)
  /\ UNCHANGED <<server, stream, bodies, blame, wrote>>

(* An entry outlives its TTL: the next get removes it. *)
ExpireBody(p) ==
  /\ p \in Cached
  /\ InvalidateBodies({p})
  /\ UNCHANGED <<server, stream, listing, job, sblame, wrote>>

ExpireListing ==
  /\ listing # Nil
  /\ InvalidateListing
  /\ UNCHANGED <<server, stream, bodies, job, blame, wrote>>

-----------------------------------------------------------------------------
(* Writes.  The handler changes the note, publishes, and answers; then the  *)
(* RemoteVault drops what it cached.  UpdateBody, PatchFrontMatter and      *)
(* Replace are one operation here; Archive is a Move; a soft Delete moves   *)
(* the note to a .trash path, and the note_promote of another client its    *)
(* source to an archives path.  A batch has one item.                       *)

Creates == {"create", "createBatch"}

(* The server refuses to create over a note and to change or remove a      *)
(* missing one.  A move may replace the note it meets.                     *)
Accepts(op, p) == IF op \in Creates THEN p \notin live ELSE p \in live

LiveAfter(op, p, q) ==
  CASE op \in Creates -> live \cup {p}
    [] op \in Moving  -> (live \ {p}) \cup {q}
    [] op = "delete"  -> live \ {p}
    [] OTHER          -> live

(* The notes that a request names; a delete and a promotion choose where   *)
(* the note goes.                                                          *)
Named(op, p, q) == IF op = "move" THEN {p, q} ELSE {p}

(* The notes whose change a handler publishes: no batch handler does, and  *)
(* the handlers of a promotion and of a delete know the source only.       *)
EventsOf(op, p, q) ==
  IF op \in Batch THEN <<>> ELSE IF op = "move" THEN <<p, q>> ELSE <<p>>

Suspect(ps, why) ==
  blame' = [x \in Paths |-> IF x \in ps \cap Cached THEN blame[x] \cup {why} ELSE blame[x]]

SuspectListing(why) == sblame' = IF listing = Nil THEN {} ELSE sblame \cup {why}

(* What no event will tell: a batch, and where a promotion or a delete has *)
(* moved the note to.  Another event drops the listing in that case.       *)
Unpublished(op, p, q) ==
  /\ Suspect({p, q} \ Range(EventsOf(op, p, q)), "unpublished")
  /\ IF op \in Batch THEN SuspectListing("unpublished") ELSE UNCHANGED sblame

(* A request that the server refuses changes nothing on either side.  A    *)
(* goroutine of the gateway spells the path as the cache does; another     *)
(* client may write it in any way that the server normalises (raw).        *)
Mutate(c, op, p, q, raw) ==
  /\ job[c] = Nil /\ Accepts(op, p)
  /\ raw => c \in Others /\ op \notin Creates \cup Batch
  /\ op = "promote" => c \in Others
  /\ op \in Moving <=> p # q
  /\ \A x \in {p, q} : srv[x] < MaxVersion
  /\ LET new == [x \in {p, q} |-> srv[x] + 1]
     IN /\ srv' = Overwritten(srv, new)
        /\ live' = LiveAfter(op, p, q)
        /\ job' = [job EXCEPT ![c] =
             [op |-> op, at |-> "publish", path |-> p, to |-> q, raw |-> raw,
              pub |-> EventsOf(op, p, q),
              done |-> [x \in Named(op, p, q) |-> new[x]]]]
  /\ Unpublished(op, p, q)
  /\ UNCHANGED <<sub, stream, bodies, listing, wrote>>

(* The server's note changes behind its tools: an editor, a failed write.  *)
Edit(p) ==
  /\ srv[p] < MaxVersion
  /\ srv' = Overwritten(srv, [x \in {p} |-> srv[x] + 1])
  /\ live' \in {live \cup {p}, live \ {p}} /\ p \in live \cup live'
  /\ Suspect({p}, "unpublished") /\ SuspectListing("unpublished")
  /\ UNCHANGED <<sub, stream, bodies, listing, job, wrote>>

(* Why an event sent now never reaches the entry it is about. *)
LossOf(raw) ==
  IF sub = Nil THEN "unsubscribed"
  ELSE IF Len(sub) >= BufCap THEN "dropped"
  ELSE IF raw THEN "misspelt" ELSE "none"

\* Mutant: Publish appends to a buffer that is full.
SendAlways(e) == sub' = IF sub = Nil THEN sub ELSE Append(sub, e)

(* Publish never blocks: a subscriber with a full buffer misses the event. *)
Send(e) == sub' = IF sub = Nil \/ Len(sub) >= BufCap THEN sub ELSE Append(sub, e)

Publish(c) ==
  /\ At(c, "publish") /\ job[c].pub # <<>>
  /\ LET p == Head(job[c].pub)
         why == LossOf(job[c].raw)
     IN /\ Send(IF job[c].raw THEN Misspelt ELSE p)
        /\ IF why = "none" THEN UNCHANGED blame ELSE Suspect({p}, why)
        /\ sblame' = IF why \in {"unsubscribed", "dropped"} /\ listing # Nil
                     THEN sblame \cup {why} ELSE sblame
  /\ job' = [job EXCEPT ![c].pub = Tail(@)]
  /\ UNCHANGED <<srv, live, stream, bodies, listing, wrote>>

\* Mutant: Move drops the body of the new path only.
InvalidateTarget(op, p, q) ==
  IF op \in Creates \cup Batch THEN {} ELSE IF op = "move" THEN {q} ELSE {p}

(* The bodies a RemoteVault drops once a write has succeeded. *)
Invalidated(op, p, q) == IF op \in Creates \cup Batch THEN {} ELSE Named(op, p, q)

Answer(c) ==
  /\ c \in Procs /\ At(c, "publish") /\ job[c].pub = <<>>
  /\ InvalidateBodies(Invalidated(job[c].op, job[c].path, job[c].to))
  /\ wrote' = IF job[c].op \in Creates \cup Batch THEN wrote
               ELSE Overwritten(wrote, job[c].done)
  /\ InvalidateListing
  /\ Return(c)
  /\ UNCHANGED <<server, stream>>

(* The answer is lost after the write took place: the call fails and the   *)
(* caches stay as they are.  Another client ends its call here too.        *)
AnswerLost(c) ==
  /\ At(c, "publish") /\ job[c].pub = <<>>
  /\ Return(c)
  /\ UNCHANGED <<server, stream, gateway>>

-----------------------------------------------------------------------------
(* The event stream (WatchEvents, streamSSE, StartWatch, SSEHandler). *)

Connect ==
  /\ stream = "down" /\ stream' = "up"
  /\ sub' = <<>>
  /\ UNCHANGED <<srv, live, gateway, job>>

OnEvent(p) == InvalidateBodies({p}) /\ InvalidateListing

Receive ==
  /\ stream = "up" /\ sub # <<>>
  /\ OnEvent(Head(sub))
  /\ sub' = Tail(sub)
  /\ UNCHANGED <<srv, live, stream, job, wrote>>

(* The connection breaks: the events in the buffer are lost, and the      *)
(* gateway finds out at its next read or when the watchdog fires.         *)
Cut ==
  /\ stream = "up" /\ stream' = "broken"
  /\ sub' = Nil
  /\ UNCHANGED <<srv, live, gateway, job>>

\* Mutant: onDisconnect keeps the bodies.
OnDisconnectListingOnly == bodies' = bodies /\ blame' = blame /\ InvalidateListing

OnDisconnect == InvalidateBodies(Paths) /\ InvalidateListing

Disconnect ==
  /\ stream = "broken" /\ stream' = "down"
  /\ OnDisconnect
  /\ UNCHANGED <<server, job, wrote>>

-----------------------------------------------------------------------------
Read(c) ==
  \/ \E p \in Paths : GetMiss(c, p)
  \/ GetCall(c)
  \/ GetSet(c)
  \/ QueryMiss(c)
  \/ QueryCall(c)
  \/ QuerySet(c)

Write(c) ==
  \/ \E op \in Writes, p, q \in Paths, raw \in BOOLEAN : Mutate(c, op, p, q, raw)
  \/ Publish(c)
  \/ Answer(c)
  \/ AnswerLost(c)

Stream == Connect \/ Receive \/ Cut \/ Disconnect
Expire == ExpireListing \/ \E p \in Paths : ExpireBody(p)

Next ==
  \/ Stream
  \/ Expire
  \/ \E c \in Clients : Read(c) \/ Write(c)
  \/ \E p \in Paths : Edit(p)

Spec == Init /\ [][Next]_vars

-----------------------------------------------------------------------------
(* The types of the variables; the buffer of the subscription stays within *)
(* the capacity of its channel, and only cached entries carry a reason.    *)
TypeOK ==
  /\ srv \in [Paths -> Versions] /\ live \subseteq Paths
  /\ sub \in Buffers \cup {Nil}
  /\ stream \in {"down", "up", "broken"} /\ (stream = "up" <=> sub # Nil)
  /\ bodies \in Seq(Entries)
  /\ listing \in Listings \cup {Nil}
  /\ job \in [Clients -> GetJob \cup QueryJob \cup WriteJob \cup {Nil}]
  /\ blame \in [Paths -> SUBSET Causes] /\ sblame \subseteq Causes
  /\ \A p \in Paths : p \notin Cached => blame[p] = {}
  /\ listing = Nil => sblame = {}
  /\ wrote \in [Paths -> 0..MaxVersion]

AtRest == stream = "up" /\ sub = <<>> /\ \A c \in Clients : job[c] = Nil

(* When the stream is up, every event has been received and nobody is at   *)
(* work, a cached body or listing that differs from what the server holds  *)
(* has a reason the code does not handle: an event dropped at a full       *)
(* buffer, a change made while no stream was open, an event that carries   *)
(* another spelling of the path, a change no event is published for (a     *)
(* batch, the path a promotion archives to, the .trash path of a delete,   *)
(* an edit behind the server's tools), or an answer that was cached after  *)
(* the change that outdated it.  No other write, no lost answer and no     *)
(* broken stream leaves a stale entry behind.                              *)
StaleExplained ==
  AtRest =>
    /\ \A p \in Cached : EntryOf(p).ver # srv[p] \/ p \notin live => blame[p] # {}
    /\ listing # Nil /\ listing # Snapshot => sblame # {}

(* Once UpdateBody, PatchFrontMatter, Replace, Move or Delete has returned *)
(* to the gateway, no body older than its result is served from the cache, *)
(* unless a read that straddled the write put it back.                     *)
ReadYourWrite == \A p \in Cached : EntryOf(p).ver >= wrote[p]

(* The body cache never holds more than its capacity, and holds a path     *)
(* once, whatever sizes the notes have and in whatever order they come.    *)
BodyBudget ==
  /\ Bytes(bodies) <= MaxBytes
  /\ \A i, j \in DOMAIN bodies : i # j => bodies[i].path # bodies[j].path
=============================================================================
