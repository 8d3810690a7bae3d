---------------------------- MODULE SharedVault ----------------------------
(***************************************************************************)
(* The vaults whose notes live in a shared store and whose queries are     *)
(* answered from memory: PostgresVault (storage/postgresv) and S3Vault     *)
(* (storage/s3vault).  Both change the store first and their cache, graph  *)
(* and full-text index afterwards, without a lock that spans the two.      *)
(*                                                                         *)
(* A Postgres mutation is a transaction: it locks the row it reads (SELECT *)
(* ... FOR UPDATE) until it commits.  An S3 mutation is a sequence of      *)
(* requests, some of them conditional.  The backend is chosen in Init.     *)
(*                                                                         *)
(* A note has an identity (id), an ETag that changes with every write, and *)
(* the ETag of the write that gave it its body.  The graph and the full-   *)
(* text index hold, by the body's ETag, whose links and whose words a path *)
(* has.  The summary cache is keyed by the path in lower case, while rows  *)
(* and objects keep its case: paths that differ in case only share one     *)
(* entry, which is that of the note last put there.                        *)
(*                                                                         *)
(* Other processes write the same store; nothing tells this one of it.     *)
(***************************************************************************)
EXTENDS Integers, FiniteSets

CONSTANTS
  Procs,       \* goroutines that serve calls
  Rescanners,  \* goroutines that serve a rescan
  Paths,       \* paths of notes
  KeyOf,       \* the key of each path in the summary cache
  Nil,         \* no row, no entry, no lock, no call, no rescan
  MaxCalls,    \* bound: calls that are not refused at once, and foreign writes
  MaxRescans   \* bound: rescans

VARIABLES
  backend,   \* "postgres" or "s3"
  store,     \* the row or object of each path, or Nil
  trash,     \* S3: the paths with a copy under .trash/
  lock,      \* Postgres: the transaction that has locked the row of a path
  cache,     \* vault: the summary (its path and ETag) under each key, or Nil
  graph,     \* vault: whose links each path has, or Nil
  fts,       \* vault: whose words each path has, or Nil
  shown,     \* vault: the trashed copies that the cache lists as notes
  job,       \* the call each goroutine is serving
  scan,      \* the rescan each rescanner is serving
  calls, rescans, \* ghosts: calls (with foreign writes) and rescans begun so far
  blame      \* ghost: why the index of a path may be wrong

vars == <<backend, store, trash, lock, cache, graph, fts, shown, job, scan, calls,
          rescans, blame>>
index == <<cache, graph, fts, shown>>
rescanning == <<scan, rescans>>

Keys == {KeyOf[p] : p \in Paths}

Tags == Paths \cup 1..MaxCalls   \* of the notes found at the start, and of the calls
Row == [id : Tags, etag : Tags, body : Tags, gone : BOOLEAN]

Ops == {"create", "update", "patch", "move", "softDelete", "delete"}
Deletes == {"softDelete", "delete"}
NoMatch == 0   \* a call without if_match, or past its comparison

Summary == [path : Paths, etag : Tags]

Job == [op : Ops, at : {"commit", "put", "trash", "dropOld", "cache", "doc"},
        path : Paths, to : Paths, tag : 1..MaxCalls, match : {NoMatch} \cup Tags,
        row : Row \cup {Nil}, links : Tags \cup {Nil}]

Rescan == [at : {"graph", "fts", "read", "load"}, rows : [Paths -> Row \cup {Nil}], left : SUBSET Paths]

ASSUME SharedAssumption ==
  /\ MaxCalls \in Nat /\ MaxRescans \in Nat
  /\ KeyOf \in [Paths -> Keys]
  /\ Nil \notin Procs /\ Nil \notin Row /\ Nil \notin Job /\ Nil \notin Summary /\ Nil \notin Rescan

Live(p) == store[p] # Nil /\ ~store[p].gone
Pg == backend = "postgres"

(* Paths that share their key with another of the paths ps. *)
Twin(p, ps) == \E x \in ps : x # p /\ KeyOf[x] = KeyOf[p]

NoNotes == [p \in Paths |-> Nil]

(* New loads the notes that are in the store, in some order. *)
Init ==
  /\ backend \in {"postgres", "s3"}
  /\ \E ps \in SUBSET Paths :
       /\ store = [p \in Paths |->
            IF p \in ps THEN [id |-> p, etag |-> p, body |-> p, gone |-> FALSE] ELSE Nil]
       /\ cache \in [Keys -> {[path |-> p, etag |-> p] : p \in ps} \cup {Nil}]
       /\ \A k \in Keys : IF cache[k] = Nil THEN \A p \in ps : KeyOf[p] # k
                          ELSE KeyOf[cache[k].path] = k
       /\ graph = [p \in Paths |-> IF p \in ps THEN p ELSE Nil]
       /\ blame = [p \in Paths |-> IF p \in ps /\ Twin(p, ps) THEN {"case"} ELSE {}]
  /\ fts = graph
  /\ trash = {} /\ shown = {}
  /\ lock = [p \in Paths |-> Nil]
  /\ job = [c \in Procs |-> Nil]
  /\ scan = [s \in Rescanners |-> Nil] /\ calls = 0 /\ rescans = 0

-----------------------------------------------------------------------------
At(c, at) == job[c] # Nil /\ job[c].at = at
Return(c) == job' = [job EXCEPT ![c] = Nil]
Goto(c, at) == job' = [job EXCEPT ![c].at = at]

(* A call (its path, the new path of a move, the ETag it names) that has    *)
(* read the row.  One that is refused at once changes nothing: no step.     *)
Call(op, p, q, match) == (op = "move" <=> p # q) /\ (op = "create" => match = NoMatch)
Begin(c, op, p, q, match, at) ==
  /\ Call(op, p, q, match)
  /\ calls' = calls + 1
  /\ job' = [job EXCEPT ![c] =
       [op |-> op, at |-> at, path |-> p, to |-> q,
        tag |-> calls + 1, match |-> IF Pg THEN match ELSE NoMatch,
        row |-> IF op \in Deletes THEN Nil ELSE store[p], links |-> Nil]]

(* A call that has changed the store and not yet the whole index. *)
Pending(c) ==
  /\ job[c] # Nil
  /\ \/ job[c].at \in {"cache", "doc"}
     \/ job[c].at = "dropOld" /\ job[c].op = "move"

PendingOn(d, p) == Pending(d) /\ p \in {job[d].path, job[d].to}
PendingTwin(d, p) == Pending(d) /\ Twin(p, {job[d].path, job[d].to})
Rescanning == \E s \in Rescanners : scan[s] # Nil

(* Why the index of p may not follow a change of p: another change of it    *)
(* has not reached the index, or a rescan is under way, and the two race    *)
(* for the index; or a change of a path with the same key is yet to reach   *)
(* the cache.  PatchFrontMatter does not mend what an earlier cause left.   *)
Causes(c, p) ==
  {why \in {"race", "case"} :
     IF why = "race" THEN Rescanning \/ \E d \in Procs \ {c} : PendingOn(d, p)
                     ELSE \E d \in Procs \ {c} : PendingTwin(d, p)}
  \cup (IF job[c].op = "patch" THEN blame[p] ELSE {})

(* A change of the paths ps reaches the store; a note whose path has the    *)
(* same key as one of them will lose its summary.                           *)
Stored(c, ps) ==
  blame' = [p \in Paths |->
    IF p \in ps THEN Causes(c, p)
    ELSE IF Twin(p, ps) /\ Live(p) /\ p # job[c].to THEN blame[p] \cup {"case"}
    ELSE blame[p]]

(* The row that a call writes, with the call's number as its new ETag. *)
NewRow(r, op, t) ==
  CASE op = "create" -> [id |-> t, etag |-> t, body |-> t, gone |-> FALSE]
    [] op = "update" -> [r EXCEPT !.etag = t, !.body = t]
    [] op = "patch"  -> [r EXCEPT !.etag = t]
    [] OTHER         -> r

(* The store after the operation: Move carries the row to its new path. *)
StoreAfter(op, p, q, r) ==
  CASE op = "move"       -> [store EXCEPT ![p] = Nil, ![q] = r]
    [] op = "delete"     -> [store EXCEPT ![p] = Nil]
    [] op = "softDelete" -> [store EXCEPT ![p].gone = TRUE]
    [] OTHER             -> [store EXCEPT ![p] = r]

-----------------------------------------------------------------------------
(* PostgresVault. *)

\* Mutant: the row is read without FOR UPDATE.
LockNothing(c, p) == lock' = lock

Lock(c, p) == lock' = [lock EXCEPT ![p] = c]

(* The row as the transaction must find it for the operation to go on. *)
PgAccepts(op, p, match) ==
  CASE op = "create" -> ~Live(p)
    [] op \in Deletes /\ match = NoMatch -> TRUE
    [] OTHER -> Live(p) /\ match \in {NoMatch, store[p].etag}

(* SELECT ... FOR UPDATE waits for the lock of the row.  There is no lock   *)
(* where there is no row, and Delete takes none before its statement unless *)
(* the call named an ETag.                                                  *)
PgRead(c, op, p, q, match) ==
  /\ Pg
  /\ PgAccepts(op, p, match)
  /\ LET bare == op \in Deletes /\ match = NoMatch
     IN /\ bare \/ lock[p] = Nil
        /\ IF bare \/ store[p] = Nil THEN UNCHANGED lock ELSE Lock(c, p)
  /\ Begin(c, op, p, q, match, "commit")
  /\ UNCHANGED <<backend, store, trash, index, rescanning, blame>>

\* Mutant: the end of the transaction does not give back its locks.
UnlockNothing(c) == lock' = lock

Unlock(c) == lock' = [p \in Paths |-> IF lock[p] = c THEN Nil ELSE lock[p]]

\* Mutant: Move replaces the row at its new path.
PgAppliesMoveOver(op, p, q, r) == store[p] # Nil \/ op = "create"

(* The statement finds its row, or room for the row it makes: a key is     *)
(* taken also by a row that is soft-deleted.                               *)
PgApplies(op, p, q, r) ==
  CASE op = "create"     -> r # Nil \/ store[p] = Nil
    [] op = "move"       -> store[p] # Nil /\ store[q] = Nil
    [] op = "softDelete" -> Live(p)
    [] OTHER             -> store[p] # Nil

(* The statement and the commit.  The row keeps the fields that the        *)
(* operation does not set, as the transaction read them.                   *)
PgCommit(c) ==
  /\ Pg /\ At(c, "commit")
  /\ LET op == job[c].op
         p == job[c].path
         q == job[c].to
         r == IF op = "move" THEN store[p] ELSE NewRow(job[c].row, op, job[c].tag)
     IN /\ lock[p] \in {Nil, c}
        /\ PgApplies(op, p, q, job[c].row)
        /\ store' = StoreAfter(op, p, q, r)
        /\ job' = [job EXCEPT ![c].at = "cache", ![c].match = NoMatch,
                              ![c].row = IF op \in Deletes THEN Nil ELSE r]
        /\ Stored(c, {p, q})
  /\ Unlock(c)
  /\ UNCHANGED <<backend, trash, index, rescanning, calls>>

(* The statement or the commit fails: the transaction is rolled back. *)
PgRollback(c) ==
  /\ Pg /\ At(c, "commit")
  /\ Unlock(c)
  /\ Return(c)
  /\ UNCHANGED <<backend, store, trash, index, rescanning, calls, blame>>

-----------------------------------------------------------------------------
(* S3Vault.  Create reads nothing, a delete only to compare an ETag. *)
S3Read(c, op, p, q, match) ==
  /\ ~Pg
  /\ \/ op \in {"create"} \cup Deletes /\ match = NoMatch
     \/ store[p] # Nil /\ match \in {NoMatch, store[p].etag}
  /\ Begin(c, op, p, q, match, CASE op = "softDelete" -> "trash"
                                 [] op = "delete"     -> "dropOld"
                                 [] OTHER             -> "put")
  /\ UNCHANGED <<backend, store, trash, lock, index, rescanning, blame>>

(* Create and Move put their object only where there is none. *)
S3Put(c) ==
  /\ ~Pg /\ At(c, "put") /\ job[c].op \in {"create", "move"}
  /\ LET op == job[c].op
         q == job[c].to
         r == NewRow(job[c].row, op, job[c].tag)
     IN /\ store[q] = Nil
        /\ store' = [store EXCEPT ![q] = r]
        /\ job' = [job EXCEPT ![c].row = r, ![c].at = IF op = "move" THEN "dropOld" ELSE "cache"]
        /\ Stored(c, {q})
  /\ UNCHANGED <<backend, trash, lock, index, rescanning, calls>>

(* A put is refused: the object exists, or it was to match an ETag.  The   *)
(* ETag that the vault sends is the one it computes over a note, never the *)
(* one S3 gave the object, so that no update is ever accepted.             *)
S3PutRefused(c) ==
  /\ ~Pg /\ At(c, "put")
  /\ job[c].op \in {"update", "patch"} \/ store[job[c].to] # Nil
  /\ Return(c)
  /\ UNCHANGED <<backend, store, trash, lock, index, rescanning, calls, blame>>

(* A soft delete reads the object (again) and puts a copy in the trash. *)
S3Trash(c) ==
  /\ ~Pg /\ At(c, "trash")
  /\ IF store[job[c].path] = Nil
     THEN Return(c) /\ UNCHANGED trash
     ELSE trash' = trash \cup {job[c].path} /\ Goto(c, "dropOld")
  /\ UNCHANGED <<backend, store, lock, index, rescanning, calls, blame>>

(* The object is deleted whatever it is by now.  Move does not mind when    *)
(* the deletion fails; Delete returns the error.                            *)
S3Drop(c) ==
  /\ ~Pg /\ At(c, "dropOld")
  /\ LET p == job[c].path
         moving == job[c].op = "move"
     IN \/ /\ store' = [store EXCEPT ![p] = Nil]
           /\ job' = [job EXCEPT ![c].at = "cache"]
           /\ Stored(c, {p})
        \/ /\ moving /\ Goto(c, "cache")
           /\ blame' = [x \in Paths |->
                IF x = p THEN blame[x] \cup {"kept"}
                ELSE IF Twin(x, {p}) /\ Live(x) /\ x # job[c].to THEN blame[x] \cup {"case"}
                ELSE blame[x]]
           /\ UNCHANGED store
        \/ /\ ~moving /\ Return(c)
           /\ UNCHANGED <<store, blame>>
  /\ UNCHANGED <<backend, trash, lock, index, rescanning, calls>>

-----------------------------------------------------------------------------
(* The index, after the store has changed: the summary cache first. *)

Entry(q, r) == IF r = Nil THEN Nil ELSE [path |-> q, etag |-> r.etag]

\* Mutant: Move leaves the summary of the old path behind.
SummariesKeepOld(p, q, r) == [cache EXCEPT ![KeyOf[q]] = Entry(q, r)]

Summaries(p, q, r) == [cache EXCEPT ![KeyOf[p]] = Nil, ![KeyOf[q]] = Entry(q, r)]

(* PatchFrontMatter first asks the graph for the links of the note, to put *)
(* them back afterwards.                                                   *)
LinksOf(c) ==
  CASE job[c].op = "patch" -> graph[job[c].path]
    [] job[c].row = Nil    -> Nil
    [] OTHER               -> job[c].row.body

SetCache(c) ==
  /\ At(c, "cache")
  /\ cache' = Summaries(job[c].path, job[c].to, job[c].row)
  /\ job' = [job EXCEPT ![c].at = "doc", ![c].row = Nil, ![c].links = LinksOf(c)]
  /\ UNCHANGED <<backend, store, trash, lock, graph, fts, shown, rescanning, calls, blame>>

(* Graph and full-text index change in one step; a patch adds no document  *)
(* to the index.                                                           *)
SetDoc(c) ==
  /\ At(c, "doc")
  /\ graph' = [graph EXCEPT ![job[c].path] = Nil, ![job[c].to] = job[c].links]
  /\ fts' = IF job[c].op = "patch" THEN fts
            ELSE [fts EXCEPT ![job[c].path] = Nil, ![job[c].to] = job[c].links]
  /\ Return(c)
  /\ UNCHANGED <<backend, store, trash, lock, cache, shown, rescanning, calls, blame>>

-----------------------------------------------------------------------------
(* Rescan replaces the cache, then the graph, then the full-text index by   *)
(* empty ones, without a lock, and loads every note.  Rescans may overlap.  *)
InScan(s, at) == scan[s] # Nil /\ scan[s].at = at

RescanStart(s) ==
  /\ scan[s] = Nil /\ rescans < MaxRescans
  /\ rescans' = rescans + 1
  /\ scan' = [scan EXCEPT ![s] = [at |-> "graph", rows |-> NoNotes, left |-> Paths]]
  /\ cache' = [k \in Keys |-> Nil] /\ shown' = {}
  /\ blame' = [p \in Paths |->
       {why \in {"race", "case"} :
          IF why = "race" THEN \E c \in Procs : PendingOn(c, p)
          ELSE (\E c \in Procs : PendingTwin(c, p)) \/ Twin(p, {x \in Paths : Live(x)})}
       \cup (IF Rescanning THEN blame[p] ELSE {})]
  /\ UNCHANGED <<backend, store, trash, lock, graph, fts, job, calls>>

RescanGraph(s) ==
  /\ InScan(s, "graph")
  /\ graph' = NoNotes
  /\ scan' = [scan EXCEPT ![s].at = "fts"]
  /\ UNCHANGED <<backend, store, trash, lock, cache, fts, shown, job, calls, rescans, blame>>

RescanFts(s) ==
  /\ InScan(s, "fts")
  /\ fts' = NoNotes
  /\ scan' = [scan EXCEPT ![s].at = "read"]
  /\ UNCHANGED <<backend, store, trash, lock, cache, graph, shown, job, calls, rescans, blame>>

(* Postgres answers from one snapshot; S3 lists the objects, also those     *)
(* under .trash/, and reads each of them when its turn comes.               *)
RescanRead(s) ==
  /\ InScan(s, "read")
  /\ scan' = [scan EXCEPT ![s].at = "load", ![s].rows = IF Pg THEN store ELSE NoNotes]
  /\ UNCHANGED <<backend, store, trash, lock, index, job, calls, rescans, blame>>

Loaded(s, p) ==
  scan' = IF scan[s].left = {p} THEN [scan EXCEPT ![s] = Nil]
                               ELSE [scan EXCEPT ![s].left = @ \ {p}]

RescanLoad(s, p) ==
  /\ InScan(s, "load") /\ p \in scan[s].left
  /\ LET r == IF Pg THEN scan[s].rows[p] ELSE store[p]
         there == r # Nil /\ ~r.gone
     IN /\ cache' = IF there THEN [cache EXCEPT ![KeyOf[p]] = Entry(p, r)] ELSE cache
        /\ graph' = IF there THEN [graph EXCEPT ![p] = r.body] ELSE graph
        /\ fts' = IF there THEN [fts EXCEPT ![p] = r.body] ELSE fts
        /\ shown' = IF p \in trash THEN shown \cup {p} ELSE shown
  /\ Loaded(s, p)
  /\ UNCHANGED <<backend, store, trash, lock, job, calls, rescans, blame>>

(* S3 skips an object that it cannot read, with a warning. *)
RescanSkip(s, p) ==
  /\ ~Pg /\ InScan(s, "load") /\ p \in scan[s].left
  /\ blame' = [blame EXCEPT ![p] = @ \cup {"unread"}]
  /\ Loaded(s, p)
  /\ UNCHANGED <<backend, store, trash, lock, index, job, calls, rescans>>

(* The query or the listing fails, at once or on the way: the rescan ends   *)
(* with an error and the notes that it has not loaded stay out of the index.*)
RescanFail(s) ==
  /\ InScan(s, "read") \/ InScan(s, "load")
  /\ blame' = [p \in Paths |-> blame[p] \cup IF p \in scan[s].left THEN {"unread"} ELSE {}]
  /\ scan' = [scan EXCEPT ![s] = Nil]
  /\ UNCHANGED <<backend, store, trash, lock, index, job, calls, rescans>>

(* Another process, whose transactions wait for the locks of this one's,    *)
(* writes or removes a note.                                                *)
ForeignRows(p, t) ==
  {Nil, NewRow(Nil, "create", t)}
  \cup (IF store[p] = Nil THEN {}
        ELSE {NewRow(store[p], op, t) : op \in {"update", "patch"}}
             \cup (IF Pg THEN {[store[p] EXCEPT !.gone = TRUE]} ELSE {}))

Foreign(p) ==
  /\ calls < MaxCalls /\ lock[p] = Nil
  /\ calls' = calls + 1
  /\ \E r \in ForeignRows(p, calls + 1) \ {store[p]} : store' = [store EXCEPT ![p] = r]
  /\ blame' = [x \in Paths |->
       IF x = p THEN blame[x] \cup {"foreign"}
       ELSE IF Rescanning /\ Twin(x, {p}) /\ Live(x) THEN blame[x] \cup {"case"}
       ELSE blame[x]]
  /\ UNCHANGED <<backend, trash, lock, index, rescanning, job>>

-----------------------------------------------------------------------------
Postgres(c) == PgCommit(c) \/ PgRollback(c)
S3(c) == S3Put(c) \/ S3PutRefused(c) \/ S3Trash(c) \/ S3Drop(c)
Rescans(s) ==
  \/ RescanStart(s) \/ RescanGraph(s) \/ RescanFts(s) \/ RescanRead(s) \/ RescanFail(s)
  \/ \E p \in Paths : RescanLoad(s, p) \/ RescanSkip(s, p)

Next ==
  \/ \E s \in Rescanners : Rescans(s)
  \/ \E p \in Paths : Foreign(p)
  \/ \E c \in Procs :
       \/ /\ job[c] = Nil /\ calls < MaxCalls
          /\ \E op \in Ops, p, q \in Paths, match \in {NoMatch} \cup Tags :
               PgRead(c, op, p, q, match) \/ S3Read(c, op, p, q, match)
       \/ Postgres(c)
       \/ S3(c)
       \/ SetCache(c)
       \/ SetDoc(c)

Spec == Init /\ [][Next]_vars

-----------------------------------------------------------------------------
(* The types of the variables; a row is locked only by a transaction that  *)
(* read it and has not ended, and S3 has no locks.                         *)
TypeOK ==
  /\ backend \in {"postgres", "s3"}
  /\ store \in [Paths -> Row \cup {Nil}]
  /\ lock \in [Paths -> Procs \cup {Nil}]
  /\ job \in [Procs -> Job \cup {Nil}]
  /\ \A p \in Paths : lock[p] # Nil => Pg /\ At(lock[p], "commit") /\ job[lock[p]].path = p
  /\ trash \subseteq Paths /\ shown \subseteq trash /\ (Pg => trash = {})
  /\ cache \in [Keys -> Summary \cup {Nil}]
  /\ \A k \in Keys : cache[k] # Nil => KeyOf[cache[k].path] = k
  /\ graph \in [Paths -> Tags \cup {Nil}]
  /\ fts \in [Paths -> Tags \cup {Nil}]
  /\ scan \in [Rescanners -> Rescan \cup {Nil}]
  /\ calls \in 0..MaxCalls /\ rescans \in 0..MaxRescans
  /\ blame \in [Paths -> SUBSET {"race", "case", "kept", "unread", "foreign"}]

Commits(c) == At(c, "commit") /\ At(c, "cache")'

(* Postgres: a call that named an ETag changes or removes the row only if  *)
(* the row still has that ETag at the moment of the change, whatever other *)
(* transactions did since the call read it.                                *)
StaleWriteRejected ==
  [][\A c \in Procs : Commits(c) /\ job[c].match # NoMatch =>
       store[job[c].path].etag = job[c].match]_vars

LiveIds == {store[p].id : p \in {x \in Paths : Live(x)}}

(* Postgres: no note vanishes unless a Delete removed it: an update writes *)
(* to the note it read, a move takes its note and no other with it, and a  *)
(* create takes the place of deleted notes only.                           *)
NoNoteLost ==
  [][\A c \in Procs : Commits(c) /\ job[c].op \notin Deletes => LiveIds \subseteq LiveIds']_vars

AtRest == ~Rescanning /\ \A c \in Procs : job[c] = Nil

(* The ETag of the summary of a path. *)
Cached(p) == IF cache[KeyOf[p]] # Nil /\ cache[KeyOf[p]].path = p
             THEN cache[KeyOf[p]].etag ELSE Nil

(* When no call and no rescan is under way, graph and full-text index show *)
(* for every path what the store holds, and the summary cache does, unless *)
(*   race     two changes of the path (or one and a rescan) raced for the  *)
(*            index after the store had ordered them,                      *)
(*   kept     S3 kept the old object of a move,                            *)
(*   unread   a rescan that had emptied the index failed, or skipped it,   *)
(*   foreign  another process has changed the path,                        *)
(*   case     the cache only: a path that differs in case was changed or   *)
(*            loaded after it.                                             *)
(* A later write of the path or a rescan that nothing disturbs mends each  *)
(* of the first four.                                                      *)
IndexExplained ==
  AtRest => \A p \in Paths :
    /\ blame[p] \subseteq {"case"} =>
         graph[p] = fts[p] /\ graph[p] = (IF Live(p) THEN store[p].body ELSE Nil)
    /\ blame[p] = {} => Cached(p) = IF Live(p) THEN store[p].etag ELSE Nil
=============================================================================
