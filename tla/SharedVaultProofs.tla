-------------------------- MODULE SharedVaultProofs -------------------------
(***************************************************************************)
(* Proofs about the Postgres vault of SharedVault, for any number of       *)
(* goroutines, paths, calls and rescans: the row locks make a conditional  *)
(* write safe, and no mutation but Delete loses a note.  Then, for the S3  *)
(* vault as well: the index follows the store.                             *)
(***************************************************************************)
EXTENDS SharedVault, TLAPS

-----------------------------------------------------------------------------
(* Types                                                                   *)

Rows == Row \cup {Nil}

\* What NewRow writes is a row, for the operations that write one.
LEMMA NewRowType ==
  ASSUME NEW r \in Rows, NEW op \in Ops, NEW t \in Tags, op \in {"update", "patch"} => r # Nil
  PROVE  NewRow(r, op, t) \in Rows /\ (op \in {"create", "update", "patch"} => NewRow(r, op, t) \in Row)
<1>1. CASE op = "create"  BY <1>1 DEF NewRow, Rows, Row, Ops
<1>2. CASE op = "update"  BY <1>2 DEF NewRow, Rows, Row, Ops
<1>3. CASE op = "patch"   BY <1>3 DEF NewRow, Rows, Row, Ops
<1>4. CASE op \in {"move", "softDelete", "delete"}  BY <1>4 DEF NewRow, Rows
<1> QED BY <1>1, <1>2, <1>3, <1>4 DEF Ops

\* What a step of the code may write into the record of a call.
LEMMA JobType ==
  ASSUME NEW j \in Job, NEW at \in {"commit", "put", "trash", "dropOld", "cache", "doc"},
         NEW r \in Rows, NEW l \in Tags \cup {Nil}
  PROVE  /\ [j EXCEPT !.at = at] \in Job
         /\ [j EXCEPT !.at = at, !.match = NoMatch, !.row = r] \in Job
         /\ [j EXCEPT !.row = r, !.at = at] \in Job
         /\ [j EXCEPT !.at = at, !.row = Nil, !.links = l] \in Job
BY DEF Job, Rows

-----------------------------------------------------------------------------
(* The transactions                                                        *)

\* A transaction that will write over the row it has read holds the lock of that
\* row, and the row is still what it read; one that named an ETag finds it there.
HoldInv ==
  \A c \in Procs : At(c, "commit") =>
    LET j == job[c] IN
    /\ Pg
    /\ j.op # "move" => j.to = j.path
    /\ j.op \in {"update", "patch", "move"} => j.row # Nil
    /\ j.op \notin Deletes /\ j.row # Nil => lock[j.path] = c /\ store[j.path] = j.row
    /\ j.op = "create" /\ j.row # Nil => j.row.gone = TRUE
    /\ j.match # NoMatch => lock[j.path] = c /\ store[j.path] # Nil /\ store[j.path].etag = j.match

IInv == TypeOK /\ HoldInv

\* Beginning a call: the record that the goroutine gets.
LEMMA BeginJob ==
  ASSUME TypeOK, NEW c \in Procs, NEW op \in Ops, NEW p \in Paths, NEW q \in Paths,
         NEW match \in {NoMatch} \cup Tags, calls < MaxCalls,
         NEW at \in {"commit", "put", "trash", "dropOld", "cache", "doc"},
         Begin(c, op, p, q, match, at)
  PROVE  /\ job' \in [Procs -> Job \cup {Nil}]
         /\ calls' \in 0..MaxCalls
         /\ \A d \in Procs \ {c} : job'[d] = job[d]
         /\ job'[c] \in Job /\ job'[c] # Nil /\ job'[c].at = at
         /\ job'[c].op = op /\ job'[c].path = p /\ job'[c].to = q
         /\ job'[c].match = IF Pg THEN match ELSE NoMatch
         /\ job'[c].row = IF op \in Deletes THEN Nil ELSE store[p]
         /\ op # "move" => p = q
         /\ op = "create" => match = NoMatch
<1> DEFINE k == [op |-> op, at |-> at, path |-> p, to |-> q,
        tag |-> calls + 1, match |-> IF Pg THEN match ELSE NoMatch,
        row |-> IF op \in Deletes THEN Nil ELSE store[p], links |-> Nil]
<1>1. calls \in Nat /\ calls + 1 \in 1..MaxCalls
  BY SharedAssumption DEF TypeOK
<1>2. store[p] \in Row \cup {Nil}  BY DEF TypeOK
<1>3. k \in Job  BY <1>1, <1>2 DEF Job
<1>4. job' = [job EXCEPT ![c] = k] /\ calls' = calls + 1  BY DEF Begin
<1>5. job'[c] = k /\ \A d \in Procs \ {c} : job'[d] = job[d]  BY <1>4 DEF TypeOK
<1>6. job' \in [Procs -> Job \cup {Nil}]  BY <1>3, <1>4 DEF TypeOK
<1>7. (op # "move" => p = q) /\ (op = "create" => match = NoMatch)  BY DEF Begin, Call
<1> HIDE DEF k
<1>8. k.op = op /\ k.path = p /\ k.to = q /\ k.at = at
      /\ k.match = (IF Pg THEN match ELSE NoMatch)
      /\ k.row = IF op \in Deletes THEN Nil ELSE store[p]
  BY DEF k
<1> QED BY <1>1, <1>3, <1>4, <1>5, <1>6, <1>7, <1>8, SharedAssumption DEF TypeOK

\* A transaction begins: it gets the lock of the row it has read, if it needs it.
LEMMA PgReadInv ==
  ASSUME IInv, NEW c \in Procs, NEW op \in Ops, NEW p \in Paths, NEW q \in Paths,
         NEW match \in {NoMatch} \cup Tags, job[c] = Nil, calls < MaxCalls,
         PgRead(c, op, p, q, match)
  PROVE  IInv'
<1> USE DEF IInv
<1>0. Begin(c, op, p, q, match, "commit") /\ Pg /\ PgAccepts(op, p, match)  BY DEF PgRead
<1>1. /\ job' \in [Procs -> Job \cup {Nil}]
      /\ calls' \in 0..MaxCalls
      /\ \A d \in Procs \ {c} : job'[d] = job[d]
      /\ job'[c] \in Job /\ job'[c] # Nil /\ job'[c].at = "commit"
      /\ job'[c].op = op /\ job'[c].path = p /\ job'[c].to = q
      /\ job'[c].match = match
      /\ job'[c].row = IF op \in Deletes THEN Nil ELSE store[p]
      /\ op # "move" => p = q
      /\ op = "create" => match = NoMatch
  BY <1>0, BeginJob
<1>2. /\ lock' = lock \/ (lock[p] = Nil /\ lock' = [lock EXCEPT ![p] = c])
      /\ ~(op \in Deletes /\ match = NoMatch) /\ store[p] # Nil => lock[p] = Nil /\ lock' = [lock EXCEPT ![p] = c]
  BY DEF PgRead, Lock
<1>3. op \in {"update", "patch", "move"} \/ match # NoMatch =>
        store[p] # Nil /\ match \in {NoMatch, store[p].etag}
  BY <1>0, <1>1 DEF PgAccepts, Live, Deletes
<1>4. op = "create" /\ store[p] # Nil => store[p].gone = TRUE
  <2> SUFFICES ASSUME op = "create", store[p] # Nil  PROVE store[p].gone = TRUE
    OBVIOUS
  <2>1. store[p] \in Row  BY DEF TypeOK
  <2>2. store[p].gone \in BOOLEAN  BY <2>1 DEF Row
  <2>3. ~Live(p)  BY <1>0 DEF PgAccepts, Deletes
  <2> QED BY <2>2, <2>3 DEF Live
<1>5. UNCHANGED <<backend, store, trash, cache, graph, fts, shown, scan, rescans, blame>>
  BY DEF PgRead, index, rescanning
<1>6. \A d \in Procs : At(d, "commit") => d # c  BY DEF At
<1>7. TypeOK'
  <2>1. lock' \in [Paths -> Procs \cup {Nil}]  BY <1>2 DEF TypeOK
  <2>2. \A x \in Paths : lock'[x] # Nil =>
          Pg' /\ At(lock[x], "commit")' /\ (job[lock[x]])'.path = x
    BY <1>0, <1>1, <1>2, <1>5, <2>1, SharedAssumption DEF TypeOK, At, Pg
  <2> QED BY <1>1, <1>5, <2>1, <2>2 DEF TypeOK, Pg, At
<1>8. HoldInv'
  <2> SUFFICES ASSUME NEW d \in Procs, At(d, "commit")'
               PROVE  LET j == job[d] IN
                      (/\ Pg
                       /\ j.op # "move" => j.to = j.path
                       /\ j.op \in {"update", "patch", "move"} => j.row # Nil
                       /\ j.op \notin Deletes /\ j.row # Nil => lock[j.path] = d /\ store[j.path] = j.row
                       /\ j.op = "create" /\ j.row # Nil => j.row.gone = TRUE
                       /\ j.match # NoMatch => lock[j.path] = d /\ store[j.path] # Nil
                                               /\ store[j.path].etag = j.match)'
    BY DEF HoldInv
  <2>1. CASE d = c
    BY <1>0, <1>1, <1>2, <1>3, <1>4, <1>5, <2>1 DEF Pg, TypeOK, Deletes
  <2>2. CASE d # c
    <3>1. job'[d] = job[d] /\ At(d, "commit")  BY <1>1, <2>2 DEF At
    <3>2. job[d] \in Job  BY <3>1 DEF TypeOK, At
    <3>3. job[d].path \in Paths  BY <3>2 DEF Job
    <3>4. lock[job[d].path] = d => lock'[job[d].path] = d
      BY <1>2, <3>3, SharedAssumption DEF TypeOK
    <3> QED BY <1>5, <3>1, <3>4 DEF HoldInv, Pg
  <2> QED BY <2>1, <2>2
<1> QED BY <1>7, <1>8

\* A step that leaves the store and the locks alone and in which one goroutine's
\* call goes on, or ends, outside a transaction.
LEMMA OutsideFrame ==
  ASSUME IInv, NEW c \in Procs, ~At(c, "commit"), UNCHANGED <<backend, lock>>,
         Pg => store' = store,
         job' \in [Procs -> Job \cup {Nil}], ~At(c, "commit")',
         \A d \in Procs \ {c} : job'[d] = job[d]
  PROVE  /\ HoldInv'
         /\ \A p \in Paths : lock'[p] # Nil =>
              Pg' /\ At(lock[p], "commit")' /\ (job[lock[p]])'.path = p
<1>1. \A d \in Procs : At(d, "commit")' => At(d, "commit") /\ job'[d] = job[d]  BY DEF At
<1>2. \A p \in Paths : lock[p] # Nil => lock[p] \in Procs \ {c}
  BY DEF IInv, TypeOK
<1> QED BY <1>1, <1>2 DEF IInv, HoldInv, TypeOK, At, Pg

Whys == {"race", "case", "kept", "unread", "foreign"}

\* A call at a point of the code has a record.
LEMMA HasJob ==
  ASSUME TypeOK, NEW c \in Procs, NEW at, At(c, at)
  PROVE  job[c] \in Job /\ job[c].path \in Paths /\ job[c].to \in Paths /\ job[c].op \in Ops
         /\ job[c].tag \in Tags /\ job[c].row \in Rows /\ job[c].links \in Tags \cup {Nil}
<1>1. job[c] \in Job  BY DEF TypeOK, At
<1> QED BY <1>1 DEF Job, Rows, Tags

CacheType ==
  /\ cache \in [Keys -> Summary \cup {Nil}]
  /\ \A k \in Keys : cache[k] # Nil => KeyOf[cache[k].path] = k

\* The summary of a note is one of its path.
LEMMA EntryType ==
  ASSUME NEW q \in Paths, NEW r \in Rows
  PROVE  /\ Entry(q, r) \in Summary \cup {Nil}
         /\ r = Nil <=> Entry(q, r) = Nil
         /\ r # Nil => Entry(q, r).path = q /\ Entry(q, r).etag = r.etag
<1>1. r # Nil => r.etag \in Tags  BY DEF Rows, Row
<1>2. CASE r # Nil
  <2>1. Entry(q, r) = [path |-> q, etag |-> r.etag]  BY <1>2 DEF Entry
  <2>2. Entry(q, r) \in Summary  BY <1>1, <1>2, <2>1 DEF Summary
  <2> QED BY <1>2, <2>1, <2>2, SharedAssumption
<1>3. CASE r = Nil  BY <1>3 DEF Entry
<1> QED BY <1>2, <1>3

\* What a call does to the cache keeps every summary under the key of its path.
LEMMA SummariesType ==
  ASSUME CacheType, NEW p \in Paths, NEW q \in Paths, NEW r \in Rows, cache' = Summaries(p, q, r)
  PROVE  /\ CacheType'
         /\ cache'[KeyOf[q]] = Entry(q, r)
         /\ KeyOf[p] # KeyOf[q] => cache'[KeyOf[p]] = Nil
         /\ \A k \in Keys \ {KeyOf[p], KeyOf[q]} : cache'[k] = cache[k]
<1>1. KeyOf[p] \in Keys /\ KeyOf[q] \in Keys  BY SharedAssumption
<1>2. cache' = [cache EXCEPT ![KeyOf[p]] = Nil, ![KeyOf[q]] = Entry(q, r)]  BY DEF Summaries
<1>3. Entry(q, r) \in Summary \cup {Nil} /\ (Entry(q, r) # Nil => Entry(q, r).path = q)
  BY EntryType
<1>4. cache' \in [Keys -> Summary \cup {Nil}]  BY <1>1, <1>2, <1>3 DEF CacheType
<1>5. /\ cache'[KeyOf[q]] = Entry(q, r)
      /\ KeyOf[p] # KeyOf[q] => cache'[KeyOf[p]] = Nil
      /\ \A k \in Keys \ {KeyOf[p], KeyOf[q]} : cache'[k] = cache[k]
  BY <1>1, <1>2 DEF CacheType
<1>6. ASSUME NEW k \in Keys, cache'[k] # Nil  PROVE KeyOf[cache'[k].path] = k
  BY <1>3, <1>5, <1>6 DEF CacheType
<1> QED BY <1>4, <1>5, <1>6 DEF CacheType

\* The steps of the index.
LEMMA IndexInv ==
  ASSUME IInv, NEW c \in Procs, SetCache(c) \/ SetDoc(c)
  PROVE  IInv'
<1> USE DEF IInv
<1>1. CASE SetCache(c)
  <2>1. At(c, "cache") /\ job' = [job EXCEPT ![c] = [job[c] EXCEPT !.at = "doc", !.row = Nil, !.links = LinksOf(c)]]
        /\ cache' = Summaries(job[c].path, job[c].to, job[c].row)
    BY <1>1 DEF SetCache
  <2>2. job[c] \in Job /\ job[c].path \in Paths /\ job[c].to \in Paths /\ job[c].row \in Rows
    BY <2>1, HasJob
  <2>3. LinksOf(c) \in Tags \cup {Nil}
    <3>1. job[c].row # Nil => job[c].row.body \in Tags  BY <2>2 DEF Rows, Row
    <3>2. graph[job[c].path] \in Tags \cup {Nil}  BY <2>2 DEF TypeOK
    <3> QED BY <3>1, <3>2 DEF LinksOf
  <2> DEFINE k == [job[c] EXCEPT !.at = "doc", !.row = Nil, !.links = LinksOf(c)]
  <2>4. k \in Job  BY <2>2, <2>3, JobType DEF Rows
  <2>5. k.at = "doc"  BY <2>2 DEF Job
  <2> HIDE DEF k
  <2>6. job' \in [Procs -> Job \cup {Nil}] /\ ~At(c, "commit")' /\ \A d \in Procs \ {c} : job'[d] = job[d]
    BY <2>1, <2>4, <2>5 DEF TypeOK, At, k
  <2>7. ~At(c, "commit")  BY <2>1 DEF At
  <2>8. CacheType'
    <3>1. cache' = Summaries(job[c].path, job[c].to, job[c].row)  BY <2>1
    <3>2. CacheType  BY DEF TypeOK, CacheType
    <3> QED BY <2>2, <3>1, <3>2, SummariesType
  <2>9. UNCHANGED <<backend, store, trash, lock, graph, fts, shown, scan, rescans, calls, blame>>
    BY <1>1 DEF SetCache, rescanning
  <2> QED BY <2>6, <2>7, <2>8, <2>9, OutsideFrame DEF TypeOK, CacheType, Pg
<1>2. CASE SetDoc(c)
  <2>1. At(c, "doc") /\ job' = [job EXCEPT ![c] = Nil]  BY <1>2 DEF SetDoc, Return
  <2>2. job[c].path \in Paths /\ job[c].to \in Paths /\ job[c].links \in Tags \cup {Nil}
    BY <2>1, HasJob
  <2>3. job' \in [Procs -> Job \cup {Nil}] /\ ~At(c, "commit")' /\ \A d \in Procs \ {c} : job'[d] = job[d]
    BY <2>1 DEF TypeOK, At
  <2>4. ~At(c, "commit")  BY <2>1 DEF At
  <2>5. graph' \in [Paths -> Tags \cup {Nil}] /\ fts' \in [Paths -> Tags \cup {Nil}]
    BY <1>2, <2>2 DEF SetDoc, TypeOK
  <2>6. UNCHANGED <<backend, store, trash, lock, cache, shown, scan, rescans, calls, blame>>
    BY <1>2 DEF SetDoc, rescanning
  <2> QED BY <2>3, <2>4, <2>5, <2>6, OutsideFrame DEF TypeOK, Pg
<1> QED BY <1>1, <1>2

\* A rescan's record, after one of its steps.
LEMMA ScanType ==
  ASSUME TypeOK, NEW s \in Rescanners, NEW at, InScan(s, at), NEW w \in [Paths -> Row \cup {Nil}],
         NEW b \in {"graph", "fts", "read", "load"}
  PROVE  /\ scan[s] \in Rescan /\ scan[s].at = at
         /\ scan[s].left \subseteq Paths /\ scan[s].rows \in [Paths -> Row \cup {Nil}]
         /\ [scan[s] EXCEPT !.at = b] \in Rescan
         /\ [scan[s] EXCEPT !.at = b].left = scan[s].left
         /\ [scan[s] EXCEPT !.at = b].at = b
         /\ [scan[s] EXCEPT !.at = b, !.rows = w] \in Rescan
         /\ [scan[s] EXCEPT !.at = b, !.rows = w].left = scan[s].left
         /\ [scan[s] EXCEPT !.at = b, !.rows = w].rows = w
<1>1. scan[s] \in Rescan /\ scan[s].at = at  BY DEF InScan, TypeOK
<1> QED BY <1>1 DEF Rescan

\* What loading a path, or skipping it, does to the record.
LEMMA LoadedType ==
  ASSUME TypeOK, NEW s \in Rescanners, NEW p \in Paths, InScan(s, "load"), Loaded(s, p)
  PROVE  /\ scan' \in [Rescanners -> Rescan \cup {Nil}]
         /\ \A t \in Rescanners \ {s} : scan'[t] = scan[t]
         /\ scan'[s] = Nil => scan[s].left = {p}
         /\ scan'[s] # Nil => /\ scan'[s].left = scan[s].left \ {p} /\ scan'[s].rows = scan[s].rows
                              /\ scan'[s].at = "load"
<1> DEFINE k == [scan[s] EXCEPT !.left = @ \ {p}]
<1>1. k \in Rescan /\ k.left = scan[s].left \ {p} /\ k.rows = scan[s].rows /\ k.at = "load"
  <2>1. scan[s] \in Rescan /\ scan[s].at = "load"  BY DEF InScan, TypeOK
  <2> QED BY <2>1 DEF Rescan
<1>2. scan' = [scan EXCEPT ![s] = IF scan[s].left = {p} THEN Nil ELSE k]  BY DEF Loaded, TypeOK
<1> HIDE DEF k
<1>3. k # Nil  BY <1>1, SharedAssumption
<1> QED BY <1>1, <1>2, <1>3 DEF TypeOK

\* The rows that a rescan has left out, or that another process has changed.
LEMMA NoNotesType == NoNotes \in [Paths -> Tags \cup {Nil}] /\ NoNotes \in [Paths -> Row \cup {Nil}]
BY DEF NoNotes

\* The steps of a rescan touch no call, no row and no lock.
LEMMA RescanInv ==
  ASSUME IInv, NEW s \in Rescanners, Rescans(s)
  PROVE  IInv'
<1> USE DEF IInv
<1>0. UNCHANGED <<backend, store, trash, lock, job, calls>>
  BY DEF Rescans, RescanStart, RescanGraph, RescanFts, RescanRead, RescanLoad, RescanSkip, RescanFail,
         index
<1>1. HoldInv'  BY <1>0 DEF HoldInv, Pg, At
<1>2. ASSUME /\ CacheType'
             /\ graph' \in [Paths -> Tags \cup {Nil}] /\ fts' \in [Paths -> Tags \cup {Nil}]
             /\ shown' \subseteq trash
             /\ scan' \in [Rescanners -> Rescan \cup {Nil}]
             /\ rescans' \in 0..MaxRescans
             /\ blame' \in [Paths -> SUBSET Whys]
      PROVE  IInv'
  BY <1>0, <1>1, <1>2 DEF TypeOK, CacheType, Whys, Pg, At
<1>3. /\ CacheType /\ blame \in [Paths -> SUBSET Whys]
      /\ graph \in [Paths -> Tags \cup {Nil}] /\ fts \in [Paths -> Tags \cup {Nil}]
      /\ scan \in [Rescanners -> Rescan \cup {Nil}] /\ shown \subseteq trash /\ rescans \in 0..MaxRescans
  BY DEF TypeOK, CacheType, Whys
<1>4. CASE RescanStart(s)
  <2>1. rescans' \in 0..MaxRescans  BY <1>3, <1>4, SharedAssumption DEF RescanStart
  <2>2. scan' \in [Rescanners -> Rescan \cup {Nil}]
    <3> DEFINE k == [at |-> "graph", rows |-> NoNotes, left |-> Paths]
    <3>1. k \in Rescan  BY NoNotesType DEF Rescan
    <3>2. scan' = [scan EXCEPT ![s] = k]  BY <1>4 DEF RescanStart
    <3> HIDE DEF k
    <3> QED BY <1>3, <3>1, <3>2
  <2>3. CacheType' /\ shown' = {} /\ graph' = graph /\ fts' = fts  BY <1>4 DEF RescanStart, CacheType
  <2>4. blame' \in [Paths -> SUBSET Whys]
    <3> DEFINE new(p) == {why \in {"race", "case"} :
                            IF why = "race" THEN \E c \in Procs : PendingOn(c, p)
                            ELSE (\E c \in Procs : PendingTwin(c, p)) \/ Twin(p, {x \in Paths : Live(x)})}
    <3>1. \A p \in Paths : new(p) \subseteq Whys  BY DEF Whys
    <3>2. blame' = [p \in Paths |-> new(p) \cup (IF Rescanning THEN blame[p] ELSE {})]
      BY <1>4 DEF RescanStart
    <3> HIDE DEF new
    <3> QED BY <1>3, <3>1, <3>2
  <2> QED BY <1>2, <1>3, <2>1, <2>2, <2>3, <2>4
<1>5. CASE RescanGraph(s)
  <2>1. InScan(s, "graph") /\ graph' = NoNotes /\ scan' = [scan EXCEPT ![s] = [scan[s] EXCEPT !.at = "fts"]]
        /\ UNCHANGED <<cache, fts, shown, rescans, blame>>
    BY <1>5 DEF RescanGraph
  <2>2. [scan[s] EXCEPT !.at = "fts"] \in Rescan  BY <2>1, ScanType, NoNotesType
  <2>3. scan' \in [Rescanners -> Rescan \cup {Nil}]  BY <1>3, <2>1, <2>2
  <2> QED BY <1>2, <1>3, <2>1, <2>3, NoNotesType DEF CacheType
<1>6. CASE RescanFts(s)
  <2>1. InScan(s, "fts") /\ fts' = NoNotes /\ scan' = [scan EXCEPT ![s] = [scan[s] EXCEPT !.at = "read"]]
        /\ UNCHANGED <<cache, graph, shown, rescans, blame>>
    BY <1>6 DEF RescanFts
  <2>2. [scan[s] EXCEPT !.at = "read"] \in Rescan  BY <2>1, ScanType, NoNotesType
  <2>3. scan' \in [Rescanners -> Rescan \cup {Nil}]  BY <1>3, <2>1, <2>2
  <2> QED BY <1>2, <1>3, <2>1, <2>3, NoNotesType DEF CacheType
<1>7. CASE RescanRead(s)
  <2> DEFINE w == IF Pg THEN store ELSE NoNotes
  <2>1. InScan(s, "read") /\ scan' = [scan EXCEPT ![s] = [scan[s] EXCEPT !.at = "load", !.rows = w]]
        /\ UNCHANGED <<cache, graph, fts, shown, rescans, blame>>
    BY <1>7 DEF RescanRead, index
  <2>2. w \in [Paths -> Row \cup {Nil}]  BY NoNotesType DEF TypeOK
  <2> HIDE DEF w
  <2>3. [scan[s] EXCEPT !.at = "load", !.rows = w] \in Rescan  BY <2>1, <2>2, ScanType
  <2>4. scan' \in [Rescanners -> Rescan \cup {Nil}]  BY <1>3, <2>1, <2>3
  <2> QED BY <1>2, <1>3, <2>1, <2>4 DEF CacheType
<1>8. ASSUME NEW p \in Paths, RescanLoad(s, p)  PROVE IInv'
  <2>1. InScan(s, "load") /\ Loaded(s, p) /\ rescans' = rescans /\ blame' = blame
    BY <1>8 DEF RescanLoad
  <2>2. scan' \in [Rescanners -> Rescan \cup {Nil}]  BY <2>1, LoadedType
  <2> DEFINE r == IF Pg THEN scan[s].rows[p] ELSE store[p]
  <2>3. r \in Rows
    <3>1. scan[s].rows \in [Paths -> Row \cup {Nil}]  BY <2>1, ScanType, NoNotesType
    <3> QED BY <3>1 DEF TypeOK, Rows
  <2>4. /\ cache' = IF r # Nil /\ ~r.gone THEN [cache EXCEPT ![KeyOf[p]] = Entry(p, r)] ELSE cache
        /\ graph' = IF r # Nil /\ ~r.gone THEN [graph EXCEPT ![p] = r.body] ELSE graph
        /\ fts' = IF r # Nil /\ ~r.gone THEN [fts EXCEPT ![p] = r.body] ELSE fts
        /\ shown' = IF p \in trash THEN shown \cup {p} ELSE shown
    BY <1>8 DEF RescanLoad
  <2> HIDE DEF r
  <2>5. r # Nil => r.body \in Tags  BY <2>3 DEF Rows, Row
  <2>6. CacheType'
    <3>1. Entry(p, r) \in Summary \cup {Nil} /\ (Entry(p, r) # Nil => Entry(p, r).path = p)
      BY <2>3, EntryType
    <3>2. KeyOf[p] \in Keys  BY DEF Keys
    <3> QED BY <1>3, <2>4, <3>1, <3>2 DEF CacheType
  <2> QED BY <1>2, <1>3, <2>1, <2>2, <2>4, <2>5, <2>6
<1>9. ASSUME NEW p \in Paths, RescanSkip(s, p)  PROVE IInv'
  <2>1. InScan(s, "load") /\ Loaded(s, p) /\ blame' = [blame EXCEPT ![p] = @ \cup {"unread"}]
        /\ UNCHANGED <<cache, graph, fts, shown, rescans>>
    BY <1>9 DEF RescanSkip, index
  <2>2. scan' \in [Rescanners -> Rescan \cup {Nil}]  BY <2>1, LoadedType
  <2>3. blame' \in [Paths -> SUBSET Whys]  BY <1>3, <2>1 DEF Whys
  <2> QED BY <1>2, <1>3, <2>1, <2>2, <2>3 DEF CacheType
<1>10. CASE RescanFail(s)
  <2>1. scan' = [scan EXCEPT ![s] = Nil] /\ UNCHANGED <<cache, graph, fts, shown, rescans>>
        /\ blame' = [p \in Paths |-> blame[p] \cup IF p \in scan[s].left THEN {"unread"} ELSE {}]
    BY <1>10 DEF RescanFail, index
  <2>2. scan' \in [Rescanners -> Rescan \cup {Nil}]  BY <1>3, <2>1
  <2>3. blame' \in [Paths -> SUBSET Whys]  BY <1>3, <2>1 DEF Whys
  <2> QED BY <1>2, <1>3, <2>1, <2>2, <2>3 DEF CacheType
<1> QED BY <1>4, <1>5, <1>6, <1>7, <1>8, <1>9, <1>10 DEF Rescans

\* What another process leaves at a path is a row.
LEMMA ForeignType ==
  ASSUME TypeOK, NEW p \in Paths, NEW t \in Tags, NEW r \in ForeignRows(p, t)
  PROVE  r \in Rows
<1>1. CASE r = Nil  BY <1>1 DEF Rows
<1>2. CASE r = NewRow(Nil, "create", t)
  <2>1. Nil \in Rows /\ "create" \in Ops  BY DEF Rows, Ops
  <2> QED BY <1>2, <2>1, NewRowType
<1>3. ASSUME store[p] # Nil, NEW op \in {"update", "patch"}, r = NewRow(store[p], op, t)  PROVE r \in Rows
  <2>1. store[p] \in Rows /\ op \in Ops  BY DEF TypeOK, Rows, Ops
  <2> QED BY <1>3, <2>1, NewRowType
<1>4. CASE store[p] # Nil /\ r = [store[p] EXCEPT !.gone = TRUE]
  <2>1. store[p] \in Row  BY <1>4 DEF TypeOK
  <2> QED BY <1>4, <2>1 DEF Row, Rows
<1> QED BY <1>1, <1>2, <1>3, <1>4 DEF ForeignRows

\* A write of another process spares the rows that transactions have locked.
LEMMA ForeignInv ==
  ASSUME IInv, NEW p \in Paths, Foreign(p)
  PROVE  IInv'
<1> USE DEF IInv
<1>1. PICK r \in ForeignRows(p, calls + 1) : store' = [store EXCEPT ![p] = r]
  BY DEF Foreign
<1>2. calls \in 0..MaxCalls /\ calls < MaxCalls /\ calls' = calls + 1 /\ lock[p] = Nil
      /\ UNCHANGED <<backend, trash, lock, cache, graph, fts, shown, scan, rescans, job>>
  BY DEF Foreign, TypeOK, index, rescanning
<1>3. calls + 1 \in Tags /\ calls' \in 0..MaxCalls  BY <1>2, SharedAssumption DEF Tags
<1>4. r \in Rows  BY <1>3, ForeignType
<1>5. store' \in [Paths -> Row \cup {Nil}]  BY <1>1, <1>4 DEF TypeOK, Rows
<1>6. blame' \in [Paths -> SUBSET Whys]
  <2>1. blame' = [x \in Paths |->
         IF x = p THEN blame[x] \cup {"foreign"}
         ELSE IF Rescanning /\ Twin(x, {p}) /\ Live(x) THEN blame[x] \cup {"case"} ELSE blame[x]]
    BY DEF Foreign
  <2>2. blame \in [Paths -> SUBSET Whys] /\ "case" \in Whys /\ "foreign" \in Whys  BY DEF TypeOK, Whys
  <2> QED BY <2>1, <2>2
<1>7. TypeOK'  BY <1>2, <1>3, <1>5, <1>6 DEF TypeOK, Whys, Pg, At
<1>8. HoldInv'
  <2> SUFFICES ASSUME NEW d \in Procs, At(d, "commit")'
               PROVE  LET j == job[d] IN
                      (/\ Pg
                       /\ j.op # "move" => j.to = j.path
                       /\ j.op \in {"update", "patch", "move"} => j.row # Nil
                       /\ j.op \notin Deletes /\ j.row # Nil => lock[j.path] = d /\ store[j.path] = j.row
                       /\ j.op = "create" /\ j.row # Nil => j.row.gone = TRUE
                       /\ j.match # NoMatch => lock[j.path] = d /\ store[j.path] # Nil
                                               /\ store[j.path].etag = j.match)'
    BY DEF HoldInv
  <2>1. At(d, "commit") /\ job' = job  BY <1>2 DEF At
  <2>2. job[d].path \in Paths  BY <2>1, HasJob
  <2>3. lock[job[d].path] = d => store'[job[d].path] = store[job[d].path]
    BY <1>1, <1>2, <2>2, SharedAssumption DEF TypeOK
  <2> QED BY <1>2, <2>1, <2>3 DEF HoldInv, Pg
<1> QED BY <1>7, <1>8

\* Where Stored puts the blame.
LEMMA StoredType ==
  ASSUME TypeOK, NEW c, NEW ps, Stored(c, ps)
  PROVE  blame' \in [Paths -> SUBSET Whys]
<1>1. blame \in [Paths -> SUBSET Whys] /\ "case" \in Whys  BY DEF TypeOK, Whys
<1>2. \A p \in Paths : Causes(c, p) \subseteq Whys  BY <1>1 DEF Causes, Whys
<1> QED BY <1>1, <1>2 DEF Stored

\* The requests of the S3 vault; it has no transactions and no locks.
LEMMA S3Inv ==
  ASSUME IInv, NEW c \in Procs, S3(c)
  PROVE  IInv'
<1> USE DEF IInv
<1>1. CASE S3Put(c)
  <2> DEFINE r == NewRow(job[c].row, job[c].op, job[c].tag)
             at == IF job[c].op = "move" THEN "dropOld" ELSE "cache"
             k == [job[c] EXCEPT !.row = r, !.at = at]
  <2>1. At(c, "put") /\ ~Pg /\ job[c].op \in {"create", "move"}  BY <1>1 DEF S3Put
  <2>2. job[c] \in Job /\ job[c].to \in Paths /\ job[c].op \in Ops /\ job[c].tag \in Tags
        /\ job[c].row \in Rows
    BY <2>1, HasJob
  <2>3. r \in Rows  BY <2>1, <2>2, NewRowType
  <2>4. k \in Job  BY <2>2, <2>3, JobType
  <2>5. k.at = at  BY <2>2 DEF Job
  <2>6. job' = [job EXCEPT ![c] = k] /\ store' = [store EXCEPT ![job[c].to] = r] /\ Stored(c, {job[c].to})
    BY <1>1 DEF S3Put
  <2>7. at # "commit"  OBVIOUS
  <2> HIDE DEF k, r, at
  <2>8. job' \in [Procs -> Job \cup {Nil}] /\ ~At(c, "commit")' /\ \A d \in Procs \ {c} : job'[d] = job[d]
    BY <2>4, <2>5, <2>6, <2>7 DEF TypeOK, At
  <2>9. store' \in [Paths -> Row \cup {Nil}]  BY <2>2, <2>3, <2>6 DEF TypeOK, Rows
  <2>10. ~At(c, "commit")  BY <2>1 DEF At
  <2>11. UNCHANGED <<backend, trash, lock, cache, graph, fts, shown, scan, rescans, calls>>
    BY <1>1 DEF S3Put, index, rescanning
  <2>12. blame' \in [Paths -> SUBSET Whys]  BY <2>6, StoredType
  <2> QED BY <2>1, <2>8, <2>9, <2>10, <2>11, <2>12, OutsideFrame DEF TypeOK, Whys, Pg
<1>2. CASE S3PutRefused(c)
  <2>1. At(c, "put") /\ job' = [job EXCEPT ![c] = Nil]  BY <1>2 DEF S3PutRefused, Return
  <2>2. job' \in [Procs -> Job \cup {Nil}] /\ ~At(c, "commit")' /\ \A d \in Procs \ {c} : job'[d] = job[d]
    BY <2>1 DEF TypeOK, At
  <2>3. ~At(c, "commit")  BY <2>1 DEF At
  <2>4. UNCHANGED <<backend, store, trash, lock, cache, graph, fts, shown, scan, rescans, calls, blame>>
    BY <1>2 DEF S3PutRefused, index, rescanning
  <2> QED BY <2>2, <2>3, <2>4, OutsideFrame DEF TypeOK, Pg
<1>3. CASE S3Trash(c)
  <2> DEFINE k == [job[c] EXCEPT !.at = "dropOld"]
  <2>1. /\ At(c, "trash") /\ ~Pg
        /\ \/ job' = [job EXCEPT ![c] = Nil] /\ trash' = trash
           \/ job' = [job EXCEPT ![c] = k] /\ trash' = trash \cup {job[c].path}
    BY <1>3 DEF S3Trash, Return, Goto
  <2>2. job[c] \in Job /\ job[c].path \in Paths  BY <2>1, HasJob
  <2>3. k \in Job  BY <2>2, JobType, Nil \in Rows DEF Rows
  <2>4. k.at = "dropOld"  BY <2>2 DEF Job
  <2> HIDE DEF k
  <2>5. job' \in [Procs -> Job \cup {Nil}] /\ ~At(c, "commit")' /\ \A d \in Procs \ {c} : job'[d] = job[d]
    BY <2>1, <2>3, <2>4 DEF TypeOK, At
  <2>6. ~At(c, "commit")  BY <2>1 DEF At
  <2>7. UNCHANGED <<backend, store, lock, cache, graph, fts, shown, scan, rescans, calls, blame>>
    BY <1>3 DEF S3Trash, index, rescanning
  <2> QED BY <2>1, <2>2, <2>5, <2>6, <2>7, OutsideFrame DEF TypeOK, Pg
<1>4. CASE S3Drop(c)
  <2> DEFINE k == [job[c] EXCEPT !.at = "cache"]
             p == job[c].path
  <2>1. /\ At(c, "dropOld") /\ ~Pg
        /\ \/ job' = [job EXCEPT ![c] = k] /\ store' = [store EXCEPT ![p] = Nil] /\ Stored(c, {p})
           \/ job' = [job EXCEPT ![c] = k] /\ store' = store
              /\ blame' = [x \in Paths |->
                   IF x = p THEN blame[x] \cup {"kept"}
                   ELSE IF Twin(x, {p}) /\ Live(x) /\ x # job[c].to THEN blame[x] \cup {"case"}
                   ELSE blame[x]]
           \/ job' = [job EXCEPT ![c] = Nil] /\ store' = store /\ blame' = blame
    BY <1>4 DEF S3Drop, Return, Goto
  <2>2. job[c] \in Job /\ p \in Paths  BY <2>1, HasJob
  <2>3. k \in Job  BY <2>2, JobType, Nil \in Rows DEF Rows
  <2>4. k.at = "cache"  BY <2>2 DEF Job
  <2> HIDE DEF k, p
  <2>5. job' \in [Procs -> Job \cup {Nil}] /\ ~At(c, "commit")' /\ \A d \in Procs \ {c} : job'[d] = job[d]
    BY <2>1, <2>3, <2>4 DEF TypeOK, At
  <2>6. store' \in [Paths -> Row \cup {Nil}]  BY <2>1, <2>2 DEF TypeOK
  <2>7. blame' \in [Paths -> SUBSET Whys]
    <3>1. blame \in [Paths -> SUBSET Whys] /\ "case" \in Whys /\ "kept" \in Whys  BY DEF TypeOK, Whys
    <3> QED BY <2>1, <2>2, <3>1, StoredType
  <2>8. ~At(c, "commit")  BY <2>1 DEF At
  <2>9. UNCHANGED <<backend, trash, lock, cache, graph, fts, shown, scan, rescans, calls>>
    BY <1>4 DEF S3Drop, index, rescanning
  <2> QED BY <2>1, <2>5, <2>6, <2>7, <2>8, <2>9, OutsideFrame DEF TypeOK, Whys, Pg
<1> QED BY <1>1, <1>2, <1>3, <1>4 DEF S3

\* The S3 vault reads.
LEMMA S3ReadInv ==
  ASSUME IInv, NEW c \in Procs, NEW op \in Ops, NEW p \in Paths, NEW q \in Paths,
         NEW match \in {NoMatch} \cup Tags, job[c] = Nil, calls < MaxCalls,
         S3Read(c, op, p, q, match)
  PROVE  IInv'
<1> USE DEF IInv
<1>1. PICK at \in {"put", "trash", "dropOld"} : Begin(c, op, p, q, match, at)
  BY DEF S3Read
<1>2. /\ job' \in [Procs -> Job \cup {Nil}] /\ calls' \in 0..MaxCalls
      /\ \A d \in Procs \ {c} : job'[d] = job[d]
      /\ job'[c].at = at
  BY <1>1, BeginJob
<1>3. ~At(c, "commit") /\ ~At(c, "commit")'  BY <1>2 DEF At
<1>4. UNCHANGED <<backend, store, trash, lock, cache, graph, fts, shown, scan, rescans, blame>>
  BY DEF S3Read, index, rescanning
<1> QED BY <1>2, <1>3, <1>4, OutsideFrame DEF TypeOK, Pg

-----------------------------------------------------------------------------
(* The end of a transaction                                                *)

\* What a commit does to the store: each operation's effect, and the rest of the
\* rows as they were.
LEMMA CommitStore ==
  ASSUME IInv, NEW c \in Procs, PgCommit(c), NEW p, p = job[c].path, NEW q, q = job[c].to,
         NEW op, op = job[c].op
  PROVE  /\ store' \in [Paths -> Row \cup {Nil}]
         /\ \A x \in Paths \ {p, q} : store'[x] = store[x]
         /\ op # "move" => q = p
         /\ op = "move" => store[q] = Nil /\ store'[q] = store[p]
         /\ op \in {"update", "patch"} =>
              store'[p] # Nil /\ store[p] # Nil /\ store'[p].id = store[p].id
              /\ store'[p].gone = store[p].gone
         /\ op = "create" => ~Live(p)
<1> USE DEF IInv
<1> DEFINE r == IF op = "move" THEN store[p] ELSE NewRow(job[c].row, op, job[c].tag)
<1>1. At(c, "commit") /\ PgApplies(op, p, q, job[c].row) /\ store' = StoreAfter(op, p, q, r)
  BY DEF PgCommit
<1>2. p \in Paths /\ q \in Paths /\ op \in Ops /\ job[c].row \in Rows /\ job[c].tag \in Tags
  BY <1>1, HasJob
<1>3. /\ op # "move" => q = p
      /\ op \in {"update", "patch", "move"} => job[c].row # Nil
      /\ op \notin Deletes /\ job[c].row # Nil => store[p] = job[c].row
      /\ op = "create" /\ job[c].row # Nil => job[c].row.gone = TRUE
  BY <1>1 DEF HoldInv
<1>4. store \in [Paths -> Row \cup {Nil}]  BY DEF TypeOK
<1>5. CASE op = "move"
  <2>1. store' = [store EXCEPT ![p] = Nil, ![q] = store[p]] /\ store[q] = Nil
    BY <1>1, <1>5 DEF StoreAfter, PgApplies
  <2>2. store[p] # Nil  BY <1>3, <1>5 DEF Deletes
  <2> QED BY <1>2, <1>4, <1>5, <2>1, <2>2
<1>6. CASE op \in {"update", "patch"}
  <2>1. store' = [store EXCEPT ![p] = r] /\ r = NewRow(job[c].row, op, job[c].tag)
    BY <1>1, <1>6 DEF StoreAfter
  <2>2. job[c].row = store[p] /\ store[p] # Nil  BY <1>3, <1>6 DEF Deletes
  <2>3. store[p] \in Row  BY <1>2, <1>4, <2>2
  <2>4. r \in Row  BY <1>2, <1>3, <1>6, <2>1, NewRowType
  <2>5. r.id = store[p].id /\ r.gone = store[p].gone
    <3>1. CASE op = "update"  BY <2>1, <2>2, <2>3, <3>1 DEF NewRow, Row
    <3>2. CASE op = "patch"   BY <2>1, <2>2, <2>3, <3>2 DEF NewRow, Row
    <3> QED BY <1>6, <3>1, <3>2
  <2> HIDE DEF r
  <2>6. store'[p] = r  BY <1>2, <1>4, <2>1
  <2> QED BY <1>2, <1>3, <1>4, <1>6, <2>1, <2>2, <2>4, <2>5, <2>6, SharedAssumption
<1>7. CASE op = "create"
  <2>1. store' = [store EXCEPT ![p] = r] /\ r = NewRow(job[c].row, op, job[c].tag)
    BY <1>1, <1>7 DEF StoreAfter
  <2>2. r \in Row  BY <1>2, <1>7, <2>1, NewRowType
  <2>3. ~Live(p)
    <3>1. job[c].row # Nil \/ store[p] = Nil  BY <1>1, <1>7 DEF PgApplies
    <3> QED BY <1>3, <1>7, <3>1 DEF Live, Deletes
  <2> HIDE DEF r
  <2> QED BY <1>2, <1>3, <1>4, <1>7, <2>1, <2>2, <2>3
<1>8. CASE op = "delete"
  <2>1. store' = [store EXCEPT ![p] = Nil]  BY <1>1, <1>8 DEF StoreAfter
  <2> QED BY <1>2, <1>3, <1>4, <1>8, <2>1
<1>9. CASE op = "softDelete"
  <2>1. store' = [store EXCEPT ![p] = [store[p] EXCEPT !.gone = TRUE]]
    BY <1>1, <1>9 DEF StoreAfter
  <2>2. store[p] \in Row  BY <1>1, <1>2, <1>4, <1>9 DEF PgApplies, Live
  <2>3. [store[p] EXCEPT !.gone = TRUE] \in Row  BY <2>2 DEF Row
  <2> QED BY <1>2, <1>3, <1>4, <1>9, <2>1, <2>3
<1> QED BY <1>2, <1>5, <1>6, <1>7, <1>8, <1>9 DEF Ops

\* The end of a transaction gives back its own locks and no other's.
LEMMA UnlockFrame ==
  ASSUME IInv, NEW c \in Procs, At(c, "commit"), Unlock(c), backend' = backend,
         store' \in [Paths -> Row \cup {Nil}],
         \A x \in Paths : store'[x] = store[x] \/ lock[x] \in {Nil, c} \/ store[x] = Nil,
         \A x \in Paths : store[x] # Nil /\ lock[x] \in Procs \ {c} => store'[x] = store[x],
         job' \in [Procs -> Job \cup {Nil}], ~At(c, "commit")',
         \A d \in Procs \ {c} : job'[d] = job[d]
  PROVE  /\ HoldInv'
         /\ lock' \in [Paths -> Procs \cup {Nil}]
         /\ \A p \in Paths : lock'[p] # Nil =>
              Pg' /\ At(lock[p], "commit")' /\ (job[lock[p]])'.path = p
<1> USE DEF IInv
<1>1. lock' = [p \in Paths |-> IF lock[p] = c THEN Nil ELSE lock[p]]  BY DEF Unlock
<1>2. \A x \in Paths : lock'[x] = IF lock[x] = c THEN Nil ELSE lock[x]  BY <1>1
<1>3. lock' \in [Paths -> Procs \cup {Nil}]  BY <1>1 DEF TypeOK
<1>4. \A d \in Procs : At(d, "commit")' => d # c /\ At(d, "commit") /\ job'[d] = job[d]  BY DEF At
<1>5. HoldInv'
  <2> SUFFICES ASSUME NEW d \in Procs, At(d, "commit")'
               PROVE  LET j == job[d] IN
                      (/\ Pg
                       /\ j.op # "move" => j.to = j.path
                       /\ j.op \in {"update", "patch", "move"} => j.row # Nil
                       /\ j.op \notin Deletes /\ j.row # Nil => lock[j.path] = d /\ store[j.path] = j.row
                       /\ j.op = "create" /\ j.row # Nil => j.row.gone = TRUE
                       /\ j.match # NoMatch => lock[j.path] = d /\ store[j.path] # Nil
                                               /\ store[j.path].etag = j.match)'
    BY DEF HoldInv
  <2>1. d # c /\ At(d, "commit") /\ job'[d] = job[d]  BY <1>4
  <2>2. job[d].path \in Paths  BY <2>1, HasJob
  <2>3. lock[job[d].path] = d /\ store[job[d].path] # Nil =>
          lock'[job[d].path] = d /\ store'[job[d].path] = store[job[d].path]
    BY <1>2, <2>1, <2>2
  <2> QED BY <2>1, <2>3 DEF HoldInv, Pg
<1>6. \A p \in Paths : lock'[p] # Nil =>
        Pg' /\ At(lock[p], "commit")' /\ (job[lock[p]])'.path = p
  <2> SUFFICES ASSUME NEW p \in Paths, lock'[p] # Nil
               PROVE  Pg' /\ At(lock[p], "commit")' /\ (job[lock[p]])'.path = p
    OBVIOUS
  <2>1. lock'[p] = lock[p] /\ lock[p] # c /\ lock[p] # Nil  BY <1>2
  <2>2. lock[p] \in Procs \ {c}  BY <2>1 DEF TypeOK
  <2>3. job'[lock[p]] = job[lock[p]]  BY <2>2
  <2> QED BY <2>1, <2>3 DEF TypeOK, Pg, At
<1> QED BY <1>3, <1>5, <1>6

\* A transaction commits or is rolled back.
LEMMA PostgresInv ==
  ASSUME IInv, NEW c \in Procs, Postgres(c)
  PROVE  IInv'
<1> USE DEF IInv
<1>1. CASE PgRollback(c)
  <2>1. At(c, "commit") /\ Unlock(c) /\ job' = [job EXCEPT ![c] = Nil]
    BY <1>1 DEF PgRollback, Return
  <2>2. job' \in [Procs -> Job \cup {Nil}] /\ ~At(c, "commit")' /\ \A d \in Procs \ {c} : job'[d] = job[d]
    BY <2>1 DEF TypeOK, At
  <2>3. UNCHANGED <<backend, store, trash, cache, graph, fts, shown, scan, rescans, calls, blame>>
    BY <1>1 DEF PgRollback, index, rescanning
  <2>4. store' \in [Paths -> Row \cup {Nil}]  BY <2>3 DEF TypeOK
  <2> QED BY <2>1, <2>2, <2>3, <2>4, UnlockFrame DEF TypeOK, Pg
<1>2. CASE PgCommit(c)
  <2> DEFINE op == job[c].op
             p == job[c].path
             q == job[c].to
             r == IF op = "move" THEN store[p] ELSE NewRow(job[c].row, op, job[c].tag)
             w == IF op \in Deletes THEN Nil ELSE r
             k == [job[c] EXCEPT !.at = "cache", !.match = NoMatch, !.row = w]
  <2>1. /\ At(c, "commit") /\ Unlock(c) /\ lock[p] \in {Nil, c}
        /\ job' = [job EXCEPT ![c] = k] /\ Stored(c, {p, q})
    BY <1>2 DEF PgCommit
  <2>2. job[c] \in Job /\ p \in Paths /\ op \in Ops /\ job[c].row \in Rows /\ job[c].tag \in Tags
    BY <2>1, HasJob
  <2>3. w \in Rows
    <3>1. CASE op = "move"  BY <2>2, <3>1 DEF TypeOK, Rows, Deletes
    <3>2. CASE op \in Deletes  BY <3>2 DEF Rows
    <3>3. CASE op \in {"create", "update", "patch"}
      <4>1. op \in {"update", "patch"} => job[c].row # Nil  BY <2>1 DEF HoldInv
      <4>2. NewRow(job[c].row, op, job[c].tag) \in Rows  BY <2>2, <4>1, NewRowType
      <4> QED BY <3>3, <4>2 DEF Rows
    <3> QED BY <2>2, <3>1, <3>2, <3>3 DEF Ops, Deletes
  <2> HIDE DEF w
  <2>4. k \in Job  BY <2>2, <2>3, JobType
  <2>5. k.at = "cache"  BY <2>2 DEF Job
  <2> HIDE DEF k
  <2>6. job' \in [Procs -> Job \cup {Nil}] /\ ~At(c, "commit")' /\ \A d \in Procs \ {c} : job'[d] = job[d]
    BY <2>1, <2>4, <2>5 DEF TypeOK, At
  <2>7. /\ store' \in [Paths -> Row \cup {Nil}]
        /\ \A x \in Paths \ {p, q} : store'[x] = store[x]
        /\ op # "move" => q = p
        /\ op = "move" => store[q] = Nil
    BY <1>2, CommitStore
  <2>8. UNCHANGED <<backend, trash, cache, graph, fts, shown, scan, rescans, calls>>
    BY <1>2 DEF PgCommit, index, rescanning
  <2>9. blame' \in [Paths -> SUBSET Whys]  BY <2>1, StoredType
  <2>10. \A x \in Paths : store'[x] = store[x] \/ lock[x] \in {Nil, c} \/ store[x] = Nil
    BY <2>1, <2>7
  <2>11. \A x \in Paths : store[x] # Nil /\ lock[x] \in Procs \ {c} => store'[x] = store[x]
    BY <2>10, SharedAssumption
  <2> QED BY <2>1, <2>6, <2>7, <2>8, <2>9, <2>10, <2>11, UnlockFrame DEF TypeOK, Whys, Pg
<1> QED BY <1>1, <1>2 DEF Postgres

-----------------------------------------------------------------------------
(* The theorems                                                            *)

\* The inductive invariant holds at the start.
LEMMA InitInv == Init => IInv
<1> SUFFICES ASSUME Init PROVE IInv
  OBVIOUS
<1>1. PICK ps \in SUBSET Paths :
        /\ store = [p \in Paths |->
             IF p \in ps THEN [id |-> p, etag |-> p, body |-> p, gone |-> FALSE] ELSE Nil]
        /\ cache \in [Keys -> {[path |-> p, etag |-> p] : p \in ps} \cup {Nil}]
        /\ \A k \in Keys : IF cache[k] = Nil THEN \A p \in ps : KeyOf[p] # k
                           ELSE KeyOf[cache[k].path] = k
        /\ graph = [p \in Paths |-> IF p \in ps THEN p ELSE Nil]
        /\ blame = [p \in Paths |-> IF p \in ps /\ Twin(p, ps) THEN {"case"} ELSE {}]
  BY DEF Init
<1>2. store \in [Paths -> Row \cup {Nil}]
  <2>1. \A p \in Paths : [id |-> p, etag |-> p, body |-> p, gone |-> FALSE] \in Row  BY DEF Row, Tags
  <2> QED BY <1>1, <2>1
<1>3. CacheType /\ graph \in [Paths -> Tags \cup {Nil}] /\ blame \in [Paths -> SUBSET Whys]
  <2>1. {[path |-> p, etag |-> p] : p \in ps} \subseteq Summary  BY DEF Summary, Tags
  <2>2. cache \in [Keys -> Summary \cup {Nil}]  BY <1>1, <2>1
  <2>3. graph \in [Paths -> Tags \cup {Nil}]  BY <1>1 DEF Tags
  <2>4. blame \in [Paths -> SUBSET Whys]  BY <1>1 DEF Whys
  <2> QED BY <1>1, <2>2, <2>3, <2>4 DEF CacheType
<1>4. \A c \in Procs : \A at : ~At(c, at)  BY DEF Init, At
<1>5. HoldInv  BY <1>4 DEF HoldInv
<1>6. TypeOK
  BY <1>2, <1>3, SharedAssumption DEF Init, TypeOK, CacheType, Whys
<1> QED BY <1>5, <1>6 DEF IInv

\* Every step preserves it.
LEMMA NextInv == IInv /\ [Next]_vars => IInv'
<1> SUFFICES ASSUME IInv, [Next]_vars PROVE IInv'
  OBVIOUS
<1>1. ASSUME NEW s \in Rescanners, Rescans(s)  PROVE IInv'  BY <1>1, RescanInv
<1>1a. ASSUME NEW p \in Paths, Foreign(p)  PROVE IInv'  BY <1>1a, ForeignInv
<1>2. ASSUME NEW c \in Procs, job[c] = Nil, calls < MaxCalls, NEW op \in Ops, NEW p \in Paths, NEW q \in Paths,
             NEW match \in {NoMatch} \cup Tags,
             PgRead(c, op, p, q, match) \/ S3Read(c, op, p, q, match)
      PROVE  IInv'
  BY <1>2, PgReadInv, S3ReadInv
<1>3. ASSUME NEW c \in Procs, Postgres(c)  PROVE IInv'  BY <1>3, PostgresInv
<1>4. ASSUME NEW c \in Procs, S3(c)  PROVE IInv'  BY <1>4, S3Inv
<1>5. ASSUME NEW c \in Procs, SetCache(c) \/ SetDoc(c)  PROVE IInv'  BY <1>5, IndexInv
<1>6. CASE UNCHANGED vars
  BY <1>6 DEF vars, IInv, TypeOK, HoldInv, Pg, At
<1> QED BY <1>1, <1>1a, <1>2, <1>3, <1>4, <1>5, <1>6 DEF Next

\* A goroutine passes from its transaction to the index by its own commit only.
LEMMA OnlyCommit ==
  ASSUME IInv, [Next]_vars, NEW c \in Procs, Commits(c)
  PROVE  PgCommit(c)
<1>0. At(c, "commit") /\ job'[c] # Nil /\ job'[c].at = "cache" /\ job[c] # Nil /\ job[c].at = "commit"
  BY DEF Commits, At
<1> USE DEF IInv
<1>1. ASSUME NEW s \in Rescanners, Rescans(s)  PROVE FALSE
  BY <1>0, <1>1 DEF Rescans, RescanStart, RescanGraph, RescanFts, RescanRead, RescanLoad, RescanSkip, RescanFail
<1>1a. ASSUME NEW p \in Paths, Foreign(p)  PROVE FALSE
  BY <1>0, <1>1a DEF Foreign
<1>2. ASSUME NEW d \in Procs, job[d] = Nil, NEW op, NEW p, NEW q, NEW match, NEW at, Begin(d, op, p, q, match, at)
      PROVE  FALSE
  <2>1. d # c  BY <1>0, <1>2
  <2>2. job'[c] = job[c]  BY <1>2, <2>1 DEF Begin, TypeOK
  <2> QED BY <1>0, <2>2
<1>3. ASSUME NEW d \in Procs, PgCommit(d)  PROVE PgCommit(c)
  <2>1. CASE d # c
    <3>1. job'[c] = job[c]  BY <1>3, <2>1 DEF PgCommit, TypeOK
    <3> QED BY <1>0, <3>1
  <2> QED BY <1>3, <2>1
<1>4. ASSUME NEW d \in Procs, PgRollback(d)  PROVE FALSE
  BY <1>0, <1>4 DEF PgRollback, Return, TypeOK
<1>5. ASSUME NEW d \in Procs, S3(d) \/ SetCache(d) \/ SetDoc(d)  PROVE FALSE
  <2>1. ~At(d, "commit")
    BY <1>5 DEF S3, S3Put, S3PutRefused, S3Trash, S3Drop, SetCache, SetDoc, At
  <2>2. d # c  BY <1>0, <2>1
  <2>3. job'[c] = job[c]
    BY <1>5, <2>2 DEF S3, S3Put, S3PutRefused, S3Trash, S3Drop, SetCache, SetDoc, Return, Goto, TypeOK
  <2> QED BY <1>0, <2>3
<1>6. CASE UNCHANGED vars  BY <1>0, <1>6 DEF vars
<1> QED BY <1>1, <1>1a, <1>2, <1>3, <1>4, <1>5, <1>6 DEF Next, Postgres, PgRead, S3Read

\* Every reachable state of the shared vaults is well typed, and a row is locked
\* only by a transaction that has read it and has not ended.
THEOREM SharedTypeCorrect == Spec => []TypeOK
<1>1. IInv => TypeOK  BY DEF IInv
<1> QED BY <1>1, InitInv, NextInv, PTL DEF Spec

\* PostgresVault: a call that named an ETag writes or deletes only the row that has
\* it, whatever other transactions do between its SELECT ... FOR UPDATE and its commit.
THEOREM ConditionalWrites == Spec => StaleWriteRejected
<1>1. IInv /\ [Next]_vars => [\A c \in Procs : Commits(c) /\ job[c].match # NoMatch =>
                                store[job[c].path].etag = job[c].match]_vars
  BY DEF HoldInv, IInv, Commits
<1> QED BY <1>1, InitInv, NextInv, PTL DEF Spec, StaleWriteRejected

\* PostgresVault: no commit of a Create, UpdateBody, Replace, PatchFrontMatter or Move
\* makes a note that is not deleted disappear.
THEOREM NoLostNotes == Spec => NoNoteLost
<1>1. ASSUME IInv, [Next]_vars, NEW c \in Procs, Commits(c), job[c].op \notin Deletes
      PROVE  LiveIds \subseteq LiveIds'
  <2>1. PgCommit(c)  BY <1>1, OnlyCommit
  <2> DEFINE op == job[c].op
             p == job[c].path
             q == job[c].to
  <2>2. /\ \A x \in Paths \ {p, q} : store'[x] = store[x]
        /\ op # "move" => q = p
        /\ op = "move" => store[q] = Nil /\ store'[q] = store[p]
        /\ op \in {"update", "patch"} =>
             store'[p] # Nil /\ store[p] # Nil /\ store'[p].id = store[p].id
             /\ store'[p].gone = store[p].gone
        /\ op = "create" => ~Live(p)
    BY <1>1, <2>1, CommitStore
  <2>3. p \in Paths /\ q \in Paths /\ op \in Ops  BY <1>1, HasJob DEF IInv, Commits
  <2> SUFFICES ASSUME NEW x \in Paths, store[x] # Nil, ~store[x].gone
               PROVE  \E y \in Paths : store'[y] # Nil /\ ~store'[y].gone /\ store'[y].id = store[x].id
    BY DEF LiveIds, Live
  <2>4. CASE x \notin {p, q}  BY <2>2, <2>4
  <2>5. CASE x = p /\ op = "move"  BY <2>2, <2>3, <2>5
  <2>6. CASE x = p /\ op \in {"update", "patch"}  BY <2>2, <2>3, <2>6
  <2>7. CASE x = p /\ op = "create"  BY <2>2, <2>7 DEF Live
  <2>8. CASE x = q /\ op = "move"  BY <2>2, <2>8
  <2> QED BY <1>1, <2>2, <2>3, <2>4, <2>5, <2>6, <2>7, <2>8 DEF Ops, Deletes
<1>2. IInv /\ [Next]_vars => [\A c \in Procs : Commits(c) /\ job[c].op \notin Deletes
                                => LiveIds \subseteq LiveIds']_vars
  BY <1>1
<1> QED BY <1>2, InitInv, NextInv, PTL DEF Spec, NoNoteLost

-----------------------------------------------------------------------------
(* The index                                                               *)

\* A goroutine that has changed path p in the store and owes the change to the index.
Owes(c, p) ==
  /\ job[c] # Nil
  /\ \/ job[c].at \in {"cache", "doc"} /\ p \in {job[c].path, job[c].to}
     \/ job[c].at = "dropOld" /\ job[c].op = "move" /\ p = job[c].to

\* What the index should have for a path, and that it has it; the summary of a path
\* that has lost it to one that differs in case is not asked for.
Etag(p) == IF Live(p) THEN store[p].etag ELSE Nil
Body(p) == IF Live(p) THEN store[p].body ELSE Nil
CacheOK(p) == "case" \in blame[p] \/ Cached(p) = Etag(p)
Shows(p) == CacheOK(p) /\ graph[p] = Body(p) /\ fts[p] = Body(p)

\* A rescan that will load the path, and has left nothing wrong where it has emptied.
Mends(s, p) ==
  /\ scan[s] # Nil /\ p \in scan[s].left
  /\ "case" \in blame[p] \/ Cached(p) \in {Nil, Etag(p)}
  /\ scan[s].at # "graph" => graph[p] \in {Nil, Body(p)}
  /\ scan[s].at \notin {"graph", "fts"} => fts[p] \in {Nil, Body(p)}

\* What a call carries from step to step; S3 has no soft-deleted rows.
CallOK(c) ==
  job[c] # Nil =>
    LET j == job[c] IN
    /\ j.op = "move" <=> j.path # j.to
    /\ j.op \in Deletes => j.row = Nil
    /\ j.at = "trash" => j.op \in Deletes
    /\ j.at = "dropOld" => j.op \in Deletes \cup {"move"}
    /\ j.at \in {"commit", "put"} /\ j.op \in {"update", "patch", "move"} =>
         j.row # Nil /\ j.row.gone = FALSE

CallInv ==
  /\ \A c \in Procs : CallOK(c)
  /\ \A s \in Rescanners : scan[s] # Nil /\ scan[s].at # "load" => scan[s].left = Paths
  /\ ~Pg => \A p \in Paths : store[p] # Nil => store[p].gone = FALSE

\* A call that owes the index a change of path p and that nobody raced with carries
\* what p has in the store; a patch relies on what the index already has.
Due(c, p) ==
  LET j == job[c] IN
  /\ p # j.to => ~Live(p)
  /\ j.at # "doc" /\ p = j.to =>
       /\ j.row = IF Live(p) THEN store[p] ELSE Nil
       /\ j.op = "patch" => Live(p) /\ graph[p] = Body(p) /\ fts[p] = Body(p)
  /\ j.at = "doc" =>
       /\ CacheOK(p)
       /\ p = j.to => j.links = Body(p)
       /\ j.op = "patch" => fts[p] = Body(p)

\* No graph or full-text index is excused at the path.
Clean(p) == blame[p] \subseteq {"case"}

\* No change of another path with its key can take a summary from p.
Safe(p) == "case" \in blame[p] \/ ~Live(p)
Twins(p, x) == x # p /\ KeyOf[x] = KeyOf[p]

\* A call that has still to set or drop the summary of x.
Takes(c, x) == Owes(c, x) /\ job[c].at # "doc"

\* The paths with the key of p that a call or a rescan will put into the cache.
TwinSafe(p) ==
  \A x \in Paths : Twins(p, x) =>
    /\ \A c \in Procs : Takes(c, x) /\ p \notin {job[c].path, job[c].to} => Safe(p)
    /\ \A s \in Rescanners : scan[s] # Nil =>
         /\ Live(x) => Safe(p)
         /\ Pg /\ scan[s].at = "load" /\ scan[s].rows[x] # Nil /\ ~scan[s].rows[x].gone => Safe(p)

\* A path that is not blamed: at most one call owes it something and none does during
\* a rescan; the index has what it should, or will have it when that call or a rescan
\* reaches the path.
PathInv(p) ==
  Clean(p) =>
    /\ \A c, d \in Procs : Owes(c, p) /\ Owes(d, p) => c = d
    /\ \A c \in Procs : Owes(c, p) => ~Rescanning /\ Due(c, p)
    /\ \A s \in Rescanners : Pg /\ InScan(s, "load") => scan[s].rows[p] = store[p]
    /\ (\A c \in Procs : ~Owes(c, p)) => Shows(p) \/ \E s \in Rescanners : Mends(s, p)
    /\ TwinSafe(p)

XInv == IInv /\ CallInv /\ \A p \in Paths : PathInv(p)

\* Who owes a path something is pending there, and on the path's twins.
LEMMA OwesPending ==
  ASSUME NEW c, NEW p, Owes(c, p)
  PROVE  PendingOn(c, p) /\ \A x : Twins(x, p) => PendingTwin(c, x)
BY DEF Owes, Pending, PendingOn, PendingTwin, Twins, Twin

\* A path that a step leaves alone, and to which it adds no debt; its summary may only
\* go where a twin takes it.
LEMMA PathFrame ==
  ASSUME NEW p \in Paths, PathInv(p), UNCHANGED <<backend, scan>>,
         store'[p] = store[p], graph'[p] = graph[p], fts'[p] = fts[p],
         Clean(p)' => Clean(p) /\ TwinSafe(p)' /\ blame[p] \subseteq blame'[p],
         Clean(p)' => Cached(p)' = Cached(p) \/ (Safe(p) /\ Cached(p)' = Nil),
         \A d \in Procs : Owes(d, p)' <=> Owes(d, p),
         \A d \in Procs : Owes(d, p) => job'[d] = job[d] \/ (Clean(p)' => Due(d, p)')
  PROVE  PathInv(p)'
<1> SUFFICES ASSUME Clean(p)' PROVE PathInv(p)'
  BY DEF PathInv
<1>0. Clean(p) /\ TwinSafe(p)' /\ blame[p] \subseteq blame'[p]  OBVIOUS
<1>1. \A d \in Procs : Owes(d, p) => ~Rescanning /\ Due(d, p)  BY <1>0 DEF PathInv
<1>2. (Etag(p))' = Etag(p) /\ (Body(p))' = Body(p) /\ (Live(p)' <=> Live(p))  BY DEF Etag, Body, Live
<1>3. CacheOK(p) => CacheOK(p)'  BY <1>0, <1>2 DEF CacheOK, Safe, Etag
<1>4. \A d \in Procs : Owes(d, p) => Due(d, p)'
  <2>1. ASSUME NEW d \in Procs, Owes(d, p), job'[d] = job[d]  PROVE Due(d, p)'
    <3>1. Due(d, p)  BY <1>1, <2>1
    <3> QED BY <1>2, <1>3, <2>1, <3>1 DEF Due
  <2> QED BY <2>1
<1>5. Shows(p) => Shows(p)'  BY <1>2, <1>3 DEF Shows
<1>6. \A s \in Rescanners : Mends(s, p) => Mends(s, p)'  BY <1>0, <1>2 DEF Mends
<1>7. Rescanning' <=> Rescanning  BY DEF Rescanning
<1>8. \A s \in Rescanners : Pg /\ InScan(s, "load") => scan[s].rows[p] = store[p]  BY <1>0 DEF PathInv
<1> QED BY <1>0, <1>1, <1>4, <1>5, <1>6, <1>7, <1>8 DEF PathInv, Pg, InScan

\* The twins of a path, when nobody's debt to the cache grows and the store is the same.
LEMMA TwinFrame ==
  ASSUME NEW p \in Paths, TwinSafe(p), UNCHANGED <<backend, store, scan>>, blame[p] \subseteq blame'[p],
         \A d \in Procs : \A x \in Paths : Takes(d, x)' =>
           /\ Takes(d, x) /\ job'[d].path = job[d].path /\ job'[d].to = job[d].to
  PROVE  TwinSafe(p)'
<1>1. Safe(p) => Safe(p)'  BY DEF Safe, Live
<1> QED BY <1>1 DEF TwinSafe, Live, Pg

\* A path that a call has changed in the store and that is not blamed for it: no other
\* call owes it anything and no rescan is under way.
LEMMA StoredClean ==
  ASSUME TypeOK, NEW c \in Procs, NEW ps, NEW p \in Paths, p \in ps, Stored(c, ps), Clean(p)'
  PROVE  /\ ~Rescanning /\ \A d \in Procs \ {c} : ~Owes(d, p)
         /\ \A d \in Procs \ {c} : \A x : Owes(d, x) /\ Twins(p, x) => "case" \in blame'[p]
         /\ job[c].op = "patch" => Clean(p)
<1>1. blame'[p] = Causes(c, p)  BY DEF Stored
<1>2. "race" \notin Causes(c, p)  BY <1>1 DEF Clean
<1>3. ~Rescanning /\ \A d \in Procs \ {c} : ~PendingOn(d, p)  BY <1>2 DEF Causes
<1>4. \A d \in Procs \ {c} : ~Owes(d, p)  BY <1>3, OwesPending
<1>5. ASSUME NEW d \in Procs \ {c}, NEW x, Owes(d, x), Twins(p, x)  PROVE "case" \in blame'[p]
  <2>1. PendingTwin(d, p)  BY <1>5, OwesPending
  <2> QED BY <1>1, <2>1 DEF Causes
<1>6. job[c].op = "patch" => Clean(p)  BY <1>1 DEF Causes, Clean
<1> QED BY <1>3, <1>4, <1>5, <1>6

\* The twins of a path, after a change of some paths in the store.
LEMMA TwinStored ==
  ASSUME TypeOK, NEW c \in Procs, NEW ps, NEW p \in Paths, PathInv(p), Stored(c, ps), Clean(p)',
         ps \subseteq {job[c].path, job[c].to},
         UNCHANGED <<backend, scan>>, \A d \in Procs \ {c} : job'[d] = job[d],
         job'[c].path = job[c].path, job'[c].to = job[c].to,
         \A x \in Paths \ ps : store'[x] = store[x],
         \A x \in Paths : Takes(c, x)' => Takes(c, x) \/ x \in ps,
         \A x \in ps : Live(x)' => job[c].to \in ps
  PROVE  TwinSafe(p)'
<1>1. \A d \in Procs \ {c} : \A x : Takes(d, x)' <=> Takes(d, x)  BY DEF Takes, Owes
<1>2. CASE p \in ps
  <2>1. /\ ~Rescanning
        /\ \A d \in Procs \ {c} : \A x : Owes(d, x) /\ Twins(p, x) => "case" \in blame'[p]
    BY <1>2, StoredClean
  <2>2. \A s \in Rescanners : scan'[s] = Nil  BY <2>1 DEF Rescanning
  <2>3. \A d \in Procs \ {c} : \A x : Takes(d, x)' /\ Twins(p, x) => Safe(p)'
    BY <1>1, <2>1 DEF Takes, Safe
  <2>4. p \in {job'[c].path, job'[c].to}  BY <1>2
  <2> QED BY <2>2, <2>3, <2>4 DEF TwinSafe, Twins
<1>3. CASE p \notin ps
  <2>1. blame'[p] = IF Twin(p, ps) /\ Live(p) /\ p # job[c].to THEN blame[p] \cup {"case"} ELSE blame[p]
    BY <1>3 DEF Stored
  <2>2. Clean(p) /\ blame[p] \subseteq blame'[p] /\ (Live(p)' <=> Live(p))
    BY <1>3, <2>1 DEF Clean, Live
  <2>3. TwinSafe(p) /\ (Safe(p) => Safe(p)')  BY <2>2 DEF PathInv, Safe
  <2>4. \A x \in ps : Twins(p, x) /\ p # job[c].to => Safe(p)'
    BY <2>1, <2>2 DEF Safe, Twin, Twins
  <2>5. ASSUME NEW x \in Paths, Twins(p, x), NEW d \in Procs, Takes(d, x)', p \notin {job'[d].path, job'[d].to}
        PROVE  Safe(p)'
    <3>1. CASE d # c  BY <1>1, <2>3, <2>5, <3>1 DEF TwinSafe
    <3>2. CASE d = c /\ x \in ps  BY <2>4, <2>5, <3>2
    <3>3. CASE d = c /\ Takes(c, x)  BY <2>3, <2>5, <3>3 DEF TwinSafe
    <3> QED BY <2>5, <3>1, <3>2, <3>3
  <2>6. ASSUME NEW x \in Paths, Twins(p, x), NEW s \in Rescanners, scan'[s] # Nil, Live(x)'
        PROVE  Safe(p)'
    <3>1. CASE x \in ps  BY <1>3, <2>4, <2>6, <3>1
    <3>2. CASE x \notin ps
      <4>1. Live(x)  BY <2>6, <3>2 DEF Live
      <4> QED BY <2>3, <2>6, <4>1 DEF TwinSafe
    <3> QED BY <3>1, <3>2
  <2> QED BY <2>3, <2>5, <2>6 DEF TwinSafe, Pg, Twins
<1> QED BY <1>2, <1>3

\* It then has what it should, when the call that changed it does.
LEMMA PathStored ==
  ASSUME TypeOK, NEW c \in Procs, NEW ps, NEW p \in Paths, p \in ps, Stored(c, ps),
         UNCHANGED scan, \A d \in Procs \ {c} : job'[d] = job[d],
         Owes(c, p)', Clean(p)' => Due(c, p)' /\ TwinSafe(p)'
  PROVE  PathInv(p)'
<1> SUFFICES ASSUME Clean(p)' PROVE PathInv(p)'
  BY DEF PathInv
<1>1. ~Rescanning /\ \A d \in Procs \ {c} : ~Owes(d, p)  BY StoredClean
<1>2. \A d \in Procs \ {c} : ~Owes(d, p)'  BY <1>1 DEF Owes
<1>3. ~Rescanning' /\ \A s \in Rescanners : ~InScan(s, "load")'  BY <1>1 DEF Rescanning, InScan
<1> QED BY <1>2, <1>3 DEF PathInv

\* The calls, after a step of one goroutine that leaves the store alone.
LEMMA CallFrame ==
  ASSUME CallInv, NEW c \in Procs, UNCHANGED <<backend, store, scan>>,
         \A d \in Procs \ {c} : job'[d] = job[d], CallOK(c)'
  PROVE  CallInv'
BY DEF CallInv, CallOK, Pg

\* A call begins: it owes nothing.
LEMMA BeginIndex ==
  ASSUME XInv, NEW c \in Procs, NEW op \in Ops, NEW p \in Paths, NEW q \in Paths,
         NEW match \in {NoMatch} \cup Tags, job[c] = Nil, calls < MaxCalls,
         PgRead(c, op, p, q, match) \/ S3Read(c, op, p, q, match)
  PROVE  CallInv' /\ \A x \in Paths : PathInv(x)'
<1> USE DEF XInv, IInv
<1>1. PICK at \in {"commit", "put", "trash", "dropOld"} :
        /\ Begin(c, op, p, q, match, at)
        /\ at = "trash" => op = "softDelete"
        /\ at = "dropOld" => op = "delete"
        /\ Pg <=> at = "commit"
  BY DEF PgRead, S3Read
<1>2. /\ \A d \in Procs \ {c} : job'[d] = job[d]
      /\ job'[c] # Nil /\ job'[c].at = at
      /\ job'[c].op = op /\ job'[c].path = p /\ job'[c].to = q
      /\ job'[c].row = IF op \in Deletes THEN Nil ELSE store[p]
      /\ op # "move" => p = q
  BY <1>1, BeginJob
<1>3. op = "move" => p # q  BY <1>1 DEF Begin, Call
<1>4. UNCHANGED <<backend, store, trash, cache, graph, fts, shown, scan, rescans, blame>>
  BY DEF PgRead, S3Read, index, rescanning
<1>5. op \in {"update", "patch", "move"} => store[p] # Nil /\ store[p].gone = FALSE
  <2> SUFFICES ASSUME op \in {"update", "patch", "move"}
               PROVE  store[p] # Nil /\ store[p].gone = FALSE
    OBVIOUS
  <2>1. CASE PgRead(c, op, p, q, match)
    <3>1. Live(p)  BY <2>1 DEF PgRead, PgAccepts, Deletes
    <3>2. store[p] \in Row  BY <3>1 DEF Live, TypeOK
    <3>3. store[p].gone \in BOOLEAN  BY <3>2 DEF Row
    <3> QED BY <3>1, <3>3 DEF Live
  <2>2. CASE S3Read(c, op, p, q, match)
    <3>1. ~Pg /\ store[p] # Nil  BY <2>2 DEF S3Read, Deletes
    <3> QED BY <3>1 DEF CallInv
  <2> QED BY <2>1, <2>2
<1>6. CallOK(c)'  BY <1>1, <1>2, <1>3, <1>5 DEF CallOK, Deletes
<1>7. CallInv'  BY <1>2, <1>4, <1>6, CallFrame
<1>8. ASSUME NEW x \in Paths PROVE PathInv(x)'
  <2>1. ~Owes(c, x) /\ ~Owes(c, x)'  BY <1>1, <1>2 DEF Owes
  <2>2. \A d \in Procs : Owes(d, x)' <=> Owes(d, x)  BY <1>2, <2>1 DEF Owes
  <2>3. \A d \in Procs : Owes(d, x) => job'[d] = job[d]  BY <1>2, <2>1
  <2>4. \A d \in Procs : \A y \in Paths : Takes(d, y)' => Takes(d, y) /\ job'[d] = job[d]
    BY <1>1, <1>2 DEF Takes, Owes
  <2>5. Clean(x) => TwinSafe(x)'  BY <1>4, <2>4, TwinFrame DEF PathInv
  <2>6. Cached(x)' = Cached(x) /\ (Clean(x)' <=> Clean(x))  BY <1>4 DEF Cached, Clean
  <2> QED BY <1>4, <2>2, <2>3, <2>5, <2>6, PathFrame
<1> QED BY <1>7, <1>8

\* A call that fails or has nothing to do before it has changed the store, and the copy
\* that a soft delete of S3 makes, leave the index as it is.
LEMMA QuietStep ==
  ASSUME XInv, NEW c \in Procs, PgRollback(c) \/ S3PutRefused(c) \/ S3Trash(c)
  PROVE  CallInv' /\ \A x \in Paths : PathInv(x)'
<1> USE DEF XInv, IInv
<1> DEFINE k == [job[c] EXCEPT !.at = "dropOld"]
<1>1. /\ \E at \in {"commit", "put", "trash"} : At(c, at)
      /\ job' = [job EXCEPT ![c] = Nil] \/ (At(c, "trash") /\ job' = [job EXCEPT ![c] = k])
      /\ UNCHANGED <<backend, store, cache, graph, fts, scan, blame>>
  BY DEF PgRollback, S3PutRefused, S3Trash, Return, Goto, index, rescanning
<1>2. job[c] \in Job  BY <1>1, HasJob
<1>3. k.at = "dropOld" /\ k.op = job[c].op /\ k.path = job[c].path /\ k.to = job[c].to /\ k.row = job[c].row
  BY <1>2 DEF Job
<1> HIDE DEF k
<1>4. \A d \in Procs \ {c} : job'[d] = job[d]  BY <1>1 DEF TypeOK
<1>5. job'[c] = Nil \/ (At(c, "trash") /\ job'[c] = k)  BY <1>1 DEF TypeOK
<1>6. CallOK(c)  BY DEF CallInv
<1>7. CallOK(c)' /\ \A x \in Paths : ~Owes(c, x) /\ ~Owes(c, x)'
  BY <1>1, <1>3, <1>5, <1>6 DEF CallOK, Owes, At, Deletes
<1>8. CallInv'  BY <1>1, <1>4, <1>7, CallFrame
<1>9. ASSUME NEW x \in Paths PROVE PathInv(x)'
  <2>1. \A d \in Procs : Owes(d, x)' <=> Owes(d, x)  BY <1>4, <1>7 DEF Owes
  <2>2. \A d \in Procs : Owes(d, x) => job'[d] = job[d]  BY <1>4, <1>7
  <2>3. \A d \in Procs : \A y \in Paths : Takes(d, y)' => Takes(d, y) /\ job'[d] = job[d]
    BY <1>4, <1>7 DEF Takes, Owes
  <2>4. Clean(x) => TwinSafe(x)'  BY <1>1, <2>3, TwinFrame DEF PathInv
  <2>5. Cached(x)' = Cached(x) /\ (Clean(x)' <=> Clean(x))  BY <1>1 DEF Cached, Clean
  <2> QED BY <1>1, <2>1, <2>2, <2>4, <2>5, PathFrame
<1> QED BY <1>8, <1>9

\* The summary of a path is set to that of the row which the call has written.
LEMMA SetCacheIndex ==
  ASSUME XInv, NEW c \in Procs, SetCache(c)
  PROVE  CallInv' /\ \A x \in Paths : PathInv(x)'
<1> USE DEF XInv, IInv
<1> DEFINE k == [job[c] EXCEPT !.at = "doc", !.row = Nil, !.links = LinksOf(c)]
           p == job[c].path
           q == job[c].to
<1>1. /\ At(c, "cache") /\ job' = [job EXCEPT ![c] = k] /\ cache' = Summaries(p, q, job[c].row)
      /\ UNCHANGED <<backend, store, graph, fts, scan, blame>>
  BY DEF SetCache, rescanning
<1>2. job[c] \in Job /\ p \in Paths /\ q \in Paths  BY <1>1, HasJob
<1>3. k.at = "doc" /\ k.op = job[c].op /\ k.path = p /\ k.to = q /\ k.row = Nil /\ k.links = LinksOf(c)
  BY <1>2 DEF Job
<1> HIDE DEF k
<1>4. job'[c] = k /\ \A d \in Procs \ {c} : job'[d] = job[d]  BY <1>1 DEF TypeOK
<1>4a. k # Nil
  <2>1. LinksOf(c) \in Tags \cup {Nil}
    <3>1. job[c].row # Nil => job[c].row.body \in Tags  BY <1>2 DEF Job, Row
    <3>2. graph[p] \in Tags \cup {Nil}  BY <1>2 DEF TypeOK
    <3> QED BY <3>1, <3>2 DEF LinksOf
  <2>2. k \in Job  BY <1>2, <2>1, JobType DEF k, Rows
  <2> QED BY <2>2, SharedAssumption
<1>5. /\ cache'[KeyOf[q]] = Entry(q, job[c].row)
      /\ KeyOf[p] # KeyOf[q] => cache'[KeyOf[p]] = Nil
      /\ \A y \in Keys \ {KeyOf[p], KeyOf[q]} : cache'[y] = cache[y]
  <2>1. CacheType /\ job[c].row \in Rows  BY <1>2 DEF TypeOK, CacheType, Job, Rows
  <2> QED BY <1>1, <1>2, <2>1, SummariesType
<1>5a. Entry(q, job[c].row) # Nil => Entry(q, job[c].row).path = q
  BY <1>2, EntryType DEF Job, Rows
<1>6. CallOK(c)  BY DEF CallInv
<1>7. CallOK(c)'  BY <1>1, <1>3, <1>4, <1>6 DEF CallOK, At
<1>8. CallInv'  BY <1>1, <1>4, <1>7, CallFrame
<1>9. ASSUME NEW x \in Paths PROVE PathInv(x)'
  <2>1. \A d \in Procs : Owes(d, x)' <=> Owes(d, x)
    BY <1>1, <1>3, <1>4, <1>4a DEF Owes, At
  <2>1a. \A d \in Procs : \A y \in Paths : Takes(d, y)' => Takes(d, y) /\ job'[d] = job[d]
    BY <1>1, <1>3, <1>4, <1>4a DEF Takes, Owes
  <2>1b. Clean(x) => TwinSafe(x)'  BY <1>1, <2>1a, TwinFrame DEF PathInv
  <2>1c. Clean(x)' <=> Clean(x)  BY <1>1 DEF Clean
  <2>1d. KeyOf[x] \in Keys  BY DEF Keys
  <2>2. CASE x \notin {p, q}
    <3>1. ~Owes(c, x)  BY <1>1, <2>2 DEF Owes, At
    <3>2. CASE KeyOf[x] \notin {KeyOf[p], KeyOf[q]}
      <4>1. Cached(x)' = Cached(x)  BY <1>5, <2>1d, <3>2 DEF Cached
      <4> QED BY <1>1, <1>4, <2>1, <2>1b, <2>1c, <3>1, <4>1, PathFrame
    <3>3. CASE KeyOf[x] \in {KeyOf[p], KeyOf[q]}
      <4>1. Cached(x)' = Nil  BY <1>5, <1>5a, <2>2, <3>3 DEF Cached
      <4>2. Takes(c, p) /\ Takes(c, q)  BY <1>1 DEF Takes, Owes, At
      <4>3. Twins(x, p) \/ Twins(x, q)  BY <2>2, <3>3 DEF Twins
      <4>4. Clean(x) => Safe(x)  BY <1>2, <2>2, <4>2, <4>3 DEF PathInv, TwinSafe
      <4> QED BY <1>1, <1>4, <2>1, <2>1b, <2>1c, <3>1, <4>1, <4>4, PathFrame
    <3> QED BY <3>2, <3>3
  <2>3. CASE x \in {p, q}
    <3> SUFFICES ASSUME Clean(x)' PROVE PathInv(x)'
      BY DEF PathInv
    <3>1. Owes(c, x)  BY <1>1, <2>3 DEF Owes, At
    <3>2. /\ ~Rescanning /\ Due(c, x)
          /\ \A d \in Procs : Owes(d, x) => d = c
      BY <1>1, <2>1c, <3>1 DEF PathInv
    <3>3. /\ x # q => ~Live(x)
          /\ x = q => job[c].row = IF Live(x) THEN store[x] ELSE Nil
          /\ x = q /\ job[c].op = "patch" => Live(x) /\ graph[x] = Body(x) /\ fts[x] = Body(x)
      BY <1>1, <3>2 DEF Due, At
    <3>4. job[c].op # "move" => p = q  BY <1>1, <1>6 DEF CallOK, At
    <3>5. x = q => (job[c].row = Nil <=> ~Live(x))  BY <3>3 DEF Live
    <3>6. Cached(x)' = Etag(x)
      <4>1. CASE x = q
        <5>1. job[c].row \in Rows  BY <1>2 DEF Job, Rows
        <5>2. IF Live(x) THEN Entry(q, job[c].row).etag = Etag(x) /\ Entry(q, job[c].row) # Nil
                         ELSE Entry(q, job[c].row) = Nil
          BY <1>2, <3>3, <3>5, <4>1, <5>1, EntryType DEF Etag
        <5> QED BY <1>5, <1>5a, <4>1, <5>2 DEF Cached, Etag
      <4>2. CASE x # q
        <5>1. Cached(x)' = Nil  BY <1>5, <1>5a, <2>3, <4>2 DEF Cached
        <5> QED BY <3>3, <4>2, <5>1 DEF Etag
      <4> QED BY <4>1, <4>2
    <3>7. x = q => k.links = Body(x)
      <4>1. CASE job[c].op = "patch" /\ x = q
        <5>1. job[c].row # Nil  BY <3>3, <3>5, <4>1
        <5>2. LinksOf(c) = graph[p]  BY <4>1, <5>1 DEF LinksOf
        <5> QED BY <1>3, <3>3, <3>4, <4>1, <5>2
      <4>2. CASE job[c].op # "patch"  BY <1>3, <3>3, <3>5, <4>2 DEF LinksOf, Body
      <4> QED BY <4>1, <4>2
    <3>8. job[c].op = "patch" => fts[x] = Body(x)  BY <2>3, <3>3, <3>4
    <3>9. Due(c, x)'
      <4>1. (Etag(x))' = Etag(x) /\ (Body(x))' = Body(x) /\ (Live(x)' <=> Live(x))
        BY <1>1 DEF Etag, Body, Live
      <4>2. CacheOK(x)'  BY <3>6, <4>1 DEF CacheOK
      <4> QED BY <1>1, <1>3, <1>4, <3>3, <3>7, <3>8, <4>1, <4>2 DEF Due
    <3>10. ~Rescanning' /\ \A s \in Rescanners : ~InScan(s, "load")'
      BY <1>1, <3>2 DEF Rescanning, InScan
    <3> QED BY <1>1, <2>1, <2>1b, <2>1c, <3>1, <3>2, <3>9, <3>10 DEF PathInv
  <2> QED BY <2>2, <2>3
<1> QED BY <1>8, <1>9

\* Graph and full-text index are set last: the call owes nothing any more.
LEMMA SetDocIndex ==
  ASSUME XInv, NEW c \in Procs, SetDoc(c)
  PROVE  CallInv' /\ \A x \in Paths : PathInv(x)'
<1> USE DEF XInv, IInv
<1> DEFINE p == job[c].path
           q == job[c].to
<1>1. /\ At(c, "doc") /\ job' = [job EXCEPT ![c] = Nil]
      /\ graph' = [graph EXCEPT ![p] = Nil, ![q] = job[c].links]
      /\ fts' = IF job[c].op = "patch" THEN fts ELSE [fts EXCEPT ![p] = Nil, ![q] = job[c].links]
      /\ UNCHANGED <<backend, store, cache, scan, blame>>
  BY DEF SetDoc, Return, rescanning
<1>2. p \in Paths /\ q \in Paths  BY <1>1, HasJob
<1>3. job'[c] = Nil /\ \A d \in Procs \ {c} : job'[d] = job[d]  BY <1>1 DEF TypeOK
<1>4. CallOK(c) /\ CallOK(c)'  BY <1>3 DEF CallInv, CallOK
<1>5. CallInv'  BY <1>1, <1>3, <1>4, CallFrame
<1>6. \A x \in Paths : ~Owes(c, x)' /\ \A d \in Procs \ {c} : Owes(d, x)' <=> Owes(d, x)
  BY <1>3 DEF Owes
<1>6a. \A d \in Procs : \A y \in Paths : Takes(d, y)' => Takes(d, y) /\ job'[d] = job[d]
  BY <1>3 DEF Takes, Owes
<1>7. ASSUME NEW x \in Paths PROVE PathInv(x)'
  <2>0. (Clean(x) => TwinSafe(x)') /\ Cached(x)' = Cached(x) /\ (Clean(x)' <=> Clean(x))
    BY <1>1, <1>6a, TwinFrame DEF PathInv, Cached, Clean
  <2>1. CASE x \notin {p, q}
    <3>1. ~Owes(c, x)  BY <1>1, <2>1 DEF Owes, At
    <3>2. graph'[x] = graph[x] /\ fts'[x] = fts[x]  BY <1>1, <2>1 DEF TypeOK
    <3>3. \A d \in Procs : Owes(d, x)' <=> Owes(d, x)  BY <1>6, <3>1
    <3> QED BY <1>1, <1>3, <2>0, <3>1, <3>2, <3>3, PathFrame
  <2>2. CASE x \in {p, q}
    <3> SUFFICES ASSUME Clean(x)' PROVE PathInv(x)'
      BY DEF PathInv
    <3>1. Owes(c, x)  BY <1>1, <2>2 DEF Owes, At
    <3>2. ~Rescanning /\ Due(c, x) /\ \A d \in Procs : Owes(d, x) => d = c
      BY <1>1, <2>0, <3>1 DEF PathInv
    <3>3. /\ x # q => ~Live(x)
          /\ CacheOK(x)
          /\ x = q => job[c].links = Body(x)
          /\ job[c].op = "patch" => fts[x] = Body(x)
      BY <1>1, <3>2 DEF Due, At
    <3>4. graph'[x] = Body(x)  BY <1>1, <1>2, <2>2, <3>3 DEF TypeOK, Body
    <3>5. fts'[x] = Body(x)
      <4>1. CASE job[c].op = "patch"  BY <1>1, <3>3, <4>1
      <4>2. CASE job[c].op # "patch"  BY <1>1, <1>2, <2>2, <3>3, <4>2 DEF TypeOK, Body
      <4> QED BY <4>1, <4>2
    <3>6. Shows(x)'
      <4>1. (Etag(x))' = Etag(x) /\ (Body(x))' = Body(x)  BY <1>1 DEF Etag, Body, Live
      <4> QED BY <1>1, <2>0, <3>3, <3>4, <3>5, <4>1 DEF Shows, CacheOK
    <3>7. \A d \in Procs : ~Owes(d, x)'  BY <1>6, <3>2
    <3>8. ~Rescanning' /\ \A s \in Rescanners : ~InScan(s, "load")'
      BY <1>1, <3>2 DEF Rescanning, InScan
    <3> QED BY <2>0, <3>6, <3>7, <3>8 DEF PathInv
  <2> QED BY <2>1, <2>2
<1> QED BY <1>5, <1>7

\* The calls, after a step of a rescan.
LEMMA CallRescan ==
  ASSUME CallInv, UNCHANGED <<backend, store, job>>,
         \A t \in Rescanners : scan'[t] # Nil /\ scan'[t].at # "load" => scan'[t].left = Paths
  PROVE  CallInv'
BY DEF CallInv, CallOK, Pg

\* The parts of a path's invariant that a step of a rescan does not touch.
LEMMA RescanFrame ==
  ASSUME NEW p \in Paths, PathInv(p), Rescanning, UNCHANGED <<backend, store, job>>,
         Clean(p)' => Clean(p) /\ blame[p] \subseteq blame'[p],
         \A t \in Rescanners : Pg /\ InScan(t, "load")' =>
           \/ InScan(t, "load") /\ scan'[t].rows = scan[t].rows
           \/ scan[t] # Nil /\ scan'[t].rows = store,
         \A t \in Rescanners : scan'[t] # Nil => scan[t] # Nil,
         Clean(p)' /\ (Shows(p) \/ \E t \in Rescanners : Mends(t, p))
           => Shows(p)' \/ \E t \in Rescanners : Mends(t, p)'
  PROVE  PathInv(p)'
<1> SUFFICES ASSUME Clean(p)' PROVE PathInv(p)'
  BY DEF PathInv
<1>1. \A d \in Procs : ~Owes(d, p) /\ ~Owes(d, p)'  BY DEF PathInv, Owes
<1>2. \A t \in Rescanners : (Pg /\ InScan(t, "load"))' => scan'[t].rows[p] = store'[p]
  BY DEF PathInv, Pg, InScan
<1>3. TwinSafe(p)'
  <2>1. Safe(p) => Safe(p)'  BY DEF Safe, Live
  <2>2. TwinSafe(p)  BY DEF PathInv
  <2>3. \A x \in Paths : \A d \in Procs : Takes(d, x)' <=> Takes(d, x)  BY DEF Takes, Owes
  <2>4. \A x \in Paths : Live(x)' <=> Live(x)  BY DEF Live
  <2>5. \A x \in Paths : Twins(p, x) => \A t \in Rescanners :
          (scan[t] # Nil /\ Pg /\ scan[t].at = "load" /\ scan[t].rows[x] # Nil /\ ~scan[t].rows[x].gone)'
            => Safe(p)'
    BY <2>1, <2>2 DEF TwinSafe, InScan, Live, Pg
  <2> QED BY <2>1, <2>2, <2>3, <2>4, <2>5 DEF TwinSafe, Twins
<1>4. Shows(p) \/ \E t \in Rescanners : Mends(t, p)  BY <1>1 DEF PathInv
<1> QED BY <1>1, <1>2, <1>3, <1>4 DEF PathInv

\* A rescan begins: it forgets what the paths were blamed for, unless another one is
\* under way.
LEMMA RescanStartIndex ==
  ASSUME XInv, NEW s \in Rescanners, RescanStart(s)
  PROVE  CallInv' /\ \A x \in Paths : PathInv(x)'
<1> USE DEF XInv, IInv
<1> DEFINE k == [at |-> "graph", rows |-> NoNotes, left |-> Paths]
<1>1. scan[s] = Nil /\ scan' = [scan EXCEPT ![s] = k] /\ cache' = [y \in Keys |-> Nil]
      /\ UNCHANGED <<backend, store, graph, fts, job>>
  BY DEF RescanStart
<1>2. k \in Rescan /\ k.at = "graph" /\ k.left = Paths  BY NoNotesType DEF Rescan
<1> HIDE DEF k
<1>3. scan'[s] = k /\ k # Nil /\ \A t \in Rescanners \ {s} : scan'[t] = scan[t]
  BY <1>1, <1>2, SharedAssumption DEF TypeOK
<1>4. CallInv'  BY <1>1, <1>2, <1>3, CallRescan DEF CallInv
<1>5. ASSUME NEW x \in Paths, Clean(x)'  PROVE PathInv(x)'
  <2> DEFINE new == {why \in {"race", "case"} :
                       IF why = "race" THEN \E c \in Procs : PendingOn(c, x)
                       ELSE (\E c \in Procs : PendingTwin(c, x)) \/ Twin(x, {y \in Paths : Live(y)})}
  <2>1. blame'[x] = new \cup (IF Rescanning THEN blame[x] ELSE {})  BY DEF RescanStart
  <2>2. "race" \notin new
    <3> HIDE DEF new
    <3>1. blame'[x] \subseteq {"case"}  BY <1>5 DEF Clean
    <3> QED BY <2>1, <3>1
  <2>3. \A d \in Procs : ~Owes(d, x) /\ ~Owes(d, x)'
    <3>1. \A d \in Procs : ~PendingOn(d, x)  BY <2>2
    <3> QED BY <1>1, <3>1, OwesPending DEF Owes
  <2>4. ASSUME NEW y \in Paths, Twins(x, y), Live(y) \/ \E d \in Procs : Owes(d, y)
        PROVE  "case" \in blame'[x]
    <3>1. Live(y) => Twin(x, {z \in Paths : Live(z)})  BY <2>4 DEF Twin, Twins
    <3>2. (\E d \in Procs : Owes(d, y)) => \E d \in Procs : PendingTwin(d, x)  BY <2>4, OwesPending
    <3>3. "case" \in new  BY <2>4, <3>1, <3>2
    <3> QED BY <2>1, <3>3
  <2>5. Rescanning => Clean(x) /\ blame[x] \subseteq blame'[x]  BY <1>5, <2>1 DEF Clean
  <2> HIDE DEF new
  <2>6. ASSUME NEW t \in Rescanners, InScan(t, "load")'
        PROVE  t # s /\ InScan(t, "load") /\ scan'[t] = scan[t] /\ Rescanning
    BY <1>2, <1>3, <2>6 DEF InScan, Rescanning
  <2>7. \A t \in Rescanners : (Pg /\ InScan(t, "load"))' => scan'[t].rows[x] = store'[x]
    BY <1>1, <2>5, <2>6 DEF PathInv, Pg
  <2>8. TwinSafe(x)'
    <3>1. \A y \in Paths : Twins(x, y) => \A d \in Procs : Takes(d, y)' => Safe(x)'
      BY <1>1, <2>4 DEF Takes, Owes, Safe
    <3>2. \A y \in Paths : Twins(x, y) /\ Live(y)' => Safe(x)'
      BY <1>1, <2>4 DEF Live, Safe
    <3>3. ASSUME NEW y \in Paths, Twins(x, y), NEW t \in Rescanners,
                 (scan[t] # Nil /\ Pg /\ scan[t].at = "load" /\ scan[t].rows[y] # Nil /\ ~scan[t].rows[y].gone)'
          PROVE  Safe(x)'
      <4>1. InScan(t, "load") /\ scan'[t] = scan[t] /\ Rescanning  BY <2>6, <3>3 DEF InScan
      <4>2. TwinSafe(x)  BY <2>5, <4>1 DEF PathInv
      <4>3. Safe(x)  BY <1>1, <3>3, <4>1, <4>2 DEF TwinSafe, InScan, Pg
      <4> QED BY <1>1, <2>5, <4>1, <4>3 DEF Safe, Live
    <3> QED BY <3>1, <3>2, <3>3 DEF TwinSafe, Twins
  <2>9. Mends(s, x)'
    <3>1. Cached(x)' = Nil
      <4>1. KeyOf[x] \in Keys  BY DEF Keys
      <4> QED BY <1>1, <4>1 DEF Cached
    <3> QED BY <1>2, <1>3, <3>1 DEF Mends
  <2> QED BY <2>3, <2>7, <2>8, <2>9 DEF PathInv
<1> QED BY <1>4, <1>5 DEF PathInv

\* A rescan empties the graph, then the full-text index, and then asks the store.
LEMMA RescanEmptyIndex ==
  ASSUME XInv, NEW s \in Rescanners, RescanGraph(s) \/ RescanFts(s) \/ RescanRead(s)
  PROVE  CallInv' /\ \A x \in Paths : PathInv(x)'
<1> USE DEF XInv, IInv
<1> DEFINE w == IF Pg THEN store ELSE NoNotes
           next(at) == IF at = "graph" THEN "fts" ELSE IF at = "fts" THEN "read" ELSE "load"
           at == scan[s].at
           k == IF at = "read" THEN [scan[s] EXCEPT !.at = "load", !.rows = w]
                               ELSE [scan[s] EXCEPT !.at = next(at)]
<1>1. /\ InScan(s, at) /\ at \in {"graph", "fts", "read"}
      /\ scan' = [scan EXCEPT ![s] = k]
      /\ graph' = IF at = "graph" THEN NoNotes ELSE graph
      /\ fts' = IF at = "fts" THEN NoNotes ELSE fts
      /\ UNCHANGED <<backend, store, cache, job, blame>>
  <2>1. CASE RescanGraph(s)  BY <2>1 DEF RescanGraph, InScan
  <2>2. CASE RescanFts(s)  BY <2>2 DEF RescanFts, InScan
  <2>3. CASE RescanRead(s)  BY <2>3 DEF RescanRead, InScan, index
  <2> QED BY <2>1, <2>2, <2>3
<1>2. w \in [Paths -> Row \cup {Nil}]  BY NoNotesType DEF TypeOK
<1>3. scan[s].left = Paths  BY <1>1 DEF CallInv, InScan
<1>4. /\ k \in Rescan /\ k.left = Paths /\ k.at = next(at)
      /\ k.at = "load" => k.rows = w
  <2>1. scan[s] \in Rescan  BY <1>1 DEF InScan, TypeOK
  <2> HIDE DEF w
  <2> QED BY <1>1, <1>2, <1>3, <2>1 DEF Rescan
<1> HIDE DEF k
<1>5. scan'[s] = k /\ k # Nil /\ \A t \in Rescanners \ {s} : scan'[t] = scan[t]
  BY <1>1, <1>4, SharedAssumption DEF TypeOK
<1>6. CallInv'  BY <1>1, <1>3, <1>4, <1>5, CallRescan DEF CallInv
<1>7. Rescanning  BY <1>1 DEF Rescanning, InScan
<1>8. ASSUME NEW x \in Paths PROVE PathInv(x)'
  <2>1. (Etag(x))' = Etag(x) /\ (Body(x))' = Body(x) /\ Cached(x)' = Cached(x)
        /\ (CacheOK(x)' <=> CacheOK(x))
    BY <1>1 DEF Etag, Body, Live, Cached, CacheOK
  <2>2. /\ graph'[x] = IF at = "graph" THEN Nil ELSE graph[x]
        /\ fts'[x] = IF at = "fts" THEN Nil ELSE fts[x]
    BY <1>1 DEF NoNotes
  <2>3. Shows(x) => Mends(s, x)'
    BY <1>1, <1>4, <1>5, <2>1, <2>2 DEF Shows, CacheOK, Mends
  <2>4. ASSUME NEW t \in Rescanners, Mends(t, x) PROVE Mends(t, x)'
    <3>1. CASE t # s  BY <1>1, <1>5, <2>1, <2>2, <2>4, <3>1 DEF Mends
    <3>2. CASE t = s  BY <1>1, <1>4, <1>5, <2>1, <2>2, <2>4, <3>2 DEF Mends
    <3> QED BY <3>1, <3>2
  <2>5. \A t \in Rescanners : Pg /\ InScan(t, "load")' =>
          \/ InScan(t, "load") /\ scan'[t].rows = scan[t].rows
          \/ scan[t] # Nil /\ scan'[t].rows = store
    BY <1>1, <1>4, <1>5 DEF InScan
  <2>6. \A t \in Rescanners : scan'[t] # Nil => scan[t] # Nil  BY <1>1, <1>5 DEF InScan
  <2>7. Clean(x)' <=> Clean(x)  BY <1>1 DEF Clean
  <2> QED BY <1>1, <1>7, <2>3, <2>4, <2>5, <2>6, <2>7, RescanFrame
<1> QED BY <1>6, <1>8

\* A rescan goes on to the next note, or ends.
LEMMA RescanOn ==
  ASSUME XInv, NEW s \in Rescanners, scan[s] # Nil, UNCHANGED <<backend, store, job>>,
         \A t \in Rescanners \ {s} : scan'[t] = scan[t],
         scan'[s] # Nil => scan[s].at = "load" /\ scan'[s].at = "load" /\ scan'[s].rows = scan[s].rows
  PROVE  /\ CallInv'
         /\ \A x \in Paths :
              /\ Clean(x)' => Clean(x) /\ blame[x] \subseteq blame'[x]
              /\ Clean(x)' /\ (Shows(x) \/ \E t \in Rescanners : Mends(t, x))
                   => Shows(x)' \/ \E t \in Rescanners : Mends(t, x)'
              => PathInv(x)'
<1>1. CallInv'  BY CallRescan DEF CallInv, XInv
<1>2. Rescanning  BY DEF Rescanning
<1>3. \A t \in Rescanners : Pg /\ InScan(t, "load")' => InScan(t, "load") /\ scan'[t].rows = scan[t].rows
  BY DEF InScan
<1>4. \A t \in Rescanners : scan'[t] # Nil => scan[t] # Nil  OBVIOUS
<1>5. ASSUME NEW x \in Paths,
             Clean(x)' => Clean(x) /\ blame[x] \subseteq blame'[x],
             Clean(x)' /\ (Shows(x) \/ \E t \in Rescanners : Mends(t, x))
               => Shows(x)' \/ \E t \in Rescanners : Mends(t, x)'
      PROVE  PathInv(x)'
  BY <1>2, <1>3, <1>4, <1>5, RescanFrame DEF XInv
<1> QED BY <1>1, <1>5

\* A rescan fails: the paths that it has not loaded are blamed.
LEMMA RescanFailIndex ==
  ASSUME XInv, NEW s \in Rescanners, RescanFail(s)
  PROVE  CallInv' /\ \A x \in Paths : PathInv(x)'
<1> USE DEF XInv, IInv
<1>1. /\ scan[s] # Nil /\ scan'[s] = Nil /\ \A t \in Rescanners \ {s} : scan'[t] = scan[t]
      /\ UNCHANGED <<backend, store, job, cache, graph, fts>>
      /\ \A x \in Paths : blame'[x] = blame[x] \cup IF x \in scan[s].left THEN {"unread"} ELSE {}
  BY DEF RescanFail, InScan, TypeOK, index
<1>2. ASSUME NEW x \in Paths, Clean(x)'
      PROVE  /\ Clean(x) /\ blame[x] \subseteq blame'[x]
             /\ Shows(x) => Shows(x)'
             /\ \A t \in Rescanners : Mends(t, x) => Mends(t, x)'
  <2>1. x \notin scan[s].left /\ blame'[x] = blame[x]  BY <1>1, <1>2 DEF Clean
  <2>2. (Etag(x))' = Etag(x) /\ (Body(x))' = Body(x) /\ Cached(x)' = Cached(x)
    BY <1>1 DEF Etag, Body, Live, Cached
  <2>3. Shows(x) => Shows(x)'  BY <1>1, <2>1, <2>2 DEF Shows, CacheOK
  <2>4. \A t \in Rescanners : Mends(t, x) => Mends(t, x)'  BY <1>1, <2>1, <2>2 DEF Mends
  <2> QED BY <1>2, <2>1, <2>3, <2>4 DEF Clean
<1> QED BY <1>1, <1>2, RescanOn

\* S3 skips an object: its path is blamed.
LEMMA RescanSkipIndex ==
  ASSUME XInv, NEW s \in Rescanners, NEW p \in Paths, RescanSkip(s, p)
  PROVE  CallInv' /\ \A x \in Paths : PathInv(x)'
<1> USE DEF XInv, IInv
<1>1. /\ InScan(s, "load") /\ Loaded(s, p) /\ UNCHANGED <<backend, store, job, cache, graph, fts>>
      /\ blame' = [blame EXCEPT ![p] = @ \cup {"unread"}]
  BY DEF RescanSkip, index
<1>2. /\ \A t \in Rescanners \ {s} : scan'[t] = scan[t]
      /\ scan'[s] = Nil => scan[s].left = {p}
      /\ scan'[s] # Nil => /\ scan'[s].left = scan[s].left \ {p} /\ scan'[s].rows = scan[s].rows
                           /\ scan'[s].at = "load"
  BY <1>1, LoadedType
<1>3. scan[s] # Nil /\ scan[s].at = "load"  BY <1>1 DEF InScan
<1>4. ASSUME NEW x \in Paths, Clean(x)'
      PROVE  /\ Clean(x) /\ blame[x] \subseteq blame'[x]
             /\ Shows(x) => Shows(x)'
             /\ \A t \in Rescanners : Mends(t, x) => Mends(t, x)'
  <2>1. x # p /\ blame'[x] = blame[x]  BY <1>1, <1>4 DEF Clean, TypeOK
  <2>2. (Etag(x))' = Etag(x) /\ (Body(x))' = Body(x) /\ Cached(x)' = Cached(x)
    BY <1>1 DEF Etag, Body, Live, Cached
  <2>3. Shows(x) => Shows(x)'  BY <1>1, <2>1, <2>2 DEF Shows, CacheOK
  <2>4. ASSUME NEW t \in Rescanners, Mends(t, x) PROVE Mends(t, x)'
    <3>1. CASE t # s  BY <1>1, <1>2, <2>1, <2>2, <2>4, <3>1 DEF Mends
    <3>2. CASE t = s  BY <1>1, <1>2, <1>3, <2>1, <2>2, <2>4, <3>2 DEF Mends
    <3> QED BY <3>1, <3>2
  <2> QED BY <1>4, <2>1, <2>3, <2>4 DEF Clean
<1> QED BY <1>1, <1>2, <1>3, <1>4, RescanOn

\* A rescan loads a note: what it read is what the store has, if its path is not blamed.
LEMMA RescanLoadIndex ==
  ASSUME XInv, NEW s \in Rescanners, NEW p \in Paths, RescanLoad(s, p)
  PROVE  CallInv' /\ \A x \in Paths : PathInv(x)'
<1> USE DEF XInv, IInv
<1> DEFINE r == IF Pg THEN scan[s].rows[p] ELSE store[p]
           there == r # Nil /\ ~r.gone
<1>1. /\ InScan(s, "load") /\ p \in scan[s].left /\ Loaded(s, p) /\ UNCHANGED <<backend, store, job, blame>>
      /\ cache' = IF there THEN [cache EXCEPT ![KeyOf[p]] = Entry(p, r)] ELSE cache
      /\ graph' = IF there THEN [graph EXCEPT ![p] = r.body] ELSE graph
      /\ fts' = IF there THEN [fts EXCEPT ![p] = r.body] ELSE fts
  BY DEF RescanLoad
<1>2. /\ \A t \in Rescanners \ {s} : scan'[t] = scan[t]
      /\ scan'[s] = Nil => scan[s].left = {p}
      /\ scan'[s] # Nil => /\ scan'[s].left = scan[s].left \ {p} /\ scan'[s].rows = scan[s].rows
                           /\ scan'[s].at = "load"
  BY <1>1, LoadedType
<1>3. scan[s] # Nil /\ scan[s].at = "load"  BY <1>1 DEF InScan
<1>4. r \in Rows
  <2>1. scan[s].rows \in [Paths -> Row \cup {Nil}]  BY <1>1, ScanType, NoNotesType
  <2> QED BY <2>1 DEF TypeOK, Rows
<1>5. Clean(p) => r = store[p]  BY <1>1 DEF PathInv
<1>6. \A x \in Paths : there /\ Twins(x, p) /\ Clean(x) => Safe(x)
  BY <1>3 DEF PathInv, TwinSafe, Live
<1> HIDE DEF r
<1>7. there => /\ Entry(p, r) # Nil /\ Entry(p, r).path = p /\ Entry(p, r).etag = r.etag
  BY <1>4, EntryType
<1>8. \A x \in Paths : KeyOf[x] \in Keys  BY DEF Keys
<1>9. ASSUME NEW x \in Paths, Clean(x)', Shows(x) \/ \E t \in Rescanners : Mends(t, x)
      PROVE  Shows(x)' \/ \E t \in Rescanners : Mends(t, x)'
  <2>0. Clean(x) /\ blame'[x] = blame[x]  BY <1>1, <1>9 DEF Clean
  <2>1. (Etag(x))' = Etag(x) /\ (Body(x))' = Body(x)  BY <1>1 DEF Etag, Body, Live
  <2>2. CASE x = p
    <3>1. there <=> Live(p)  BY <1>5, <2>0, <2>2 DEF Live
    <3>2. CASE there
      <4>1. Cached(p)' = r.etag  BY <1>1, <1>7, <1>8, <3>2 DEF Cached, TypeOK
      <4>2. graph'[p] = r.body /\ fts'[p] = r.body  BY <1>1, <3>2 DEF TypeOK
      <4>3. Etag(p) = r.etag /\ Body(p) = r.body  BY <1>5, <2>0, <2>2, <3>1, <3>2 DEF Etag, Body
      <4> QED BY <2>1, <2>2, <4>1, <4>2, <4>3 DEF Shows, CacheOK
    <3>3. CASE ~there
      <4>1. Etag(p) = Nil /\ Body(p) = Nil  BY <3>1, <3>3 DEF Etag, Body
      <4>2. Cached(p)' = Cached(p) /\ graph'[p] = graph[p] /\ fts'[p] = fts[p]
        BY <1>1, <3>3 DEF Cached
      <4>3. Shows(p) \/ Mends(s, p) => Shows(p)'
        BY <1>3, <2>0, <2>1, <2>2, <4>1, <4>2 DEF Shows, CacheOK, Mends
      <4>4. \A t \in Rescanners \ {s} : Mends(t, p) => Mends(t, p)'
        BY <1>2, <2>0, <2>1, <2>2, <4>2 DEF Mends
      <4> QED BY <1>9, <2>2, <4>3, <4>4
    <3> QED BY <3>2, <3>3
  <2>3. CASE x # p
    <3>1. graph'[x] = graph[x] /\ fts'[x] = fts[x]  BY <1>1, <2>3 DEF TypeOK
    <3>2. Cached(x)' = Cached(x) \/ (Cached(x)' = Nil /\ Safe(x))
      <4>1. CASE there /\ KeyOf[x] = KeyOf[p]
        <5>1. Cached(x)' = Nil  BY <1>1, <1>7, <1>8, <2>3, <4>1 DEF Cached, TypeOK
        <5>2. Safe(x)  BY <1>6, <2>0, <2>3, <4>1 DEF Twins
        <5> QED BY <5>1, <5>2
      <4>2. CASE ~there  BY <1>1, <4>2 DEF Cached
      <4>3. CASE KeyOf[x] # KeyOf[p]  BY <1>1, <1>8, <4>3 DEF Cached, TypeOK
      <4> QED BY <4>1, <4>2, <4>3
    <3>3. Safe(x) /\ Cached(x)' = Nil => CacheOK(x)'  BY <2>0, <2>1 DEF Safe, CacheOK, Etag
    <3>4. Shows(x) => Shows(x)'  BY <2>0, <2>1, <3>1, <3>2, <3>3 DEF Shows, CacheOK
    <3>5. ASSUME NEW t \in Rescanners, Mends(t, x) PROVE Mends(t, x)'
      <4>1. scan'[t] # Nil /\ x \in scan'[t].left /\ scan'[t].at = scan[t].at
        <5>1. CASE t # s  BY <1>2, <3>5, <5>1 DEF Mends
        <5>2. CASE t = s  BY <1>2, <1>3, <2>3, <3>5, <5>2 DEF Mends
        <5> QED BY <5>1, <5>2
      <4> QED BY <2>0, <2>1, <3>1, <3>2, <3>5, <4>1 DEF Mends
    <3> QED BY <1>9, <3>4, <3>5
  <2> QED BY <2>2, <2>3
<1>10. \A x \in Paths : Clean(x)' => Clean(x) /\ blame[x] \subseteq blame'[x]  BY <1>1 DEF Clean
<1> QED BY <1>1, <1>2, <1>3, <1>9, <1>10, RescanOn

\* A rescan.
LEMMA RescanIndex ==
  ASSUME XInv, NEW s \in Rescanners, Rescans(s)
  PROVE  CallInv' /\ \A x \in Paths : PathInv(x)'
BY RescanStartIndex, RescanEmptyIndex, RescanFailIndex, RescanSkipIndex, RescanLoadIndex DEF Rescans

\* A write of another process.
LEMMA ForeignIndex ==
  ASSUME XInv, NEW p \in Paths, Foreign(p)
  PROVE  CallInv' /\ \A x \in Paths : PathInv(x)'
<1> USE DEF XInv, IInv
<1>1. PICK r \in ForeignRows(p, calls + 1) : store' = [store EXCEPT ![p] = r]
  BY DEF Foreign
<1>2. UNCHANGED <<backend, cache, graph, fts, scan, job>>  BY DEF Foreign, index, rescanning
<1>3. \A x \in Paths \ {p} : store'[x] = store[x]  BY <1>1 DEF TypeOK
<1>4. blame' = [x \in Paths |->
         IF x = p THEN blame[x] \cup {"foreign"}
         ELSE IF Rescanning /\ Twin(x, {p}) /\ Live(x) THEN blame[x] \cup {"case"} ELSE blame[x]]
  BY DEF Foreign
<1>5. CallInv'
  <2>1. calls + 1 \in Tags
    <3>1. calls \in 0..MaxCalls /\ calls < MaxCalls  BY DEF Foreign, TypeOK
    <3> QED BY <3>1, SharedAssumption DEF Tags
  <2>2. ~Pg => r = Nil \/ r.gone = FALSE
    <3> SUFFICES ASSUME ~Pg, r # Nil PROVE r.gone = FALSE
      OBVIOUS
    <3>1. CASE r = NewRow(Nil, "create", calls + 1)  BY <3>1 DEF NewRow
    <3>2. ASSUME store[p] # Nil, NEW op \in {"update", "patch"}, r = NewRow(store[p], op, calls + 1)
          PROVE  r.gone = FALSE
      <4>1. store[p] \in Row /\ store[p].gone = FALSE  BY <3>2 DEF TypeOK, CallInv
      <4>2. CASE op = "update"  BY <3>2, <4>1, <4>2 DEF NewRow, Row
      <4>3. CASE op = "patch"  BY <3>2, <4>1, <4>3 DEF NewRow, Row
      <4> QED BY <3>2, <4>2, <4>3
    <3> QED BY <3>1, <3>2 DEF ForeignRows
  <2>3. ~Pg => \A x \in Paths : store'[x] # Nil => store'[x].gone = FALSE
    BY <1>1, <1>3, <2>2 DEF CallInv, TypeOK
  <2> QED BY <1>2, <2>3 DEF CallInv, CallOK, Pg
<1>6. ASSUME NEW x \in Paths PROVE PathInv(x)'
  <2>1. CASE x = p  BY <1>4, <2>1 DEF PathInv, Clean, TypeOK
  <2>2. CASE x # p
    <3>1. blame'[x] = IF Rescanning /\ Twin(x, {p}) /\ Live(x) THEN blame[x] \cup {"case"} ELSE blame[x]
      BY <1>4, <2>2
    <3>2. (Clean(x)' => Clean(x)) /\ blame[x] \subseteq blame'[x]  BY <3>1 DEF Clean
    <3>3. Live(x)' <=> Live(x)  BY <1>3, <2>2 DEF Live
    <3>4. Clean(x)' => TwinSafe(x)'
      <4> SUFFICES ASSUME Clean(x)' PROVE TwinSafe(x)'
        OBVIOUS
      <4>1. TwinSafe(x) /\ (Safe(x) => Safe(x)')  BY <3>2, <3>3 DEF PathInv, Safe
      <4>2. Twins(x, p) /\ Rescanning => Safe(x)'  BY <3>1, <3>3 DEF Safe, Twin, Twins
      <4>3. \A y \in Paths : \A d \in Procs : Takes(d, y)' <=> Takes(d, y)  BY <1>2 DEF Takes, Owes
      <4>4. \A y \in Paths \ {p} : Live(y)' <=> Live(y)  BY <1>3 DEF Live
      <4>5. \A s \in Rescanners : scan[s] # Nil => Rescanning  BY DEF Rescanning
      <4>6. ASSUME NEW y \in Paths, Twins(x, y)
            PROVE  /\ \A d \in Procs : Takes(d, y)' /\ x \notin {job'[d].path, job'[d].to} => Safe(x)'
                   /\ \A s \in Rescanners : scan'[s] # Nil =>
                        /\ Live(y)' => Safe(x)'
                        /\ Pg' /\ scan'[s].at = "load" /\ scan'[s].rows[y] # Nil /\ ~scan'[s].rows[y].gone
                             => Safe(x)'
        BY <1>2, <4>1, <4>2, <4>3, <4>4, <4>5, <4>6 DEF TwinSafe, Pg
      <4> QED BY <4>6 DEF TwinSafe, Twins
    <3>5. Cached(x)' = Cached(x)  BY <1>2 DEF Cached
    <3>6. \A d \in Procs : (Owes(d, x)' <=> Owes(d, x)) /\ job'[d] = job[d]  BY <1>2 DEF Owes
    <3> QED BY <1>2, <1>3, <2>2, <3>2, <3>4, <3>5, <3>6, PathFrame
  <2> QED BY <2>1, <2>2
<1> QED BY <1>5, <1>6

\* The requests of S3 that change the store.
LEMMA S3PutIndex ==
  ASSUME XInv, NEW c \in Procs, S3Put(c)
  PROVE  CallInv' /\ \A x \in Paths : PathInv(x)'
<1> USE DEF XInv, IInv
<1> DEFINE p == job[c].path
           q == job[c].to
           op == job[c].op
           r == NewRow(job[c].row, op, job[c].tag)
           at == IF op = "move" THEN "dropOld" ELSE "cache"
           k == [job[c] EXCEPT !.row = r, !.at = at]
<1>1. /\ ~Pg /\ At(c, "put") /\ op \in {"create", "move"} /\ Stored(c, {q})
      /\ store' = [store EXCEPT ![q] = r] /\ job' = [job EXCEPT ![c] = k]
      /\ UNCHANGED <<backend, cache, graph, fts, scan>>
  BY DEF S3Put, index, rescanning
<1>2. job[c] \in Job /\ p \in Paths /\ q \in Paths /\ job[c].tag \in Tags /\ job[c].row \in Rows
  BY <1>1, HasJob
<1>3. CallOK(c)  BY DEF CallInv
<1>4. r \in Row /\ r.gone = FALSE
  <2>1. CASE op = "create"  BY <1>2, <2>1 DEF NewRow, Row
  <2>2. CASE op = "move"
    <3>1. job[c].row # Nil /\ job[c].row.gone = FALSE  BY <1>1, <1>3, <2>2 DEF CallOK, At
    <3>2. r = job[c].row  BY <2>2 DEF NewRow
    <3> QED BY <1>2, <3>1, <3>2 DEF Rows
  <2> QED BY <1>1, <2>1, <2>2
<1>5. k \in Job /\ k.at = at /\ k.op = op /\ k.path = p /\ k.to = q /\ k.row = r
  <2>1. k \in Job  BY <1>2, <1>4, JobType DEF Rows
  <2> QED BY <1>2, <2>1 DEF Job
<1> HIDE DEF k, r
<1>6. /\ job'[c] = k /\ k # Nil /\ \A d \in Procs \ {c} : job'[d] = job[d]
      /\ store'[q] = r /\ \A x \in Paths \ {q} : store'[x] = store[x]
  BY <1>1, <1>2, <1>5, SharedAssumption DEF TypeOK
<1>7. CallInv'
  <2>1. CallOK(c)'  BY <1>1, <1>3, <1>5, <1>6 DEF CallOK, At, Deletes
  <2>2. \A x \in Paths : store'[x] # Nil => store'[x].gone = FALSE
    BY <1>1, <1>4, <1>6 DEF CallInv
  <2> QED BY <1>1, <1>6, <2>1, <2>2 DEF CallInv, CallOK
<1>8. \A x \in Paths : ~Owes(c, x) /\ (Owes(c, x)' <=> x = q)
  BY <1>1, <1>3, <1>5, <1>6 DEF Owes, At, CallOK
<1>9. ASSUME NEW x \in Paths PROVE PathInv(x)'
  <2>0. Clean(x)' => TwinSafe(x)'
    <3>1. \A y \in Paths : Takes(c, y)' => y \in {q}  BY <1>8 DEF Takes
    <3>2. \A y \in Paths \ {q} : store'[y] = store[y]  BY <1>6
    <3>3. job'[c].path = job[c].path /\ job'[c].to = job[c].to  BY <1>5, <1>6
    <3> QED BY <1>1, <1>6, <3>1, <3>2, <3>3, TwinStored
  <2>1. CASE x = q
    <3>1. Due(c, x)'
      BY <1>1, <1>4, <1>5, <1>6, <2>1, SharedAssumption DEF Due, Live
    <3> QED BY <1>1, <1>6, <1>8, <2>0, <2>1, <3>1, PathStored
  <2>2. CASE x # q
    <3>1. \A d \in Procs : Owes(d, x)' <=> Owes(d, x)  BY <1>6, <1>8, <2>2 DEF Owes
    <3>2. (Clean(x)' => Clean(x)) /\ blame[x] \subseteq blame'[x]  BY <1>1, <2>2 DEF Stored, Clean
    <3>3. Cached(x)' = Cached(x)  BY <1>1 DEF Cached
    <3> QED BY <1>1, <1>6, <1>8, <2>0, <2>2, <3>1, <3>2, <3>3, PathFrame
  <2> QED BY <2>1, <2>2
<1> QED BY <1>7, <1>9

\* The old object of a move, or the one to be deleted.
LEMMA S3DropIndex ==
  ASSUME XInv, NEW c \in Procs, S3Drop(c)
  PROVE  CallInv' /\ \A x \in Paths : PathInv(x)'
<1> USE DEF XInv, IInv
<1> DEFINE p == job[c].path
           q == job[c].to
           op == job[c].op
           k == [job[c] EXCEPT !.at = "cache"]
           Deleted == job' = [job EXCEPT ![c] = k] /\ store' = [store EXCEPT ![p] = Nil] /\ Stored(c, {p})
           Kept == /\ op = "move" /\ job' = [job EXCEPT ![c] = k] /\ store' = store
                   /\ blame' = [x \in Paths |->
                        IF x = p THEN blame[x] \cup {"kept"}
                        ELSE IF Twin(x, {p}) /\ Live(x) /\ x # job[c].to THEN blame[x] \cup {"case"}
                        ELSE blame[x]]
           Failed == op # "move" /\ job' = [job EXCEPT ![c] = Nil] /\ store' = store /\ blame' = blame
<1>1. /\ ~Pg /\ At(c, "dropOld") /\ (Deleted \/ Kept \/ Failed)
      /\ UNCHANGED <<backend, cache, graph, fts, scan>>
  BY DEF S3Drop, Return, Goto, index, rescanning
<1>2. job[c] \in Job /\ p \in Paths /\ q \in Paths  BY <1>1, HasJob
<1>3. CallOK(c)  BY DEF CallInv
<1>4. /\ op \in Deletes \cup {"move"} /\ (op = "move" <=> p # q)
      /\ op \in Deletes => job[c].row = Nil
  BY <1>1, <1>3 DEF CallOK, At
<1>5. k \in Job /\ k.at = "cache" /\ k.op = op /\ k.path = p /\ k.to = q /\ k.row = job[c].row
  BY <1>2 DEF Job
<1> HIDE DEF k
<1>6. k # Nil  BY <1>5, SharedAssumption
<1>7. /\ \A d \in Procs \ {c} : job'[d] = job[d]
      /\ job'[c] = IF Failed THEN Nil ELSE k
  BY <1>1 DEF TypeOK
<1>8. \A x \in Paths : store'[x] = store[x] \/ (Deleted /\ x = p /\ store'[x] = Nil)
  BY <1>1, <1>2 DEF TypeOK
<1>9. CallInv'
  <2>1. CallOK(c)'  BY <1>3, <1>4, <1>5, <1>7 DEF CallOK, Deletes
  <2>2. \A x \in Paths : store'[x] # Nil => store'[x].gone = FALSE  BY <1>1, <1>8 DEF CallInv
  <2> QED BY <1>1, <1>7, <2>1, <2>2 DEF CallInv, CallOK
<1>10. \A x \in Paths : \A d \in Procs \ {c} : Owes(d, x)' <=> Owes(d, x)  BY <1>7 DEF Owes
<1>11. \A x \in Paths : Owes(c, x) <=> op = "move" /\ x = q  BY <1>1 DEF Owes, At
<1>12. ~Failed => \A x \in Paths : Owes(c, x)' <=> x \in {p, q}  BY <1>5, <1>6, <1>7 DEF Owes
<1>12a. ASSUME NEW x \in Paths, Takes(c, x)'  PROVE  Takes(c, x) \/ x = p
  <2>1. Owes(c, x)'  BY <1>12a DEF Takes
  <2>2. ~Failed  BY <1>7, <2>1 DEF Owes
  <2>3. x \in {p, q}  BY <1>12, <2>1, <2>2
  <2>4. x = q /\ q # p => Owes(c, x)  BY <1>4, <1>11
  <2>5. job[c].at # "doc"  BY <1>1 DEF At
  <2> QED BY <2>3, <2>4, <2>5 DEF Takes
<1>13. ASSUME NEW x \in Paths PROVE PathInv(x)'
  <2>0. Cached(x)' = Cached(x)  BY <1>1 DEF Cached
  <2>1. CASE Failed
    <3>1. ~Owes(c, x) /\ ~Owes(c, x)'  BY <1>7, <1>11, <2>1 DEF Owes
    <3>2. \A d \in Procs : \A y \in Paths : Takes(d, y)' => Takes(d, y) /\ job'[d] = job[d]
      BY <1>7, <2>1 DEF Takes, Owes
    <3>3. (Clean(x)' <=> Clean(x)) /\ (Clean(x) => TwinSafe(x)')
      BY <1>1, <2>1, <3>2, TwinFrame DEF PathInv, Clean
    <3> QED BY <1>1, <1>7, <1>10, <2>0, <2>1, <3>1, <3>3, PathFrame
  <2>2. CASE Deleted /\ x = p
    <3>1. store'[x] = Nil  BY <1>2, <2>2 DEF TypeOK
    <3>0. job'[c] = k /\ k # Nil  BY <1>2, <1>6, <2>2 DEF TypeOK
    <3>1a. ~Live(x)'  BY <2>2, <3>1 DEF Live
    <3>1b. x = q => job[c].row = Nil /\ op # "patch"  BY <1>4, <2>2 DEF Deletes
    <3>1c. /\ job'[c].at = "cache" /\ job'[c].to = q
           /\ job'[c].row = job[c].row /\ job'[c].op = op
      BY <1>5, <3>0
    <3>2. Due(c, x)'  BY <3>1a, <3>1b, <3>1c DEF Due
    <3>2a. Owes(c, x)'  BY <1>5, <2>2, <3>0 DEF Owes
    <3>3. Clean(x)' => TwinSafe(x)'
      <4>1. \A y \in {p} : ~Live(y)'  BY <2>2, <3>1 DEF Live
      <4>2. \A y \in Paths \ {p} : store'[y] = store[y]  BY <1>8
      <4>3. job'[c].path = job[c].path /\ job'[c].to = job[c].to  BY <1>4, <1>5, <1>7, <2>2
      <4> QED BY <1>1, <1>7, <1>12a, <2>2, <4>1, <4>2, <4>3, TwinStored
    <3>4. Stored(c, {p}) /\ x \in {p}  BY <2>2
    <3> QED BY <1>1, <1>7, <3>2, <3>2a, <3>3, <3>4, PathStored
  <2>3. CASE Kept /\ x = p
    <3>1. "kept" \in blame'[p]  BY <1>2, <2>3
    <3> QED BY <2>3, <3>1 DEF PathInv, Clean
  <2>4. CASE ~Failed /\ x # p
    <3>0. job'[c] = k /\ job'[c].path = p /\ job'[c].to = q  BY <1>5, <1>7, <2>4
    <3>1. blame'[x] = IF Twin(x, {p}) /\ Live(x) /\ x # job[c].to THEN blame[x] \cup {"case"} ELSE blame[x]
      <4>1. CASE Deleted  BY <2>4, <4>1 DEF Stored
      <4>2. CASE Kept  BY <2>4, <4>2
      <4> QED BY <1>1, <2>4, <4>1, <4>2
    <3>1a. (Clean(x)' => Clean(x)) /\ blame[x] \subseteq blame'[x]  BY <3>1 DEF Clean
    <3>2. store'[x] = store[x]  BY <1>8, <2>4
    <3>3. \A d \in Procs : Owes(d, x)' <=> Owes(d, x)
      BY <1>4, <1>10, <1>11, <1>12, <2>4
    <3>4. Owes(c, x) /\ Clean(x) => Due(c, x)'
      <4> SUFFICES ASSUME Owes(c, x), Clean(x) PROVE Due(c, x)'
        OBVIOUS
      <4>1. Due(c, x) /\ x = q /\ op = "move"  BY <1>11 DEF PathInv
      <4>2. job[c].row = IF Live(x) THEN store[x] ELSE Nil  BY <1>1, <4>1 DEF Due, At
      <4> QED BY <1>5, <1>7, <2>4, <3>2, <4>1, <4>2 DEF Due, Live
    <3>5. Clean(x)' => TwinSafe(x)'
      <4> SUFFICES ASSUME Clean(x)' PROVE TwinSafe(x)'
        OBVIOUS
      <4>1. TwinSafe(x) /\ (Safe(x) => Safe(x)')  BY <3>1a, <3>2 DEF PathInv, Safe, Live
      <4>2. Twins(x, p) /\ x # q => Safe(x)'  BY <3>1, <3>2 DEF Safe, Twin, Twins, Live
      <4>3. \A y \in Paths : Live(y)' => Live(y)  BY <1>8 DEF Live
      <4>4. ASSUME NEW y \in Paths, Twins(x, y), NEW d \in Procs, Takes(d, y)',
                   x \notin {job'[d].path, job'[d].to}
            PROVE  Safe(x)'
        <5>1. CASE d # c
          <6>1. Takes(d, y) /\ job'[d] = job[d]  BY <1>7, <4>4, <5>1 DEF Takes, Owes
          <6> QED BY <4>1, <4>4, <6>1 DEF TwinSafe
        <5>2. CASE d = c /\ y = p  BY <3>0, <4>2, <4>4, <5>2
        <5>3. CASE d = c /\ Takes(c, y)  BY <3>0, <4>1, <4>4, <5>3 DEF TwinSafe
        <5> QED BY <1>12a, <4>4, <5>1, <5>2, <5>3
      <4> QED BY <1>1, <4>1, <4>3, <4>4 DEF TwinSafe, Pg, Twins
    <3> QED BY <1>1, <1>7, <2>0, <2>4, <3>1a, <3>2, <3>3, <3>4, <3>5, PathFrame
  <2> QED BY <1>1, <2>1, <2>2, <2>3, <2>4
<1> QED BY <1>9, <1>13

\* What a transaction that commits carries to the index is what it has stored.
LEMMA CommitDue ==
  ASSUME XInv, NEW c \in Procs, PgCommit(c), NEW p, p = job[c].path, NEW q, q = job[c].to,
         NEW op, op = job[c].op
  PROVE  /\ job'[c] \in Job /\ job'[c].at = "cache"
         /\ job'[c].op = op /\ job'[c].path = p /\ job'[c].to = q
         /\ \A d \in Procs \ {c} : job'[d] = job[d]
         /\ op = "move" <=> p # q
         /\ op \in Deletes => job'[c].row = Nil
         /\ \A x \in {p, q} : x # q => store'[x] = Nil
         /\ job'[c].row = IF Live(q)' THEN store'[q] ELSE Nil
         /\ op = "patch" => Live(q)' /\ Live(q) /\ store'[q].body = store[q].body
<1> USE DEF XInv, IInv
<1> DEFINE r == IF op = "move" THEN store[p] ELSE NewRow(job[c].row, op, job[c].tag)
           w == IF op \in Deletes THEN Nil ELSE r
           k == [job[c] EXCEPT !.at = "cache", !.match = NoMatch, !.row = w]
<1>1. /\ Pg /\ At(c, "commit") /\ PgApplies(op, p, q, job[c].row)
      /\ store' = StoreAfter(op, p, q, r) /\ job' = [job EXCEPT ![c] = k]
  BY DEF PgCommit
<1>2. /\ job[c] \in Job /\ p \in Paths /\ q \in Paths /\ op \in Ops
      /\ job[c].row \in Rows /\ job[c].tag \in Tags
  BY <1>1, HasJob
<1>3. /\ op = "move" <=> p # q
      /\ op \in {"update", "patch", "move"} => job[c].row # Nil /\ job[c].row.gone = FALSE
  BY <1>1 DEF CallInv, CallOK, At
<1>4. op \in {"update", "patch", "move"} => store[p] = job[c].row
  BY <1>1, <1>3 DEF HoldInv, Deletes
<1>5. store \in [Paths -> Row \cup {Nil}]  BY DEF TypeOK
<1>6. op \notin Deletes => r \in Row /\ r.gone = FALSE
  <2>1. CASE op = "create"  BY <1>2, <2>1 DEF NewRow, Row
  <2>2. CASE op = "update"  BY <1>2, <1>3, <2>2 DEF NewRow, Row, Rows
  <2>3. CASE op = "patch"   BY <1>2, <1>3, <2>3 DEF NewRow, Row, Rows
  <2>4. CASE op = "move"    BY <1>2, <1>3, <1>4, <2>4 DEF Rows
  <2> QED BY <1>2, <2>1, <2>2, <2>3, <2>4 DEF Ops, Deletes
<1>7. op = "patch" => r.body = store[p].body
  BY <1>2, <1>3, <1>4 DEF NewRow, Row, Rows
<1> HIDE DEF r
<1>8. w \in Rows  BY <1>6 DEF Rows
<1>9. k \in Job  BY <1>2, <1>8, JobType
<1>10. k.at = "cache" /\ k.op = op /\ k.path = p /\ k.to = q /\ k.row = w
  BY <1>2 DEF Job
<1> HIDE DEF k, w
<1>11. job'[c] = k /\ \A d \in Procs \ {c} : job'[d] = job[d]  BY <1>1 DEF TypeOK
<1>12. op \notin Deletes => store'[q] = r /\ (p # q => store'[p] = Nil)
  <2>1. CASE op = "move"  BY <1>1, <1>2, <1>3, <1>5, <2>1 DEF StoreAfter
  <2>2. CASE op \in {"create", "update", "patch"}
    <3>1. store' = [store EXCEPT ![p] = r]  BY <1>1, <2>2 DEF StoreAfter
    <3> QED BY <1>2, <1>3, <1>5, <2>2, <3>1
  <2> QED BY <1>2, <2>1, <2>2 DEF Ops, Deletes
<1>13. op \in Deletes => p = q /\ ~Live(q)'
  <2>1. op \in Deletes => p = q  BY <1>3 DEF Deletes
  <2>2. CASE op = "delete"
    <3>1. store' = [store EXCEPT ![p] = Nil]  BY <1>1, <2>2 DEF StoreAfter
    <3>2. store'[q] = Nil  BY <1>2, <1>5, <2>1, <2>2, <3>1 DEF Deletes
    <3> QED BY <2>1, <3>2 DEF Live
  <2>3. CASE op = "softDelete"
    <3>1. store' = [store EXCEPT ![p] = [store[p] EXCEPT !.gone = TRUE]]
      BY <1>1, <2>3 DEF StoreAfter
    <3>2. store[p] \in Row  BY <1>1, <1>2, <1>5, <2>3 DEF PgApplies, Live
    <3>3. [store[p] EXCEPT !.gone = TRUE].gone = TRUE  BY <3>2 DEF Row
    <3>4. store'[q] = [store[p] EXCEPT !.gone = TRUE]
      BY <1>2, <1>5, <2>1, <2>3, <3>1 DEF Deletes
    <3>5. store'[q].gone = TRUE  BY <3>3, <3>4
    <3> QED BY <2>1, <3>5 DEF Live
  <2> QED BY <2>1, <2>2, <2>3 DEF Deletes
<1>14. w = IF Live(q)' THEN store'[q] ELSE Nil
  <2>1. CASE op \in Deletes  BY <1>13, <2>1 DEF w
  <2>2. CASE op \notin Deletes
    BY <1>6, <1>12, <2>2, SharedAssumption DEF w, Live
  <2> QED BY <2>1, <2>2
<1>15. op = "patch" => Live(q)' /\ Live(q) /\ store'[q].body = store[q].body
  BY <1>3, <1>4, <1>6, <1>7, <1>12, SharedAssumption DEF Live, Deletes
<1>16. op \in Deletes => w = Nil  BY DEF w
<1>17. \A x \in {p, q} : x # q => store'[x] = Nil  BY <1>12, <1>13
<1> QED BY <1>3, <1>9, <1>10, <1>11, <1>14, <1>15, <1>16, <1>17

\* A commit.
LEMMA CommitIndex ==
  ASSUME XInv, NEW c \in Procs, PgCommit(c)
  PROVE  CallInv' /\ \A x \in Paths : PathInv(x)'
<1> USE DEF XInv, IInv
<1>1. PICK p, q, op : p = job[c].path /\ q = job[c].to /\ op = job[c].op  OBVIOUS
<1>2. /\ Pg /\ At(c, "commit") /\ Stored(c, {p, q})
      /\ UNCHANGED <<backend, cache, graph, fts, scan>>
  BY <1>1 DEF PgCommit, index, rescanning
<1>3. p \in Paths /\ q \in Paths  BY <1>1, <1>2, HasJob
<1>4. /\ job'[c] \in Job /\ job'[c].at = "cache"
      /\ job'[c].op = op /\ job'[c].path = p /\ job'[c].to = q
      /\ \A d \in Procs \ {c} : job'[d] = job[d]
      /\ op = "move" <=> p # q
      /\ op \in Deletes => job'[c].row = Nil
      /\ \A x \in {p, q} : x # q => store'[x] = Nil
      /\ job'[c].row = IF Live(q)' THEN store'[q] ELSE Nil
      /\ op = "patch" => Live(q)' /\ Live(q) /\ store'[q].body = store[q].body
  BY <1>1, CommitDue
<1>5. job'[c] # Nil  BY <1>4, SharedAssumption
<1>6. \A x \in Paths \ {p, q} : store'[x] = store[x]  BY <1>1, CommitStore
<1>7. CallInv'
  <2>1. CallOK(c)'  BY <1>4 DEF CallOK
  <2> QED BY <1>2, <1>4, <2>1 DEF CallInv, CallOK, Pg
<1>8. \A x \in Paths : ~Owes(c, x) /\ (Owes(c, x)' <=> x \in {p, q})
  BY <1>2, <1>4, <1>5 DEF Owes, At
<1>9. ASSUME NEW x \in Paths PROVE PathInv(x)'
  <2>0. Clean(x)' => TwinSafe(x)'
    <3>1. \A y \in Paths : Takes(c, y)' => y \in {p, q}  BY <1>8 DEF Takes
    <3>2. job'[c].path = job[c].path /\ job'[c].to = job[c].to  BY <1>1, <1>4
    <3> QED BY <1>1, <1>2, <1>4, <1>6, <3>1, <3>2, TwinStored
  <2>1. CASE x \in {p, q}
    <3>1. ASSUME Clean(x)' PROVE Due(c, x)'
      <4>1. /\ \A d \in Procs \ {c} : ~Owes(d, x)
            /\ op = "patch" => Clean(x) /\ ~Rescanning
        BY <1>1, <1>2, <2>1, <3>1, StoredClean
      <4>2. op = "patch" => Shows(x)  BY <1>8, <4>1 DEF PathInv, Mends, Rescanning
      <4>3. op = "patch" => x = q  BY <1>4, <2>1
      <4>4. op = "patch" => Live(x)' /\ (graph[x] = Body(x))' /\ (fts[x] = Body(x))'
        BY <1>2, <1>4, <4>2, <4>3 DEF Shows, Body
      <4>5. x # q => ~Live(x)'  BY <1>4, <2>1 DEF Live
      <4> QED BY <1>4, <4>4, <4>5 DEF Due
    <3> QED BY <1>2, <1>4, <1>8, <2>0, <2>1, <3>1, PathStored
  <2>2. CASE x \notin {p, q}
    <3>1. \A d \in Procs : Owes(d, x)' <=> Owes(d, x)  BY <1>4, <1>8, <2>2 DEF Owes
    <3>2. (Clean(x)' => Clean(x)) /\ blame[x] \subseteq blame'[x]  BY <1>2, <2>2 DEF Stored, Clean
    <3>3. Cached(x)' = Cached(x)  BY <1>2 DEF Cached
    <3> QED BY <1>2, <1>4, <1>6, <1>8, <2>0, <2>2, <3>1, <3>2, <3>3, PathFrame
  <2> QED BY <2>1, <2>2
<1> QED BY <1>7, <1>9

\* The vault starts with an index of the store.
LEMMA XInvInit == Init => XInv
<1> SUFFICES ASSUME Init PROVE XInv
  OBVIOUS
<1>1. PICK ps \in SUBSET Paths :
        /\ store = [p \in Paths |->
             IF p \in ps THEN [id |-> p, etag |-> p, body |-> p, gone |-> FALSE] ELSE Nil]
        /\ cache \in [Keys -> {[path |-> p, etag |-> p] : p \in ps} \cup {Nil}]
        /\ \A k \in Keys : IF cache[k] = Nil THEN \A p \in ps : KeyOf[p] # k
                           ELSE KeyOf[cache[k].path] = k
        /\ graph = [p \in Paths |-> IF p \in ps THEN p ELSE Nil]
        /\ blame = [p \in Paths |-> IF p \in ps /\ Twin(p, ps) THEN {"case"} ELSE {}]
  BY DEF Init
<1>2. IInv  BY InitInv
<1>3. fts = graph /\ (\A s \in Rescanners : scan[s] = Nil) /\ \A c \in Procs : job[c] = Nil  BY DEF Init
<1>4. ASSUME NEW x \in Paths
      PROVE  /\ store[x] # Nil => store[x].gone = FALSE
             /\ Shows(x)
  <2>0. KeyOf[x] \in Keys  BY DEF Keys
  <2>1. CASE x \in ps
    <3>1. store[x] = [id |-> x, etag |-> x, body |-> x, gone |-> FALSE]
      BY <1>1, <2>1
    <3>2. store[x] \in Row  BY <3>1 DEF Row, Tags
    <3>3. store[x] # Nil  BY <3>2, SharedAssumption
    <3>4. store[x].gone = FALSE /\ store[x].etag = x /\ store[x].body = x  BY <3>1
    <3>5. Live(x)  BY <3>3, <3>4 DEF Live
    <3>6. graph[x] = x /\ fts[x] = x  BY <1>1, <1>3, <2>1
    <3>7. CacheOK(x)
      <4>1. cache[KeyOf[x]] # Nil /\ KeyOf[cache[KeyOf[x]].path] = KeyOf[x]  BY <1>1, <2>0, <2>1
      <4>2. PICK y \in ps : cache[KeyOf[x]] = [path |-> y, etag |-> y]  BY <1>1, <2>0, <4>1
      <4>3. CASE y = x
        <5>1. cache[KeyOf[x]].path = x /\ cache[KeyOf[x]].etag = x  BY <4>2, <4>3
        <5> QED BY <3>4, <3>5, <4>1, <5>1 DEF CacheOK, Cached, Etag
      <4>4. CASE y # x
        <5>1. KeyOf[y] = KeyOf[x]  BY <4>1, <4>2
        <5>2. Twin(x, ps)  BY <4>4, <5>1 DEF Twin
        <5> QED BY <1>1, <2>1, <5>2 DEF CacheOK
      <4> QED BY <4>3, <4>4
    <3> QED BY <3>4, <3>5, <3>6, <3>7 DEF Shows, Body
  <2>2. CASE x \notin ps
    <3>1. store[x] = Nil /\ graph[x] = Nil /\ fts[x] = Nil  BY <1>1, <1>3, <2>2
    <3>2. Cached(x) = Nil
      <4>1. \A y \in ps : [path |-> y, etag |-> y].path = y  OBVIOUS
      <4> QED BY <1>1, <2>0, <2>2, <4>1 DEF Cached
    <3> QED BY <3>1, <3>2 DEF Shows, CacheOK, Etag, Body, Live
  <2> QED BY <2>1, <2>2
<1>5. CallInv  BY <1>3, <1>4 DEF CallInv, CallOK
<1>6. \A x \in Paths : PathInv(x)
  BY <1>3, <1>4 DEF PathInv, Owes, TwinSafe, Takes, InScan
<1> QED BY <1>2, <1>5, <1>6 DEF XInv

\* Every step keeps it.
LEMMA XInvNext == XInv /\ [Next]_vars => XInv'
<1> SUFFICES ASSUME XInv, [Next]_vars PROVE CallInv' /\ \A x \in Paths : PathInv(x)'
  BY NextInv DEF XInv
<1>1. ASSUME NEW s \in Rescanners, Rescans(s)  PROVE CallInv' /\ \A x \in Paths : PathInv(x)'
  BY <1>1, RescanIndex
<1>1a. ASSUME NEW p \in Paths, Foreign(p)  PROVE CallInv' /\ \A x \in Paths : PathInv(x)'
  BY <1>1a, ForeignIndex
<1>2. ASSUME NEW c \in Procs, job[c] = Nil, calls < MaxCalls, NEW op \in Ops, NEW p \in Paths, NEW q \in Paths,
             NEW match \in {NoMatch} \cup Tags,
             PgRead(c, op, p, q, match) \/ S3Read(c, op, p, q, match)
      PROVE  CallInv' /\ \A x \in Paths : PathInv(x)'
  BY <1>2, BeginIndex
<1>3. ASSUME NEW c \in Procs, Postgres(c)  PROVE CallInv' /\ \A x \in Paths : PathInv(x)'
  BY <1>3, CommitIndex, QuietStep DEF Postgres
<1>4. ASSUME NEW c \in Procs, S3(c)  PROVE CallInv' /\ \A x \in Paths : PathInv(x)'
  BY <1>4, S3PutIndex, S3DropIndex, QuietStep DEF S3
<1>5. ASSUME NEW c \in Procs, SetCache(c) \/ SetDoc(c)
      PROVE  CallInv' /\ \A x \in Paths : PathInv(x)'
  BY <1>5, SetCacheIndex, SetDocIndex
<1>6. CASE UNCHANGED vars
  <2>1. UNCHANGED <<backend, store, cache, graph, fts, job, scan, blame>>
    BY <1>6 DEF vars, index, rescanning
  <2>2. CallInv'  BY <2>1 DEF XInv, CallInv, CallOK, Pg
  <2>3. ASSUME NEW x \in Paths PROVE PathInv(x)'
    <3>1. \A d \in Procs : (Owes(d, x)' <=> Owes(d, x)) /\ job'[d] = job[d]  BY <2>1 DEF Owes
    <3>2. \A d \in Procs : \A y \in Paths : Takes(d, y)' => Takes(d, y) /\ job'[d] = job[d]
      BY <2>1 DEF Takes, Owes
    <3>3. (Clean(x)' <=> Clean(x)) /\ (Clean(x) => TwinSafe(x)') /\ Cached(x)' = Cached(x)
      BY <2>1, <3>2, TwinFrame DEF XInv, PathInv, Clean, Cached
    <3> QED BY <2>1, <3>1, <3>3, PathFrame DEF XInv
  <2> QED BY <2>2, <2>3
<1> QED BY <1>1, <1>1a, <1>2, <1>3, <1>4, <1>5, <1>6 DEF Next

\* Postgres and S3: when no call and no rescan is under way, graph and full-text index
\* have for each path what the store has, unless changes of the path raced for the
\* index after they had reached the store, S3 kept the old object of a move, a failed
\* rescan left the path out, or another process has changed it; and so has the summary
\* cache, unless a path that differs in case only took the place of its summary.
THEOREM IndexFollowsStore == Spec => []IndexExplained
<1>1. ASSUME XInv PROVE IndexExplained
  <2> SUFFICES ASSUME AtRest, NEW p \in Paths, Clean(p)
               PROVE  /\ graph[p] = Body(p) /\ fts[p] = Body(p)
                      /\ blame[p] = {} => Cached(p) = Etag(p)
    BY DEF IndexExplained, Clean, Etag, Body
  <2>1. \A c \in Procs : ~Owes(c, p)  BY DEF AtRest, Owes
  <2>2. \A s \in Rescanners : ~Mends(s, p)  BY DEF AtRest, Rescanning, Mends
  <2>3. Shows(p)  BY <1>1, <2>1, <2>2 DEF XInv, PathInv
  <2> QED BY <2>3 DEF Shows, CacheOK
<1> QED BY <1>1, XInvInit, XInvNext, PTL DEF Spec
=============================================================================
