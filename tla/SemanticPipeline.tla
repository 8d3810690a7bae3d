-------------------------- MODULE SemanticPipeline --------------------------
(***************************************************************************)
(* The semantic index of a vault: the pipeline that embeds and summarises  *)
(* changed notes, the vector store and the derived metadata it fills, and  *)
(* the purger that removes deleted notes (internal/infra/semantic:         *)
(* pipeline.go, tombstone, vectorstore, derived).                          *)
(*                                                                         *)
(* Every event runs in a goroutine of its own.  A body change waits in a   *)
(* debounce timer; the goroutine of a timer, and the goroutines of other   *)
(* events, are Workers here.  Nothing orders two goroutines of one note.   *)
(*                                                                         *)
(* A body is a number, and stands for its hash; a longer body has more     *)
(* chunks.  Calls to the embedder, the summarizer and the stores may fail. *)
(* The vector store is PgVectorStore, whose rows have a vector each, or    *)
(* SqliteVecStore, which keeps one vector for all the rows of a note.      *)
(***************************************************************************)
EXTENDS Integers, FiniteSets, FiniteSetsExt

CONSTANTS
  Notes,        \* note IDs
  Workers,      \* goroutines (bound: at most this many at once)
  Nil,          \* no timer, no task, no metadata
  Chunks,       \* number of chunks of each body
  EmbedSlots,   \* MaxConcurrentEmbeddings
  SummarySlots, \* MaxConcurrentSummaries
  MaxAttempts,  \* MaxRetryAttempts
  SweepMax,     \* StartupSweepMax
  MaxSubmits,   \* bound: events submitted
  MaxSweeps     \* bound: sweeps started

Bodies == DOMAIN Chunks
Gone == 0   \* in place of the body of a deleted note

ASSUME PipelineAssumption ==
  /\ EmbedSlots \in Nat \ {0} /\ SummarySlots \in Nat \ {0}
  /\ MaxAttempts \in Nat \ {0} /\ SweepMax \in Nat \ {0}
  /\ MaxSubmits \in Nat /\ MaxSweeps \in Nat
  /\ Chunks \in [Bodies -> Nat \ {0}] /\ 1 \in Bodies /\ Gone \notin Bodies

(* The stages of the work on a body and of the work on a deletion. *)
BodyStages == {"timer", "front", "check", "follow", "acquire", "embed", "upsert",
               "acquireSummary", "summarize", "set"}
DeleteStages == {"tombstone", "record", "purge", "purgeVector", "purgeMeta"}

TaskOf(kind, stages, bodies) ==
  [kind : {kind}, at : stages, note : Notes, body : bodies, seq : Nat,
   tries : 0..(MaxAttempts - 1), chunk : Nat \ {0}, alone : BOOLEAN]
BodyTask == TaskOf("body", BodyStages, Bodies)
DeleteTask == TaskOf("delete", DeleteStages, {Gone})
Timer == [body : Bodies, seq : Nat, event : Nat]
Meta == [body : Bodies \cup {Gone}, stale : BOOLEAN]
SweepRec == [at : {"select", "delete", "deleteVector"}, ids : SUBSET Notes]

ASSUME NilAssumption == Nil \notin BodyTask \cup DeleteTask \cup Timer \cup Meta \cup SweepRec

VARIABLES
  cur,       \* vault: the body each note has, or Gone
  debounce,  \* pipeline: the entry of each note: its timer and sequence number
  timers,    \* pipeline: the timers of each note that are running
  task,      \* pipeline: what each goroutine is doing
  embedFree, \* pipeline: free slots of embedSem
  sumFree,   \* pipeline: free slots of summarySem
  closed,    \* pipeline: Close has been called
  store,     \* vector store: which of the two it is
  vec,       \* vector store: rows of each note, by chunk
  one,       \* SqliteVecStore: the body whose last chunk the one vector is of
  meta,      \* derived store: metadata of each note
  tix,       \* purger: the notes of whose tombstone it knows the age
  sweep,     \* purger: the sweep in progress
  submits, sweeps, \* ghosts: events submitted and sweeps started so far
  blame      \* ghost: why the index of a note may be wrong

vars == <<cur, debounce, timers, task, embedFree, sumFree, closed, store, vec, one,
          meta, tix, sweep, submits, sweeps, blame>>
slots == <<embedFree, sumFree>>
vectors == <<store, vec, one>>
stores == <<vectors, meta>>
purger == <<tix, sweep, sweeps>>
submitter == <<cur, debounce, timers, closed, submits>>

Causes == {"overlap", "failed", "revived", "reused", "skipped", "swept", "longer"}

Rows(n) == DOMAIN vec[n]
Searchable(n) == {c \in Rows(n) : ~vec[n][c].dead}   \* what Search may return
Full(b) == [c \in 1..Chunks[b] |-> [body |-> b, dead |-> FALSE]]

(* A note may have been indexed earlier, under an older schema. *)
Init ==
  /\ cur \in [Notes -> {Gone, 1}]
  /\ debounce = [n \in Notes |-> Nil] /\ timers = [n \in Notes |-> {}]
  /\ task = [w \in Workers |-> Nil]
  /\ embedFree = EmbedSlots /\ sumFree = SummarySlots /\ closed = FALSE
  /\ store \in {"pgvector", "sqlitevec"}
  /\ vec = [n \in Notes |-> IF cur[n] = Gone THEN <<>> ELSE Full(1)]
  /\ one = IF store = "sqlitevec" THEN cur ELSE [n \in Notes |-> Gone]
  /\ meta = [n \in Notes |-> IF cur[n] = Gone THEN Nil ELSE [body |-> 1, stale |-> TRUE]]
  /\ tix = {} /\ sweep = Nil
  /\ submits = 0 /\ sweeps = 0
  /\ blame = [n \in Notes |-> {}]

-----------------------------------------------------------------------------
(* Tasks. *)

Idle(w) == task[w] = Nil
Fresh(w) == w = CHOOSE v \in Workers : Idle(v)   \* the next goroutine to start
At(w, at) == ~Idle(w) /\ task[w].at = at
Of(n) == {w \in Workers : ~Idle(w) /\ task[w].note = n}

(* Two goroutines of a note are in each other's way unless they work on    *)
(* the same body; a task that ever was in such company is not alone.       *)
Rival(t, u) == t.note = u.note /\ (t.kind # u.kind \/ t.body # u.body)

Spawn(w, t) ==
  task' = [v \in Workers |->
    IF v = w THEN [t EXCEPT !.alone = ~\E u \in Workers \ {w} : ~Idle(u) /\ Rival(t, task[u])]
    ELSE IF ~Idle(v) /\ Rival(t, task[v]) THEN [task[v] EXCEPT !.alone = FALSE]
    ELSE task[v]]

Task(kind, at, n, b, s) ==
  [kind |-> kind, at |-> at, note |-> n, body |-> b, seq |-> s,
   tries |-> 0, chunk |-> 1, alone |-> TRUE]

Goto(w, at) == task' = [task EXCEPT ![w].at = at]

(* A task ends; so do the calls that singleflight made wait for it. *)
Followers(w) == {v \in Workers : At(v, "follow") /\ task[v].note = task[w].note
                                 /\ task[v].body = task[w].body}
End(w) ==
  task' = [v \in Workers |-> IF v = w \/ (task[w].at # "check" /\ v \in Followers(w))
                             THEN Nil ELSE task[v]]

Blame(n, why) == blame' = [blame EXCEPT ![n] = @ \cup {why}]

(* Rows past the last chunk of a body: no write of that body reaches them.  *)
Surplus(n, b) == b # Gone /\ \E c \in Searchable(n) : c > Chunks[b]

(* A task that did all its work, alone and for the body the note still has, *)
(* sets the record straight, but for what a longer body has left behind.    *)
Settle(w) ==
  LET t == task[w]
  IN blame' = [blame EXCEPT ![t.note] =
       IF ~t.alone THEN @ \cup {"overlap"}
       ELSE IF t.body # cur[t.note] THEN @
       ELSE IF Surplus(t.note, t.body) THEN {"longer"} ELSE {}]

Fail(w) == End(w) /\ Blame(task[w].note, "failed")

-----------------------------------------------------------------------------
(* Submit. *)

CanSubmit == submits < MaxSubmits /\ submits' = submits + 1

(* The timer of the entry is stopped, if it has not run out, and another   *)
(* is started.  The numbers begin again when a note has no entry.          *)
NewTimer(n, b) ==
  [body |-> b, seq |-> IF debounce[n] = Nil THEN 0 ELSE debounce[n].seq + 1,
   event |-> submits]

SubmitBody(n, b) ==
  /\ CanSubmit /\ cur[n] # b
  /\ cur' = [cur EXCEPT ![n] = b]
  /\ debounce' = [debounce EXCEPT ![n] = NewTimer(n, b)]
  /\ timers' = [timers EXCEPT ![n] = (@ \ {debounce[n]}) \cup {NewTimer(n, b)}]
  /\ UNCHANGED <<task, slots, closed, stores, purger, blame>>

SubmitFrontmatter(w, n) ==
  /\ CanSubmit /\ Idle(w) /\ Fresh(w) /\ cur[n] # Gone
  /\ Spawn(w, Task("body", "front", n, cur[n], 0))
  /\ UNCHANGED <<cur, debounce, timers, slots, closed, stores, purger, blame>>

(* A delete leaves the timer of the note running. *)
SubmitDelete(w, n) ==
  /\ CanSubmit /\ Idle(w) /\ Fresh(w) /\ cur[n] # Gone
  /\ cur' = [cur EXCEPT ![n] = Gone]
  /\ Spawn(w, Task("delete", "tombstone", n, Gone, 0))
  /\ UNCHANGED <<debounce, timers, slots, closed, stores, purger, blame>>

(* NotePurge, called by the owner of a deleted note. *)
Purge(w, n) ==
  /\ CanSubmit /\ Idle(w) /\ Fresh(w) /\ cur[n] # Gone
  /\ cur' = [cur EXCEPT ![n] = Gone]
  /\ Spawn(w, Task("delete", "purge", n, Gone, 0))
  /\ UNCHANGED <<debounce, timers, slots, closed, stores, purger, blame>>

(* A timer runs out; its goroutine has yet to take the mutex.              *)
Fire(w, n) ==
  /\ Idle(w) /\ Fresh(w)
  /\ \E t \in timers[n] :
       /\ timers' = [timers EXCEPT ![n] = @ \ {t}]
       /\ task' = [task EXCEPT ![w] = Task("body", "timer", n, t.body, t.seq)]
  /\ UNCHANGED <<cur, debounce, closed, submits, slots, stores, purger, blame>>

\* Mutant: the timer checks that there is an entry and not that it is its own.
AnyGeneration(e, seq) == e # Nil

Current(e, seq) == e # Nil /\ e.seq = seq

(* A goroutine that has waited since an entry that is gone finds a later    *)
(* entry with the number of its own: it takes it for its own, and the body  *)
(* of the later event is never processed.                                   *)
Reused(e, t) == e.seq = t.seq /\ e.body # t.body

(* The generation check of the timer. *)
TimerLock(w) ==
  /\ At(w, "timer")
  /\ LET t == task[w]
     IN \/ /\ ~Current(debounce[t.note], t.seq)
           /\ task' = [task EXCEPT ![w] = Nil]
           /\ UNCHANGED <<debounce, blame>>
        \/ /\ Current(debounce[t.note], t.seq)
           /\ debounce' = [debounce EXCEPT ![t.note] = Nil]
           /\ Spawn(w, [t EXCEPT !.at = "check", !.seq = 0])
           /\ IF cur[t.note] = Gone THEN Blame(t.note, "revived")
              ELSE IF Reused(debounce[t.note], t) THEN Blame(t.note, "reused")
              ELSE UNCHANGED blame
  /\ UNCHANGED <<cur, timers, closed, submits, slots, stores, purger>>

Close ==
  /\ ~closed /\ closed' = TRUE
  /\ UNCHANGED <<cur, debounce, timers, submits, task, slots, stores, purger, blame>>

-----------------------------------------------------------------------------
(* processFrontmatter and processBody. *)

Known(n, b) == meta[n] # Nil /\ meta[n].body = b

(* What a search may return of a note is its chunks, all of them and nothing *)
(* else.  SqliteVecStore has the vector of the last chunk for all of them.   *)
Matches(n, b) ==
  /\ Known(n, b)
  /\ Searchable(n) = 1..Chunks[b]
  /\ \A c \in Searchable(n) : vec[n][c].body = b
  /\ store = "sqlitevec" => one[n] = b

ProcessFrontmatter(w) ==
  /\ At(w, "front")
  /\ LET m == meta[task[w].note]
     IN IF m # Nil /\ m.stale THEN Goto(w, "check") ELSE task' = [task EXCEPT ![w] = Nil]
  /\ UNCHANGED <<submitter, slots, stores, purger, blame>>

(* The work was done before: the metadata has the hash of this body. *)
ProcessBodySkip(w) ==
  /\ At(w, "check")
  /\ LET t == task[w]
     IN /\ Known(t.note, t.body)
        /\ End(w)
        /\ IF Matches(t.note, t.body) /\ t.alone THEN UNCHANGED blame
           ELSE Blame(t.note, "skipped")
  /\ UNCHANGED <<submitter, slots, stores, purger>>

(* singleflight: the first call with this note and body runs the pipeline. *)
Leading(n, b) ==
  \E v \in Workers : ~Idle(v) /\ task[v].note = n /\ task[v].body = b
    /\ task[v].at \in {"acquire", "embed", "upsert", "acquireSummary", "summarize", "set"}

ProcessBody(w) ==
  /\ At(w, "check")
  /\ LET t == task[w]
     IN /\ ~Known(t.note, t.body)
        /\ Goto(w, IF Leading(t.note, t.body) THEN "follow" ELSE "acquire")
  /\ UNCHANGED <<submitter, slots, stores, purger, blame>>

(* runBodyPipeline.  A semaphore is acquired, or the wait is given up when *)
(* the pipeline is closed.                                                 *)
AcquireEmbed(w) ==
  /\ At(w, "acquire") /\ embedFree > 0
  /\ embedFree' = embedFree - 1
  /\ Goto(w, "embed")
  /\ UNCHANGED <<submitter, sumFree, stores, purger, blame>>

AcquireSummary(w) ==
  /\ At(w, "acquireSummary") /\ sumFree > 0
  /\ sumFree' = sumFree - 1
  /\ Goto(w, "summarize")
  /\ UNCHANGED <<submitter, embedFree, stores, purger, blame>>

GiveUpAcquire(w) ==
  /\ closed /\ (At(w, "acquire") \/ At(w, "acquireSummary"))
  /\ Fail(w)
  /\ UNCHANGED <<submitter, slots, stores, purger>>

(* retryWithBackoff: a failed attempt is repeated while attempts are left  *)
(* and, between two of them, the pipeline has not been closed.             *)
Retry(w) ==
  /\ At(w, "embed") \/ At(w, "summarize")
  /\ task[w].tries + 1 < MaxAttempts
  /\ task' = [task EXCEPT ![w].tries = @ + 1]
  /\ UNCHANGED <<submitter, slots, stores, purger, blame>>

\* Mutant: a failed embedding keeps its slot.
ReleaseSummaryOnly(w) ==
  /\ embedFree' = embedFree
  /\ sumFree' = IF At(w, "summarize") THEN sumFree + 1 ELSE sumFree

(* The slot that the call of this task holds is given back. *)
Release(w) ==
  /\ embedFree' = IF At(w, "embed") THEN embedFree + 1 ELSE embedFree
  /\ sumFree' = IF At(w, "summarize") THEN sumFree + 1 ELSE sumFree

GiveUp(w) ==
  /\ At(w, "embed") \/ At(w, "summarize")
  /\ closed \/ task[w].tries + 1 = MaxAttempts
  /\ Release(w)
  /\ Fail(w)
  /\ UNCHANGED <<submitter, stores, purger>>

Embed(w) ==
  /\ At(w, "embed")
  /\ Release(w)
  /\ task' = [task EXCEPT ![w].at = "upsert", ![w].tries = 0]
  /\ UNCHANGED <<submitter, stores, purger, blame>>

(* A row is inserted or replaced, and no longer tombstoned.  Rows of a     *)
(* longer body stay.                                                       *)
UpsertRow(rows, c, b) ==
  [x \in DOMAIN rows \cup {c} |->
     IF x = c THEN [body |-> b, dead |-> FALSE] ELSE rows[x]]

UpsertRows(rows, b) ==
  [x \in DOMAIN rows \cup 1..Chunks[b] |->
     IF x \in 1..Chunks[b] THEN [body |-> b, dead |-> FALSE] ELSE rows[x]]

(* PgVectorStore: one statement per row, each with the vector of its chunk. *)
Upsert(w) ==
  /\ At(w, "upsert") /\ store = "pgvector"
  /\ LET t == task[w]
     IN /\ vec' = [vec EXCEPT ![t.note] = UpsertRow(@, t.chunk, t.body)]
        /\ IF t.chunk < Chunks[t.body] THEN task' = [task EXCEPT ![w].chunk = @ + 1]
           ELSE task' = [task EXCEPT ![w].at = "acquireSummary", ![w].chunk = 1]
  /\ UNCHANGED <<submitter, slots, store, one, meta, purger, blame>>

(* SqliteVecStore: one transaction; of the vectors, which all have the key  *)
(* of the note, the last one stays.                                         *)
UpsertAll(w) ==
  /\ At(w, "upsert") /\ store = "sqlitevec"
  /\ LET t == task[w]
     IN /\ vec' = [vec EXCEPT ![t.note] = UpsertRows(@, t.body)]
        /\ one' = [one EXCEPT ![t.note] = t.body]
  /\ Goto(w, "acquireSummary")
  /\ UNCHANGED <<submitter, slots, store, meta, purger, blame>>

Summarize(w) ==
  /\ At(w, "summarize")
  /\ Release(w)
  /\ task' = [task EXCEPT ![w].at = "set", ![w].tries = 0]
  /\ UNCHANGED <<submitter, stores, purger, blame>>

SetDerived(w) ==
  /\ At(w, "set")
  /\ meta' = [meta EXCEPT ![task[w].note] = [body |-> task[w].body, stale |-> FALSE]]
  /\ End(w)
  /\ Settle(w)
  /\ UNCHANGED <<submitter, slots, vectors, purger>>

(* A store that fails ends the task where it stands. *)
StoreFails(w) ==
  /\ \E at \in {"upsert", "set", "tombstone", "purge", "purgeVector"} : At(w, at)
  /\ Fail(w)
  /\ UNCHANGED <<submitter, slots, stores, purger>>

-----------------------------------------------------------------------------
(* The purger: Tombstone, NotePurge and Sweep. *)

\* Mutant: only the first row of the note is marked.
MarkFirst(rows) == [c \in DOMAIN rows |-> [rows[c] EXCEPT !.dead = @ \/ c = 1]]

MarkDead(rows) == [c \in DOMAIN rows |-> [rows[c] EXCEPT !.dead = TRUE]]

Tombstone(w) ==
  /\ At(w, "tombstone")
  /\ vec' = [vec EXCEPT ![task[w].note] = MarkDead(@)]
  /\ Goto(w, "record")
  /\ UNCHANGED <<submitter, slots, store, one, meta, purger, blame>>

TombstoneRecord(w) ==
  /\ At(w, "record")
  /\ tix' = tix \cup {task[w].note}
  /\ End(w)
  /\ Settle(w)
  /\ UNCHANGED <<submitter, slots, stores, sweep, sweeps>>

(* Delete: the rows; in SqliteVecStore the vector is a second statement.   *)
PurgeVectors(w) ==
  /\ At(w, "purge")
  /\ vec' = [vec EXCEPT ![task[w].note] = <<>>]
  /\ Goto(w, IF store = "sqlitevec" THEN "purgeVector" ELSE "purgeMeta")
  /\ UNCHANGED <<submitter, slots, store, one, meta, purger, blame>>

PurgeVector(w) ==
  /\ At(w, "purgeVector")
  /\ one' = [one EXCEPT ![task[w].note] = Gone]
  /\ Goto(w, "purgeMeta")
  /\ UNCHANGED <<submitter, slots, store, vec, meta, purger, blame>>

(* FrontmatterStore overwrites the metadata with an empty record where     *)
(* there is a note to write it to; the error of a missing one is ignored.  *)
(* SidecarStore panics on the empty record, and the call goes no further.  *)
PurgeMeta(w) ==
  /\ At(w, "purgeMeta")
  /\ \/ /\ \/ meta' = [meta EXCEPT ![task[w].note] = [body |-> Gone, stale |-> TRUE]]
           \/ UNCHANGED meta
        /\ tix' = tix \ {task[w].note}
     \/ UNCHANGED <<meta, tix>>
  /\ End(w)
  /\ Settle(w)
  /\ UNCHANGED <<submitter, slots, vectors, sweep, sweeps>>

Tombstoned == {n \in Notes : \E c \in Rows(n) : vec[n][c].dead}

(* ListTombstoned; its error ends the sweep before anything has changed.   *)
(* The count of failed sweeps, which only raises an alarm, is left out.    *)
SweepList ==
  /\ sweep = Nil /\ sweeps < MaxSweeps
  /\ sweeps' = sweeps + 1
  /\ \E ids \in SUBSET Tombstoned :
       /\ Cardinality(ids) = Min({SweepMax, Cardinality(Tombstoned)})
       /\ sweep' = [at |-> "select", ids |-> ids]
  /\ UNCHANGED <<submitter, task, slots, stores, tix, blame>>

(* Tombstones old enough, be they any of those whose age is known, and all *)
(* those of a process that has crashed since.                               *)
Ripe(ids) == {old \in SUBSET ids : ids \ tix \subseteq old}

SweepSelect ==
  /\ sweep # Nil /\ sweep.at = "select"
  /\ \E old \in Ripe(sweep.ids) :
       /\ tix' = tix \ old
       /\ sweep' = IF old = {} THEN Nil ELSE [at |-> "delete", ids |-> old]
  /\ UNCHANGED <<submitter, task, slots, stores, sweeps, blame>>

(* Work in progress on the notes of the sweep is disturbed, and a note that *)
(* has come back to life loses its rows or its vector.                      *)
Disturb(ids) ==
  /\ blame' = [n \in Notes |->
       IF n \in ids /\ Searchable(n) # {} THEN blame[n] \cup {"swept"} ELSE blame[n]]
  /\ task' = [w \in Workers |-> IF ~Idle(w) /\ task[w].note \in ids
                                THEN [task[w] EXCEPT !.alone = FALSE] ELSE task[w]]

(* Delete removes every row of a note, whether it is tombstoned still or   *)
(* was ever; in SqliteVecStore the vectors are a second statement.         *)
SweepDelete ==
  /\ sweep # Nil /\ sweep.at = "delete"
  /\ vec' = [n \in Notes |-> IF n \in sweep.ids THEN <<>> ELSE vec[n]]
  /\ Disturb(sweep.ids)
  /\ sweep' = IF store = "sqlitevec" THEN [sweep EXCEPT !.at = "deleteVector"] ELSE Nil
  /\ UNCHANGED <<submitter, slots, store, one, meta, tix, sweeps>>

SweepDeleteVector ==
  /\ sweep # Nil /\ sweep.at = "deleteVector"
  /\ one' = [n \in Notes |-> IF n \in sweep.ids THEN Gone ELSE one[n]]
  /\ Disturb(sweep.ids)
  /\ sweep' = Nil
  /\ UNCHANGED <<submitter, slots, store, vec, meta, tix, sweeps>>

(* The notes are kept for a later sweep, as if tombstoned now.             *)
SweepFails ==
  /\ sweep # Nil /\ sweep.at \in {"delete", "deleteVector"}
  /\ tix' = tix \cup sweep.ids
  /\ sweep' = Nil
  /\ UNCHANGED <<submitter, task, slots, stores, sweeps, blame>>

-----------------------------------------------------------------------------
Step(w) ==
  \/ TimerLock(w)
  \/ ProcessFrontmatter(w) \/ ProcessBodySkip(w) \/ ProcessBody(w)
  \/ AcquireEmbed(w) \/ AcquireSummary(w) \/ GiveUpAcquire(w)
  \/ Retry(w) \/ GiveUp(w) \/ Embed(w) \/ Upsert(w) \/ UpsertAll(w) \/ Summarize(w)
  \/ SetDerived(w) \/ StoreFails(w)
  \/ Tombstone(w) \/ TombstoneRecord(w)
  \/ PurgeVectors(w) \/ PurgeVector(w) \/ PurgeMeta(w)

Submit ==
  \E n \in Notes : \/ \E b \in Bodies : SubmitBody(n, b)
                   \/ \E w \in Workers : SubmitFrontmatter(w, n)
                   \/ \E w \in Workers : SubmitDelete(w, n)
                   \/ \E w \in Workers : Purge(w, n)

Timers == \E n \in Notes, w \in Workers : Fire(w, n)
Sweep == SweepList \/ SweepSelect \/ SweepDelete \/ SweepDeleteVector \/ SweepFails

Next == Submit \/ Timers \/ Sweep \/ Close \/ \E w \in Workers : Step(w)

(* Every goroutine runs, and a timer runs out. *)
Fairness ==
  /\ \A w \in Workers : WF_vars(Step(w))
  /\ WF_vars(Timers)

Spec == Init /\ [][Next]_vars /\ Fairness

-----------------------------------------------------------------------------
Holding(at) == Cardinality({w \in Workers : At(w, at)})

(* The types of the variables.  Every slot of the two semaphores is free or *)
(* held by a goroutine that is embedding or summarising, so that the limits *)
(* on concurrent calls hold and no slot is lost on an error path.           *)
TypeOK ==
  /\ cur \in [Notes -> Bodies \cup {Gone}]
  /\ debounce \in [Notes -> Timer \cup {Nil}] /\ timers \in [Notes -> SUBSET Timer]
  /\ task \in [Workers -> BodyTask \cup DeleteTask \cup {Nil}]
  /\ store \in {"pgvector", "sqlitevec"} /\ one \in [Notes -> Bodies \cup {Gone}]
  /\ DOMAIN vec = Notes
  /\ \A n \in Notes : \A c \in Rows(n) : vec[n][c] \in [body : Bodies, dead : BOOLEAN]
  /\ meta \in [Notes -> Meta \cup {Nil}]
  /\ tix \subseteq Notes /\ submits \in Nat
  /\ sweep \in SweepRec \cup {Nil}
  /\ closed \in BOOLEAN
  /\ blame \in [Notes -> SUBSET Causes]
  /\ embedFree \in 0..EmbedSlots /\ embedFree + Holding("embed") = EmbedSlots
  /\ sumFree \in 0..SummarySlots /\ sumFree + Holding("summarize") = SummarySlots

AtRest(n) == debounce[n] = Nil /\ timers[n] = {} /\ Of(n) = {}

(* When the pipeline has nothing left to do for a note, its metadata is     *)
(* that of the body that was submitted last, and the rows that a search may *)
(* return of it are the chunks of that body, all of them and no other, with *)
(* their vectors (SqliteVecStore: with the vector of the last chunk), unless *)
(* a known hole of the code was met since: two goroutines worked on         *)
(* different bodies at once; a call failed for good; the goroutine of an    *)
(* old timer took the entry of a later event; the body had been indexed     *)
(* before (the metadata says so, the vectors need not); a sweep deleted     *)
(* rows that had come back to life; an earlier body was longer, and its     *)
(* last rows are still there, since no write of a shorter body deletes them. *)
LastBodyIndexed ==
  \A n \in Notes : AtRest(n) /\ blame[n] = {} /\ cur[n] # Gone => Matches(n, cur[n])

(* When the pipeline has nothing left to do for a deleted note, the vector  *)
(* store has no row of it that a search would return, unless a timer or a   *)
(* goroutine of an older change was still at work when it was deleted, or   *)
(* the deletion failed.                                                     *)
DeletedNotSearchable ==
  \A n \in Notes : AtRest(n) /\ blame[n] = {} /\ cur[n] = Gone => Searchable(n) = {}

(* Every goroutine ends and every timer is dealt with, also after Close and *)
(* whatever fails: no task waits for ever for a slot of a semaphore, for    *)
(* its singleflight leader or for another attempt.                          *)
WorkEnds == \A n \in Notes : ~AtRest(n) ~> AtRest(n)
=============================================================================
