----------------------- MODULE SemanticPipelineProofs -----------------------
(***************************************************************************)
(* Proofs about the semantic pipeline and its purger, for any number of    *)
(* notes, goroutines, bodies, slots, attempts, events and sweeps: the      *)
(* slots of the semaphores are all accounted for, a deleted note leaves no *)
(* row that a search would return, and the index of a note at rest is that *)
(* of its last body.                                                       *)
(***************************************************************************)
EXTENDS SemanticPipeline, FiniteSetTheorems, TLAPS

-----------------------------------------------------------------------------
(* Rows                                                                    *)

Row == [body : Bodies, dead : BOOLEAN]
Typed(rows) == DOMAIN rows \subseteq Nat \ {0} /\ \A c \in DOMAIN rows : rows[c] \in Row

\* What the writes of the vector store make of the rows of a note.
LEMMA RowsFacts ==
  /\ Typed(<<>>) /\ DOMAIN <<>> = {}
  /\ \A b \in Bodies : Typed(Full(b))
  /\ \A rows : \A c \in Nat \ {0} : \A b \in Bodies : Typed(rows) => Typed(UpsertRow(rows, c, b))
  /\ \A rows : \A b \in Bodies : Typed(rows) => Typed(UpsertRows(rows, b))
  /\ \A rows : Typed(rows) => Typed(MarkDead(rows))
<1>1. Typed(<<>>) /\ DOMAIN <<>> = {}  BY DEF Typed
<1>c. ASSUME NEW b \in Bodies  PROVE 1..Chunks[b] \subseteq Nat \ {0} /\ [body |-> b, dead |-> FALSE] \in Row
  BY PipelineAssumption DEF Row
<1>2. \A b \in Bodies : Typed(Full(b))  BY <1>c DEF Typed, Full
<1>3. ASSUME NEW rows, NEW c \in Nat \ {0}, NEW b \in Bodies, Typed(rows)  PROVE Typed(UpsertRow(rows, c, b))
  BY <1>3, <1>c DEF Typed, UpsertRow
<1>a. ASSUME NEW rows, NEW b \in Bodies, Typed(rows)  PROVE Typed(UpsertRows(rows, b))
  BY <1>a, <1>c DEF Typed, UpsertRows
<1>4. ASSUME NEW rows, Typed(rows)  PROVE Typed(MarkDead(rows))
  <2>1. \A r \in Row : [r EXCEPT !.dead = TRUE] \in Row  BY DEF Row
  <2> QED BY <1>4, <2>1, Zenon DEF Typed, MarkDead
<1> QED BY <1>1, <1>2, <1>3, <1>4, <1>a

-----------------------------------------------------------------------------
(* Tasks                                                                   *)

Tasks == BodyTask \cup DeleteTask \cup {Nil}

\* The stage of a task tells what kind of task it is.
LEMMA HasTask ==
  ASSUME task \in [Workers -> Tasks], NEW w \in Workers, NEW at, At(w, at)
  PROVE  /\ task[w] \in BodyTask \cup DeleteTask /\ task[w] # Nil /\ task[w].at = at
         /\ at \in BodyStages => task[w] \in BodyTask
         /\ at \in DeleteStages => task[w] \in DeleteTask
BY DEF Tasks, At, Idle, BodyTask, DeleteTask, TaskOf, BodyStages, DeleteStages

\* A record that differs from a task in its progress only is a task, and is not Nil.
LEMMA TaskEdits ==
  /\ \A t \in BodyTask, at \in BodyStages : [t EXCEPT !.at = at] \in BodyTask
  /\ \A t \in BodyTask, a \in BOOLEAN : [t EXCEPT !.alone = a] \in BodyTask
  /\ \A t \in BodyTask, i \in 0..(MaxAttempts - 1) : [t EXCEPT !.tries = i] \in BodyTask
  /\ \A t \in BodyTask, at \in BodyStages, i \in 0..(MaxAttempts - 1) :
       [t EXCEPT !.at = at, !.tries = i] \in BodyTask
  /\ \A t \in BodyTask, c \in Nat \ {0} : [t EXCEPT !.chunk = c] \in BodyTask
  /\ \A t \in BodyTask, at \in BodyStages, c \in Nat \ {0} : [t EXCEPT !.at = at, !.chunk = c] \in BodyTask
  /\ \A t \in BodyTask, at \in BodyStages, s \in Nat : [t EXCEPT !.at = at, !.seq = s] \in BodyTask
  /\ \A t \in DeleteTask, at \in DeleteStages : [t EXCEPT !.at = at] \in DeleteTask
  /\ \A t \in DeleteTask, a \in BOOLEAN : [t EXCEPT !.alone = a] \in DeleteTask
<1>1. \A t \in BodyTask, at \in BodyStages : [t EXCEPT !.at = at] \in BodyTask  BY DEF BodyTask, TaskOf
<1>2. \A t \in BodyTask, a \in BOOLEAN : [t EXCEPT !.alone = a] \in BodyTask  BY DEF BodyTask, TaskOf
<1>3. \A t \in BodyTask, i \in 0..(MaxAttempts - 1) : [t EXCEPT !.tries = i] \in BodyTask
  BY DEF BodyTask, TaskOf
<1>4. \A t \in BodyTask, at \in BodyStages, i \in 0..(MaxAttempts - 1) :
        [t EXCEPT !.at = at, !.tries = i] \in BodyTask
  BY DEF BodyTask, TaskOf
<1>5. \A t \in BodyTask, c \in Nat \ {0} : [t EXCEPT !.chunk = c] \in BodyTask  BY DEF BodyTask, TaskOf
<1>6. \A t \in BodyTask, at \in BodyStages, c \in Nat \ {0} : [t EXCEPT !.at = at, !.chunk = c] \in BodyTask
  BY DEF BodyTask, TaskOf
<1>7. \A t \in BodyTask, at \in BodyStages, s \in Nat : [t EXCEPT !.at = at, !.seq = s] \in BodyTask
  BY DEF BodyTask, TaskOf
<1>8. \A t \in DeleteTask, at \in DeleteStages : [t EXCEPT !.at = at] \in DeleteTask  BY DEF DeleteTask, TaskOf
<1>9. \A t \in DeleteTask, a \in BOOLEAN : [t EXCEPT !.alone = a] \in DeleteTask  BY DEF DeleteTask, TaskOf
<1> QED BY <1>1, <1>2, <1>3, <1>4, <1>5, <1>6, <1>7, <1>8, <1>9

\* The tasks that the events and the timers start.
LEMMA NewTasks ==
  ASSUME NEW n \in Notes, NEW b \in Bodies, NEW s \in Nat
  PROVE  /\ Task("body", "front", n, b, 0) \in BodyTask
         /\ Task("body", "timer", n, b, s) \in BodyTask
         /\ Task("delete", "tombstone", n, Gone, 0) \in DeleteTask
         /\ Task("delete", "purge", n, Gone, 0) \in DeleteTask
BY PipelineAssumption DEF Task, BodyTask, DeleteTask, TaskOf, BodyStages, DeleteStages

\* Only the progress of one task changes.
Edited(w, t) == task' = [task EXCEPT ![w] = t]

\* The tasks keep their type when one starts, proceeds, or ends.
LEMMA TasksType ==
  ASSUME task \in [Workers -> Tasks], NEW w \in Workers
  PROVE  /\ \A t \in Tasks : Edited(w, t) => task' \in [Workers -> Tasks]
         /\ \A t \in BodyTask \cup DeleteTask : Spawn(w, t) => task' \in [Workers -> Tasks]
         /\ End(w) => task' \in [Workers -> Tasks]
<1>1. \A t \in BodyTask \cup DeleteTask, a \in BOOLEAN : [t EXCEPT !.alone = a] \in Tasks
  BY TaskEdits, Zenon DEF Tasks
<1>2. ASSUME NEW t \in BodyTask \cup DeleteTask, Spawn(w, t)  PROVE task' \in [Workers -> Tasks]
  <2>1. \A v \in Workers : task[v] # Nil => [task[v] EXCEPT !.alone = FALSE] \in Tasks
    BY <1>1 DEF Tasks
  <2>2. [t EXCEPT !.alone = ~\E u \in Workers \ {w} : ~Idle(u) /\ Rival(t, task[u])] \in Tasks
    BY <1>1
  <2> QED BY <1>2, <2>1, <2>2 DEF Spawn, Idle
<1>3. End(w) => task' \in [Workers -> Tasks]  BY DEF End, Tasks
<1> QED BY <1>2, <1>3 DEF Edited

-----------------------------------------------------------------------------
(* Types                                                                   *)

\* What TypeOK says of the variables one by one.
Types ==
  /\ cur \in [Notes -> Bodies \cup {Gone}]
  /\ debounce \in [Notes -> Timer \cup {Nil}] /\ timers \in [Notes -> SUBSET Timer]
  /\ task \in [Workers -> Tasks]
  /\ store \in {"pgvector", "sqlitevec"} /\ one \in [Notes -> Bodies \cup {Gone}]
  /\ DOMAIN vec = Notes /\ \A n \in Notes : Typed(vec[n])
  /\ meta \in [Notes -> Meta \cup {Nil}]
  /\ tix \subseteq Notes /\ submits \in Nat
  /\ sweep \in SweepRec \cup {Nil}
  /\ closed \in BOOLEAN
  /\ blame \in [Notes -> SUBSET Causes]

\* A task's fields have their types.
LEMMA TaskFields ==
  /\ \A t \in BodyTask : t.note \in Notes /\ t.body \in Bodies /\ t.kind = "body" /\ t.at \in BodyStages
                        /\ t.seq \in Nat /\ t.tries \in 0..(MaxAttempts - 1) /\ t.chunk \in Nat \ {0}
                        /\ t.alone \in BOOLEAN
  /\ \A t \in DeleteTask : t.note \in Notes /\ t.body = Gone /\ t.kind = "delete" /\ t.at \in DeleteStages
                          /\ t.alone \in BOOLEAN
BY DEF BodyTask, DeleteTask, TaskOf

\* The blame of a note stays a set of causes.
LEMMA BlameType ==
  ASSUME blame \in [Notes -> SUBSET Causes]
  PROVE  /\ \A n, why : why \in Causes /\ Blame(n, why) => blame' \in [Notes -> SUBSET Causes]
         /\ \A w \in Workers : Settle(w) => blame' \in [Notes -> SUBSET Causes]
BY DEF Blame, Settle, Causes

\* The initial state is typed.
LEMMA TypesInit == Init => Types
<1> SUFFICES ASSUME Init  PROVE Types  OBVIOUS
<1>1. cur \in [Notes -> Bodies \cup {Gone}]  BY PipelineAssumption DEF Init
<1>2. DOMAIN vec = Notes /\ \A n \in Notes : Typed(vec[n])
  BY <1>1, RowsFacts, PipelineAssumption DEF Init
<1>3. [body |-> 1, stale |-> TRUE] \in Meta  BY PipelineAssumption DEF Meta
<1>4. meta \in [Notes -> Meta \cup {Nil}]  BY <1>3 DEF Init
<1> QED BY <1>1, <1>2, <1>4 DEF Init, Types, Tasks

\* A step of an event, a timer, or Close.
LEMMA TypesSubmit ==
  ASSUME Types, Submit \/ Timers \/ Close
  PROVE  Types'
<1> USE DEF Types
<1>1. ASSUME NEW n \in Notes, NEW b \in Bodies, SubmitBody(n, b)  PROVE Types'
  <2>1. NewTimer(n, b) \in Timer  BY DEF NewTimer, Timer
  <2>2. debounce' \in [Notes -> Timer \cup {Nil}] /\ timers' \in [Notes -> SUBSET Timer]
    BY <1>1, <2>1 DEF SubmitBody
  <2> QED BY <1>1, <2>2 DEF SubmitBody, CanSubmit, stores, vectors, purger
<1>2. ASSUME NEW n \in Notes, NEW w \in Workers, SubmitFrontmatter(w, n)  PROVE Types'
  <2>1. cur[n] \in Bodies  BY <1>2 DEF SubmitFrontmatter
  <2>2. task' \in [Workers -> Tasks]  BY <1>2, <2>1, NewTasks, TasksType DEF SubmitFrontmatter
  <2> QED BY <1>2, <2>2 DEF SubmitFrontmatter, CanSubmit, stores, vectors, purger
<1>3. ASSUME NEW n \in Notes, NEW w \in Workers, SubmitDelete(w, n)  PROVE Types'
  <2>1. task' \in [Workers -> Tasks]  BY <1>3, PipelineAssumption, NewTasks, TasksType DEF SubmitDelete
  <2> QED BY <1>3, <2>1 DEF SubmitDelete, CanSubmit, stores, vectors, purger
<1>4. ASSUME NEW n \in Notes, NEW w \in Workers, Purge(w, n)  PROVE Types'
  <2>1. task' \in [Workers -> Tasks]  BY <1>4, PipelineAssumption, NewTasks, TasksType DEF Purge
  <2> QED BY <1>4, <2>1 DEF Purge, CanSubmit, stores, vectors, purger
<1>5. ASSUME NEW n \in Notes, NEW w \in Workers, Fire(w, n)  PROVE Types'
  <2>1. PICK t \in timers[n] : timers' = [timers EXCEPT ![n] = @ \ {t}]
                               /\ task' = [task EXCEPT ![w] = Task("body", "timer", n, t.body, t.seq)]
    BY <1>5 DEF Fire
  <2>2. t.body \in Bodies /\ t.seq \in Nat  BY DEF Timer
  <2>3. Task("body", "timer", n, t.body, t.seq) \in Tasks  BY <2>2, NewTasks DEF Tasks
  <2>4. task' \in [Workers -> Tasks] /\ timers' \in [Notes -> SUBSET Timer]  BY <2>1, <2>3
  <2> QED BY <1>5, <2>4 DEF Fire, stores, vectors, purger
<1>6. CASE Close  BY <1>6 DEF Close, stores, vectors, purger
<1> QED BY <1>1, <1>2, <1>3, <1>4, <1>5, <1>6 DEF Submit, Timers

\* A stage of a task is what it is at, and no other.
LEMMA Stages ==
  /\ \A w, at, to : At(w, at) /\ At(w, to) => at = to
  /\ {"timer", "front", "check", "follow", "acquire", "embed", "upsert", "acquireSummary",
      "summarize", "set"} \subseteq BodyStages
  /\ {"tombstone", "record", "purge", "purgeVector", "purgeMeta"} \subseteq DeleteStages
BY DEF At, BodyStages, DeleteStages

\* A step of a goroutine.
LEMMA TypesStep ==
  ASSUME Types, NEW w \in Workers, Step(w)
  PROVE  Types'
<1> USE Stages
<1>0. task \in [Workers -> Tasks] /\ blame \in [Notes -> SUBSET Causes]  BY DEF Types
<1>a. ASSUME NEW at \in BodyStages, NEW to \in BodyStages, At(w, at), Goto(w, to)
      PROVE  task' \in [Workers -> Tasks]
  <2>1. [task[w] EXCEPT !.at = to] \in Tasks  BY <1>0, <1>a, HasTask, TaskEdits DEF Tasks
  <2> QED BY <1>0, <1>a, <2>1 DEF Goto
<1>b. ASSUME NEW at \in DeleteStages, NEW to \in DeleteStages, At(w, at), Goto(w, to)
      PROVE  task' \in [Workers -> Tasks]
  <2>1. [task[w] EXCEPT !.at = to] \in Tasks  BY <1>0, <1>b, HasTask, TaskEdits DEF Tasks
  <2> QED BY <1>0, <1>b, <2>1 DEF Goto
<1>c. Fail(w) => task' \in [Workers -> Tasks] /\ blame' \in [Notes -> SUBSET Causes]
  BY <1>0, TasksType, BlameType DEF Fail, Causes
<1>d. 0 \in 0..(MaxAttempts - 1)  BY PipelineAssumption
<1>1. CASE TimerLock(w)
  <2>1. task[w] \in BodyTask  BY <1>0, <1>1, HasTask DEF TimerLock
  <2>2. [task[w] EXCEPT !.at = "check", !.seq = 0] \in BodyTask  BY <2>1, TaskEdits
  <2>3. task' \in [Workers -> Tasks]
    <3>1. Nil \in Tasks  BY DEF Tasks
    <3>2. CASE task' = [task EXCEPT ![w] = Nil]  BY <1>0, <3>1, <3>2
    <3>3. CASE Spawn(w, [task[w] EXCEPT !.at = "check", !.seq = 0])  BY <1>0, <2>2, <3>3, TasksType
    <3> QED BY <1>1, <3>2, <3>3 DEF TimerLock
  <2>4. debounce' \in [Notes -> Timer \cup {Nil}]  BY <1>1 DEF TimerLock, Types
  <2>5. blame' \in [Notes -> SUBSET Causes]  BY <1>0, <1>1, BlameType DEF TimerLock, Causes
  <2> QED BY <1>1, <2>3, <2>4, <2>5 DEF TimerLock, stores, vectors, purger, Types
<1>2. CASE ProcessFrontmatter(w)
  <2>1. task' \in [Workers -> Tasks]  BY <1>0, <1>2, <1>a DEF ProcessFrontmatter, Tasks
  <2> QED BY <1>2, <2>1 DEF ProcessFrontmatter, submitter, stores, vectors, purger, Types
<1>3. CASE ProcessBodySkip(w)
  <2>1. task' \in [Workers -> Tasks]  BY <1>0, <1>3, TasksType DEF ProcessBodySkip
  <2>2. blame' \in [Notes -> SUBSET Causes]  BY <1>0, <1>3, BlameType DEF ProcessBodySkip, Causes
  <2> QED BY <1>3, <2>1, <2>2 DEF ProcessBodySkip, submitter, stores, vectors, purger, Types
<1>4. CASE ProcessBody(w)
  <2>1. task' \in [Workers -> Tasks]  BY <1>0, <1>4, <1>a DEF ProcessBody
  <2> QED BY <1>4, <2>1 DEF ProcessBody, submitter, stores, vectors, purger, Types
<1>5. CASE AcquireEmbed(w)
  <2>1. task' \in [Workers -> Tasks]  BY <1>0, <1>5, <1>a DEF AcquireEmbed
  <2> QED BY <1>5, <2>1 DEF AcquireEmbed, submitter, stores, vectors, purger, Types
<1>6. CASE AcquireSummary(w)
  <2>1. task' \in [Workers -> Tasks]  BY <1>0, <1>6, <1>a DEF AcquireSummary
  <2> QED BY <1>6, <2>1 DEF AcquireSummary, submitter, stores, vectors, purger, Types
<1>7. CASE GiveUpAcquire(w)  BY <1>7, <1>c DEF GiveUpAcquire, submitter, stores, vectors, purger, Types
<1>8. CASE Retry(w)
  <2>1. task[w] \in BodyTask  BY <1>0, <1>8, HasTask DEF Retry
  <2>2. task[w].tries + 1 \in 0..(MaxAttempts - 1)  BY <1>8, <2>1, TaskFields, PipelineAssumption DEF Retry
  <2>3. [task[w] EXCEPT !.tries = task[w].tries + 1] \in Tasks  BY <2>1, <2>2, TaskEdits DEF Tasks
  <2>4. task' \in [Workers -> Tasks]  BY <1>0, <1>8, <2>3 DEF Retry
  <2> QED BY <1>8, <2>4 DEF Retry, submitter, stores, vectors, purger, Types
<1>9. CASE GiveUp(w)  BY <1>9, <1>c DEF GiveUp, submitter, stores, vectors, purger, Types
<1>10. CASE Embed(w)
  <2>1. task[w] \in BodyTask  BY <1>0, <1>10, HasTask DEF Embed
  <2>2. [task[w] EXCEPT !.at = "upsert", !.tries = 0] \in Tasks  BY <1>d, <2>1, TaskEdits DEF Tasks
  <2>3. task' \in [Workers -> Tasks]  BY <1>0, <1>10, <2>2 DEF Embed
  <2> QED BY <1>10, <2>3 DEF Embed, submitter, stores, vectors, purger, Types
<1>11. CASE Upsert(w)
  <2>1. task[w] \in BodyTask  BY <1>0, <1>11, HasTask DEF Upsert
  <2>2. task[w].chunk + 1 \in Nat \ {0} /\ 1 \in Nat \ {0} /\ task[w].body \in Bodies /\ task[w].note \in Notes
    BY <2>1, TaskFields
  <2>3. /\ [task[w] EXCEPT !.chunk = task[w].chunk + 1] \in Tasks
        /\ [task[w] EXCEPT !.at = "acquireSummary", !.chunk = 1] \in Tasks
    BY <2>1, <2>2, TaskEdits DEF Tasks
  <2>4. task' \in [Workers -> Tasks]  BY <1>0, <1>11, <2>3 DEF Upsert
  <2>5. Typed(UpsertRow(vec[task[w].note], task[w].chunk, task[w].body))
    <3>1. Typed(vec[task[w].note]) /\ task[w].chunk \in Nat \ {0}  BY <2>1, <2>2, TaskFields DEF Types
    <3> QED BY <2>2, <3>1, RowsFacts
  <2>6. DOMAIN vec' = Notes /\ \A n \in Notes : Typed(vec'[n])  BY <1>11, <2>2, <2>5 DEF Upsert, Types
  <2> QED BY <1>11, <2>4, <2>6 DEF Upsert, submitter, purger, Types
<1>12. CASE Summarize(w)
  <2>1. task[w] \in BodyTask  BY <1>0, <1>12, HasTask DEF Summarize
  <2>2. [task[w] EXCEPT !.at = "set", !.tries = 0] \in Tasks  BY <1>d, <2>1, TaskEdits DEF Tasks
  <2>3. task' \in [Workers -> Tasks]  BY <1>0, <1>12, <2>2 DEF Summarize
  <2> QED BY <1>12, <2>3 DEF Summarize, submitter, stores, vectors, purger, Types
<1>13. CASE SetDerived(w)
  <2>1. task[w] \in BodyTask  BY <1>0, <1>13, HasTask DEF SetDerived
  <2>2. [body |-> task[w].body, stale |-> FALSE] \in Meta  BY <2>1, TaskFields DEF Meta
  <2>3. meta' \in [Notes -> Meta \cup {Nil}]  BY <1>13, <2>2 DEF SetDerived, Types
  <2>4. task' \in [Workers -> Tasks] /\ blame' \in [Notes -> SUBSET Causes]
    BY <1>0, <1>13, TasksType, BlameType DEF SetDerived
  <2> QED BY <1>13, <2>3, <2>4 DEF SetDerived, submitter, vectors, purger, Types
<1>14. CASE StoreFails(w)  BY <1>14, <1>c DEF StoreFails, submitter, stores, vectors, purger, Types
<1>15. CASE Tombstone(w)
  <2>1. task' \in [Workers -> Tasks]  BY <1>0, <1>15, <1>b DEF Tombstone
  <2>2. task[w].note \in Notes  BY <1>0, <1>15, HasTask, TaskFields DEF Tombstone
  <2>3. Typed(MarkDead(vec[task[w].note]))  BY <2>2, RowsFacts DEF Types
  <2>4. DOMAIN vec' = Notes /\ \A n \in Notes : Typed(vec'[n])  BY <1>15, <2>2, <2>3 DEF Tombstone, Types
  <2> QED BY <1>15, <2>1, <2>4 DEF Tombstone, submitter, purger, Types
<1>16. CASE TombstoneRecord(w)
  <2>1. task' \in [Workers -> Tasks] /\ blame' \in [Notes -> SUBSET Causes]
    BY <1>0, <1>16, TasksType, BlameType DEF TombstoneRecord
  <2>2. tix' \subseteq Notes
    <3>1. task[w].note \in Notes  BY <1>0, <1>16, HasTask, TaskFields DEF TombstoneRecord
    <3> QED BY <1>16, <3>1 DEF TombstoneRecord, Types
  <2> QED BY <1>16, <2>1, <2>2 DEF TombstoneRecord, submitter, stores, vectors, Types
<1>17. CASE PurgeVectors(w)
  <2>1. task' \in [Workers -> Tasks]  BY <1>0, <1>17, <1>b DEF PurgeVectors
  <2>2. DOMAIN vec' = Notes /\ \A n \in Notes : Typed(vec'[n])
    BY <1>17, RowsFacts DEF PurgeVectors, Types
  <2> QED BY <1>17, <2>1, <2>2 DEF PurgeVectors, submitter, purger, Types
<1>18. CASE PurgeMeta(w)
  <2>1. task' \in [Workers -> Tasks] /\ blame' \in [Notes -> SUBSET Causes]
    BY <1>0, <1>18, TasksType, BlameType DEF PurgeMeta
  <2>2. [body |-> Gone, stale |-> TRUE] \in Meta  BY DEF Meta
  <2>3. meta' \in [Notes -> Meta \cup {Nil}]  BY <1>18, <2>2 DEF PurgeMeta, Types
  <2>4. tix' \subseteq Notes  BY <1>18 DEF PurgeMeta, Types
  <2> QED BY <1>18, <2>1, <2>3, <2>4 DEF PurgeMeta, submitter, vectors, Types
<1>19. CASE UpsertAll(w)
  <2>1. task[w] \in BodyTask  BY <1>0, <1>19, HasTask DEF UpsertAll
  <2>2. task[w].body \in Bodies /\ task[w].note \in Notes  BY <2>1, TaskFields
  <2>3. task' \in [Workers -> Tasks]  BY <1>0, <1>19, <1>a DEF UpsertAll
  <2>4. Typed(UpsertRows(vec[task[w].note], task[w].body))  BY <2>2, RowsFacts DEF Types
  <2>5. DOMAIN vec' = Notes /\ \A n \in Notes : Typed(vec'[n])  BY <1>19, <2>2, <2>4 DEF UpsertAll, Types
  <2>6. one' \in [Notes -> Bodies \cup {Gone}]  BY <1>19, <2>2 DEF UpsertAll, Types
  <2> QED BY <1>19, <2>3, <2>5, <2>6 DEF UpsertAll, submitter, purger, Types
<1>20. CASE PurgeVector(w)
  <2>1. task' \in [Workers -> Tasks]  BY <1>0, <1>20, <1>b DEF PurgeVector
  <2>2. one' \in [Notes -> Bodies \cup {Gone}]  BY <1>20 DEF PurgeVector, Types
  <2> QED BY <1>20, <2>1, <2>2 DEF PurgeVector, submitter, purger, Types
<1> QED BY <1>1, <1>2, <1>3, <1>4, <1>5, <1>6, <1>7, <1>8, <1>9, <1>10, <1>11, <1>12, <1>13, <1>14,
           <1>15, <1>16, <1>17, <1>18, <1>19, <1>20 DEF Step

\* A step of the purger's sweep.
LEMMA TypesSweep ==
  ASSUME Types, Sweep
  PROVE  Types'
<1>1. CASE SweepList
  <2>1. \A ids \in SUBSET Tombstoned : [at |-> "select", ids |-> ids] \in SweepRec
    BY DEF Tombstoned, SweepRec
  <2>2. sweep' \in SweepRec \cup {Nil}  BY <1>1, <2>1 DEF SweepList, Types
  <2> QED BY <1>1, <2>2 DEF SweepList, submitter, stores, vectors, Types
<1>2. CASE SweepSelect
  <2>1. PICK old \in Ripe(sweep.ids) : tix' = tix \ old
                                    /\ sweep' = IF old = {} THEN Nil ELSE [at |-> "delete", ids |-> old]
    BY <1>2 DEF SweepSelect
  <2>2. sweep.ids \subseteq Notes  BY <1>2 DEF SweepSelect, Types, SweepRec
  <2>3. [at |-> "delete", ids |-> old] \in SweepRec  BY <2>2 DEF Ripe, SweepRec
  <2> QED BY <1>2, <2>1, <2>3 DEF SweepSelect, submitter, stores, vectors, Types
<1>a. ASSUME NEW ids, Disturb(ids)
      PROVE  task' \in [Workers -> Tasks] /\ blame' \in [Notes -> SUBSET Causes]
  <2>1. \A t \in BodyTask \cup DeleteTask : [t EXCEPT !.alone = FALSE] \in Tasks  BY TaskEdits, Zenon DEF Tasks
  <2>2. \A v \in Workers : ~Idle(v) => [task[v] EXCEPT !.alone = FALSE] \in Tasks
    BY <2>1 DEF Types, Tasks, Idle
  <2>3. task' \in [Workers -> Tasks]  BY <1>a, <2>2 DEF Disturb, Types
  <2>4. blame' \in [Notes -> SUBSET Causes]  BY <1>a DEF Disturb, Types, Causes
  <2> QED BY <2>3, <2>4
<1>3. CASE SweepDelete
  <2>1. DOMAIN vec' = Notes /\ \A n \in Notes : Typed(vec'[n])  BY <1>3, RowsFacts DEF SweepDelete, Types
  <2>2. [sweep EXCEPT !.at = "deleteVector"] \in SweepRec  BY <1>3 DEF SweepDelete, SweepRec, Types
  <2> QED BY <1>3, <1>a, <2>1, <2>2 DEF SweepDelete, submitter, Types
<1>4. CASE SweepDeleteVector
  <2>1. one' \in [Notes -> Bodies \cup {Gone}]  BY <1>4 DEF SweepDeleteVector, Types
  <2> QED BY <1>4, <1>a, <2>1 DEF SweepDeleteVector, submitter, Types
<1>5. CASE SweepFails
  <2>1. sweep.ids \subseteq Notes  BY <1>5 DEF SweepFails, Types, SweepRec
  <2> QED BY <1>5, <2>1 DEF SweepFails, submitter, stores, vectors, Types
<1> QED BY <1>1, <1>2, <1>3, <1>4, <1>5 DEF Sweep

\* Every step keeps the types.
LEMMA TypesNext ==
  ASSUME Types, [Next]_vars
  PROVE  Types'
<1>1. CASE Next  BY <1>1, TypesSubmit, TypesStep, TypesSweep DEF Next
<1>2. CASE UNCHANGED vars  BY <1>2 DEF vars, Types, Idle
<1> QED BY <1>1, <1>2

-----------------------------------------------------------------------------
(* Slots                                                                   *)

Holders(at) == {w \in Workers : At(w, at)}

\* The holders of a semaphore are finitely many, and with the free slots they are all.
SlotsOf(free, at, all) ==
  /\ IsFiniteSet(Holders(at)) /\ free \in Nat
  /\ free + Cardinality(Holders(at)) = all

Slots == SlotsOf(embedFree, "embed", EmbedSlots) /\ SlotsOf(sumFree, "summarize", SummarySlots)

\* A goroutine takes a slot, gives one back, or leaves the semaphore alone.
SlotStep(free, new, at, w) ==
  \/ free > 0 /\ new = free - 1 /\ ~At(w, at) /\ Holders(at)' = Holders(at) \cup {w}
  \/ new = free + 1 /\ At(w, at) /\ Holders(at)' = Holders(at) \ {w}
  \/ new = free /\ Holders(at)' = Holders(at)

\* Each of the three keeps the account of the slots.
LEMMA SlotsKept ==
  ASSUME NEW free, NEW at, NEW all, NEW w \in Workers, NEW new,
         SlotsOf(free, at, all), SlotStep(free, new, at, w)
  PROVE  /\ IsFiniteSet(Holders(at)') /\ new \in Nat
         /\ new + Cardinality(Holders(at)') = all
<1> DEFINE H == Holders(at)
<1>1. Cardinality(H) \in Nat  BY FS_CardinalityType DEF SlotsOf
<1>2. CASE free > 0 /\ new = free - 1 /\ ~At(w, at) /\ Holders(at)' = H \cup {w}
  <2>1. w \notin H  BY <1>2 DEF Holders
  <2>2. IsFiniteSet(H \cup {w}) /\ Cardinality(H \cup {w}) = Cardinality(H) + 1
    BY <2>1, FS_AddElement DEF SlotsOf
  <2> QED BY <1>1, <1>2, <2>2 DEF SlotsOf
<1>3. CASE new = free + 1 /\ At(w, at) /\ Holders(at)' = H \ {w}
  <2>1. w \in H  BY <1>3 DEF Holders
  <2>2. IsFiniteSet(H \ {w}) /\ Cardinality(H \ {w}) = Cardinality(H) - 1
    BY <2>1, FS_RemoveElement DEF SlotsOf
  <2>3. Cardinality(H) - 1 \in Nat  BY <2>2, FS_CardinalityType
  <2> QED BY <1>1, <1>3, <2>2, <2>3 DEF SlotsOf
<1>4. CASE new = free /\ Holders(at)' = H  BY <1>4 DEF SlotsOf
<1> QED BY <1>2, <1>3, <1>4 DEF SlotStep

\* The goroutine w is now at a stage (or at none, when its task has ended), and no other
\* goroutine has entered or left one that holds a slot.
Moves(w, to) ==
  \A at \in {"embed", "summarize"}, v \in Workers : At(v, at)' <=> IF v = w THEN at = to ELSE At(v, at)

\* What the move means for the free slots of a semaphore.
Account(free, new, at, w, to) ==
  /\ ~At(w, at) /\ to = at => free > 0 /\ new = free - 1
  /\ At(w, at) /\ to # at => new = free + 1
  /\ (At(w, at) <=> to = at) => new = free

\* A move with the right account keeps the slots.
LEMMA SlotsMove ==
  ASSUME Slots, NEW w \in Workers, NEW to, Moves(w, to),
         Account(embedFree, embedFree', "embed", w, to), Account(sumFree, sumFree', "summarize", w, to)
  PROVE  Slots'
<1>1. ASSUME NEW free, NEW new, NEW at \in {"embed", "summarize"}, NEW all,
             SlotsOf(free, at, all), Account(free, new, at, w, to)
      PROVE  SlotStep(free, new, at, w)
  <2>1. CASE ~At(w, at) /\ to = at
    <3>1. Holders(at)' = Holders(at) \cup {w}  BY <2>1 DEF Moves, Holders
    <3> QED BY <1>1, <2>1, <3>1 DEF Account, SlotStep
  <2>2. CASE At(w, at) /\ to # at
    <3>1. Holders(at)' = Holders(at) \ {w}  BY <2>2 DEF Moves, Holders
    <3> QED BY <1>1, <2>2, <3>1 DEF Account, SlotStep
  <2>3. CASE At(w, at) <=> to = at
    <3>1. Holders(at)' = Holders(at)  BY <2>3 DEF Moves, Holders
    <3> QED BY <1>1, <2>3, <3>1 DEF Account, SlotStep
  <2> QED BY <2>1, <2>2, <2>3
<1>2. SlotStep(embedFree, embedFree', "embed", w) /\ SlotStep(sumFree, sumFree', "summarize", w)
  BY <1>1 DEF Slots
<1>3. /\ IsFiniteSet(Holders("embed")') /\ embedFree' \in Nat
      /\ embedFree' + Cardinality(Holders("embed")') = EmbedSlots
  BY <1>2, SlotsKept DEF Slots
<1>4. /\ IsFiniteSet(Holders("summarize")') /\ sumFree' \in Nat
      /\ sumFree' + Cardinality(Holders("summarize")') = SummarySlots
  BY <1>2, SlotsKept DEF Slots
<1> QED BY <1>3, <1>4 DEF Slots, SlotsOf

\* How the tasks change when one starts, proceeds, or ends.
LEMMA MoveOf ==
  ASSUME task \in [Workers -> Tasks], NEW w \in Workers
  PROVE  /\ \A t \in BodyTask \cup DeleteTask : Edited(w, t) => Moves(w, t.at)
         /\ \A t \in BodyTask \cup DeleteTask : Spawn(w, t) => Moves(w, t.at)
         /\ Edited(w, Nil) => Moves(w, "none")
         /\ End(w) => Moves(w, "none")
<1>1. \A t \in BodyTask \cup DeleteTask : Edited(w, t) => Moves(w, t.at)
  BY NilAssumption DEF Edited, Moves, At, Idle
<1>2. ASSUME NEW t \in BodyTask \cup DeleteTask, Spawn(w, t)  PROVE Moves(w, t.at)
  <2>1. \A u \in BodyTask \cup DeleteTask, a \in BOOLEAN :
          [u EXCEPT !.alone = a].at = u.at /\ [u EXCEPT !.alone = a] # Nil
    <3>1. \A u \in BodyTask, a \in BOOLEAN : [u EXCEPT !.alone = a].at = u.at  BY DEF BodyTask, TaskOf
    <3>2. \A u \in DeleteTask, a \in BOOLEAN : [u EXCEPT !.alone = a].at = u.at  BY DEF DeleteTask, TaskOf
    <3>3. \A u \in BodyTask \cup DeleteTask, a \in BOOLEAN : [u EXCEPT !.alone = a] \in BodyTask \cup DeleteTask
      BY TaskEdits, Zenon
    <3>4. \A x \in BodyTask \cup DeleteTask : x # Nil  BY NilAssumption
    <3> QED BY <3>1, <3>2, <3>3, <3>4, Zenon
  <2> DEFINE a == ~\E u \in Workers \ {w} : ~Idle(u) /\ Rival(t, task[u])
             T == [t EXCEPT !.alone = a]
  <2>2. T.at = t.at /\ T # Nil  BY <2>1
  <2>3. \A v \in Workers : ~Idle(v) =>
          [task[v] EXCEPT !.alone = FALSE].at = task[v].at /\ [task[v] EXCEPT !.alone = FALSE] # Nil
    <3>1. \A v \in Workers : ~Idle(v) => task[v] \in BodyTask \cup DeleteTask  BY DEF Idle, Tasks
    <3> QED BY <2>1, <3>1
  <2>4. task'[w] = T /\ \A v \in Workers \ {w} :
          \/ task'[v] = task[v]
          \/ ~Idle(v) /\ task'[v] = [task[v] EXCEPT !.alone = FALSE]
    BY <1>2 DEF Spawn
  <2> HIDE DEF T
  <2>5. \A v \in Workers \ {w} : (task'[v] = Nil <=> task[v] = Nil) /\ (task[v] # Nil => task'[v].at = task[v].at)
    BY <2>3, <2>4 DEF Idle
  <2> QED BY <2>2, <2>4, <2>5 DEF Moves, At, Idle
<1>3. Edited(w, Nil) => Moves(w, "none")  BY DEF Edited, Moves, At, Idle
<1>4. ASSUME End(w)  PROVE Moves(w, "none")
  <2>1. \A v \in Workers : task'[v] = IF v = w \/ (task[w].at # "check" /\ v \in Followers(w)) THEN Nil ELSE task[v]
    BY <1>4 DEF End
  <2>2. \A v \in Workers, at \in {"embed", "summarize"} : At(v, at) => v \notin Followers(w)
    BY DEF Followers, At
  <2> QED BY <2>1, <2>2 DEF Moves, At, Idle
<1> QED BY <1>1, <1>2, <1>3, <1>4

\* A task's stage, to and from which it goes, are known when it takes a step.
LEMMA GotoMove ==
  ASSUME task \in [Workers -> Tasks], NEW w \in Workers, NEW from, At(w, from), NEW to, Goto(w, to),
         (from \in BodyStages /\ to \in BodyStages) \/ (from \in DeleteStages /\ to \in DeleteStages)
  PROVE  Moves(w, to)
<1> DEFINE T == [task[w] EXCEPT !.at = to]
<1>1. CASE from \in BodyStages /\ to \in BodyStages
  <2>1. task[w] \in BodyTask  BY <1>1, HasTask
  <2>2. T \in BodyTask /\ T.at = to  BY <1>1, <2>1, TaskEdits DEF BodyTask, TaskOf
  <2>3. Edited(w, T)  BY DEF Goto, Edited
  <2> HIDE DEF T
  <2> QED BY <2>2, <2>3, MoveOf
<1>2. CASE from \in DeleteStages /\ to \in DeleteStages
  <2>1. task[w] \in DeleteTask  BY <1>2, HasTask
  <2>2. T \in DeleteTask /\ T.at = to  BY <1>2, <2>1, TaskEdits DEF DeleteTask, TaskOf
  <2>3. Edited(w, T)  BY DEF Goto, Edited
  <2> HIDE DEF T
  <2> QED BY <2>2, <2>3, MoveOf
<1> QED BY <1>1, <1>2

\* A goroutine that neither holds a slot nor gets one.
LEMMA SlotsUnmoved ==
  ASSUME Slots, NEW w \in Workers, NEW to, Moves(w, to), to \notin {"embed", "summarize"},
         ~At(w, "embed"), ~At(w, "summarize"), UNCHANGED slots
  PROVE  Slots'
BY SlotsMove DEF Account, slots

\* The slots are accounted for after a step of a goroutine.
LEMMA SlotsStep ==
  ASSUME Types, Slots, NEW w \in Workers, Step(w)
  PROVE  Slots'
<1> USE Stages
<1>0. task \in [Workers -> Tasks]  BY DEF Types
<1>e. End(w) => Moves(w, "none")  BY <1>0, MoveOf
<1>n. task' = [task EXCEPT ![w] = Nil] => Moves(w, "none")  BY <1>0, MoveOf DEF Edited
<1>1. CASE TimerLock(w)
  <2> DEFINE T == [task[w] EXCEPT !.at = "check", !.seq = 0]
  <2>1. task[w] \in BodyTask  BY <1>0, <1>1, HasTask DEF TimerLock
  <2>2. T \in BodyTask /\ T.at = "check"  BY <2>1, TaskEdits DEF BodyTask, TaskOf
  <2>3. task' = [task EXCEPT ![w] = Nil] \/ Spawn(w, T)  BY <1>1 DEF TimerLock
  <2> HIDE DEF T
  <2>4. Moves(w, "none") \/ Moves(w, "check")  BY <1>0, <1>n, <2>2, <2>3, MoveOf
  <2> QED BY <1>1, <2>4, SlotsUnmoved DEF TimerLock
<1>2. CASE ProcessFrontmatter(w)
  <2>1. Moves(w, "none") \/ Moves(w, "check")  BY <1>0, <1>n, <1>2, GotoMove DEF ProcessFrontmatter
  <2> QED BY <1>2, <2>1, SlotsUnmoved DEF ProcessFrontmatter
<1>3. CASE ProcessBodySkip(w)  BY <1>3, <1>e, SlotsUnmoved DEF ProcessBodySkip
<1>4. CASE ProcessBody(w)
  <2>1. Moves(w, "follow") \/ Moves(w, "acquire")  BY <1>0, <1>4, GotoMove DEF ProcessBody
  <2> QED BY <1>4, <2>1, SlotsUnmoved DEF ProcessBody
<1>5. CASE AcquireEmbed(w)
  <2>1. Moves(w, "embed")  BY <1>0, <1>5, GotoMove DEF AcquireEmbed
  <2> QED BY <1>5, <2>1, SlotsMove DEF AcquireEmbed, Account
<1>6. CASE AcquireSummary(w)
  <2>1. Moves(w, "summarize")  BY <1>0, <1>6, GotoMove DEF AcquireSummary
  <2> QED BY <1>6, <2>1, SlotsMove DEF AcquireSummary, Account
<1>7. CASE GiveUpAcquire(w)  BY <1>7, <1>e, SlotsUnmoved DEF GiveUpAcquire, Fail
<1>8. CASE Retry(w)
  <2> DEFINE T == [task[w] EXCEPT !.tries = task[w].tries + 1]
  <2>1. task[w] \in BodyTask  BY <1>0, <1>8, HasTask DEF Retry
  <2>2. task[w].tries + 1 \in 0..(MaxAttempts - 1)  BY <1>8, <2>1, TaskFields, PipelineAssumption DEF Retry
  <2>3. T \in BodyTask /\ T.at = task[w].at  BY <2>1, <2>2, TaskEdits DEF BodyTask, TaskOf
  <2>4. Edited(w, T)  BY <1>8 DEF Retry, Edited
  <2> HIDE DEF T
  <2>5. Moves(w, task[w].at)  BY <1>0, <2>3, <2>4, MoveOf
  <2>6. Account(embedFree, embedFree', "embed", w, task[w].at)
        /\ Account(sumFree, sumFree', "summarize", w, task[w].at)
    BY <1>8 DEF Retry, Account, At, slots
  <2> QED BY <2>5, <2>6, SlotsMove
<1>a. ASSUME Moves(w, "none"), Release(w)  PROVE Slots'
  BY <1>a, SlotsMove DEF Release, Account
<1>9. CASE GiveUp(w)  BY <1>9, <1>e, <1>a DEF GiveUp, Fail
<1>b. ASSUME NEW to \in {"upsert", "set"}, Moves(w, to), Release(w)  PROVE Slots'
  BY <1>b, SlotsMove DEF Release, Account
<1>10. CASE Embed(w)
  <2> DEFINE T == [task[w] EXCEPT !.at = "upsert", !.tries = 0]
  <2>1. task[w] \in BodyTask /\ 0 \in 0..(MaxAttempts - 1)
    BY <1>0, <1>10, HasTask, PipelineAssumption DEF Embed
  <2>2. T \in BodyTask /\ T.at = "upsert"  BY <2>1, TaskEdits DEF BodyTask, TaskOf
  <2>3. Edited(w, T)  BY <1>10 DEF Embed, Edited
  <2> HIDE DEF T
  <2> QED BY <1>0, <1>10, <1>b, <2>2, <2>3, MoveOf DEF Embed
<1>11. CASE Upsert(w)
  <2> DEFINE T == [task[w] EXCEPT !.chunk = task[w].chunk + 1]
             U == [task[w] EXCEPT !.at = "acquireSummary", !.chunk = 1]
  <2>1. task[w] \in BodyTask /\ task[w].at = "upsert"  BY <1>0, <1>11, HasTask DEF Upsert
  <2>2. task[w].chunk + 1 \in Nat \ {0} /\ 1 \in Nat \ {0}  BY <2>1, TaskFields
  <2>3. T \in BodyTask /\ T.at = "upsert"  BY <2>1, <2>2, TaskEdits DEF BodyTask, TaskOf
  <2>4. U \in BodyTask /\ U.at = "acquireSummary"  BY <2>1, <2>2, TaskEdits DEF BodyTask, TaskOf
  <2>5. Edited(w, T) \/ Edited(w, U)  BY <1>11 DEF Upsert, Edited
  <2> HIDE DEF T, U
  <2>6. Moves(w, "upsert") \/ Moves(w, "acquireSummary")  BY <1>0, <2>3, <2>4, <2>5, MoveOf
  <2> QED BY <1>11, <2>6, SlotsUnmoved DEF Upsert
<1>12. CASE Summarize(w)
  <2> DEFINE T == [task[w] EXCEPT !.at = "set", !.tries = 0]
  <2>1. task[w] \in BodyTask /\ 0 \in 0..(MaxAttempts - 1)
    BY <1>0, <1>12, HasTask, PipelineAssumption DEF Summarize
  <2>2. T \in BodyTask /\ T.at = "set"  BY <2>1, TaskEdits DEF BodyTask, TaskOf
  <2>3. Edited(w, T)  BY <1>12 DEF Summarize, Edited
  <2> HIDE DEF T
  <2> QED BY <1>0, <1>12, <1>b, <2>2, <2>3, MoveOf DEF Summarize
<1>13. CASE SetDerived(w)  BY <1>13, <1>e, SlotsUnmoved DEF SetDerived
<1>14. CASE StoreFails(w)  BY <1>14, <1>e, SlotsUnmoved DEF StoreFails, Fail
<1>15. CASE Tombstone(w)
  <2>1. Moves(w, "record")  BY <1>0, <1>15, GotoMove DEF Tombstone
  <2> QED BY <1>15, <2>1, SlotsUnmoved DEF Tombstone
<1>16. CASE TombstoneRecord(w)  BY <1>16, <1>e, SlotsUnmoved DEF TombstoneRecord
<1>17. CASE PurgeVectors(w)
  <2>1. Moves(w, "purgeVector") \/ Moves(w, "purgeMeta")  BY <1>0, <1>17, GotoMove DEF PurgeVectors
  <2> QED BY <1>17, <2>1, SlotsUnmoved DEF PurgeVectors
<1>18. CASE PurgeMeta(w)  BY <1>18, <1>e, SlotsUnmoved DEF PurgeMeta, vectors
<1>19. CASE UpsertAll(w)
  <2>1. Moves(w, "acquireSummary")  BY <1>0, <1>19, GotoMove DEF UpsertAll
  <2> QED BY <1>19, <2>1, SlotsUnmoved DEF UpsertAll
<1>20. CASE PurgeVector(w)
  <2>1. Moves(w, "purgeMeta")  BY <1>0, <1>20, GotoMove DEF PurgeVector
  <2> QED BY <1>20, <2>1, SlotsUnmoved DEF PurgeVector
<1> QED BY <1>1, <1>2, <1>3, <1>4, <1>5, <1>6, <1>7, <1>8, <1>9, <1>10, <1>11, <1>12, <1>13, <1>14,
           <1>15, <1>16, <1>17, <1>18, <1>19, <1>20 DEF Step

\* Nobody's stage changes, and no slot is taken or given back.
LEMMA SlotsFrame ==
  ASSUME Slots, UNCHANGED slots, \A v \in Workers : \A at : At(v, at)' <=> At(v, at)
  PROVE  Slots'
<1>1. Holders("embed")' = Holders("embed") /\ Holders("summarize")' = Holders("summarize")
  BY DEF Holders
<1> QED BY <1>1 DEF Slots, SlotsOf, slots

\* The slots are accounted for after every step.
LEMMA SlotsNext ==
  ASSUME Types, Slots, [Next]_vars
  PROVE  Slots'
<1>0. task \in [Workers -> Tasks]  BY DEF Types
<1>1. ASSUME NEW w \in Workers, NEW t \in BodyTask \cup DeleteTask, Idle(w),
             t.at \in {"front", "tombstone", "purge", "timer"}, UNCHANGED slots,
             Spawn(w, t) \/ task' = [task EXCEPT ![w] = t]
      PROVE  Slots'
  <2>1. Moves(w, t.at)  BY <1>0, <1>1, MoveOf DEF Edited
  <2> QED BY <1>1, <2>1, SlotsUnmoved DEF At
<1>2. ASSUME task' = task, UNCHANGED slots  PROVE Slots'
  <2>1. \A v \in Workers : \A at : At(v, at)' <=> At(v, at)  BY <1>2 DEF At, Idle
  <2> QED BY <1>2, <2>1, SlotsFrame
<1>3. ASSUME NEW n \in Notes, NEW b \in Bodies, SubmitBody(n, b)  PROVE Slots'
  BY <1>2, <1>3 DEF SubmitBody
<1>4. ASSUME NEW n \in Notes, NEW w \in Workers, SubmitFrontmatter(w, n)  PROVE Slots'
  <2> DEFINE T == Task("body", "front", n, cur[n], 0)
  <2>1. T \in BodyTask /\ T.at = "front"  BY <1>4, NewTasks DEF SubmitFrontmatter, Types, Task
  <2>2. Spawn(w, T) /\ Idle(w) /\ UNCHANGED slots  BY <1>4 DEF SubmitFrontmatter
  <2> HIDE DEF T
  <2> QED BY <1>1, <2>1, <2>2
<1>5. ASSUME NEW n \in Notes, NEW w \in Workers, SubmitDelete(w, n)  PROVE Slots'
  <2> DEFINE T == Task("delete", "tombstone", n, Gone, 0)
  <2>1. T \in DeleteTask /\ T.at = "tombstone"  BY PipelineAssumption, NewTasks DEF Task
  <2>2. Spawn(w, T) /\ Idle(w) /\ UNCHANGED slots  BY <1>5 DEF SubmitDelete
  <2> HIDE DEF T
  <2> QED BY <1>1, <2>1, <2>2
<1>6. ASSUME NEW n \in Notes, NEW w \in Workers, Purge(w, n)  PROVE Slots'
  <2> DEFINE T == Task("delete", "purge", n, Gone, 0)
  <2>1. T \in DeleteTask /\ T.at = "purge"  BY PipelineAssumption, NewTasks DEF Task
  <2>2. Spawn(w, T) /\ Idle(w) /\ UNCHANGED slots  BY <1>6 DEF Purge
  <2> HIDE DEF T
  <2> QED BY <1>1, <2>1, <2>2
<1>7. ASSUME NEW n \in Notes, NEW w \in Workers, Fire(w, n)  PROVE Slots'
  <2>1. PICK x \in timers[n] : task' = [task EXCEPT ![w] = Task("body", "timer", n, x.body, x.seq)]
    BY <1>7 DEF Fire
  <2> DEFINE T == Task("body", "timer", n, x.body, x.seq)
  <2>2. x.body \in Bodies /\ x.seq \in Nat  BY DEF Types, Timer
  <2>3. T \in BodyTask /\ T.at = "timer"  BY <2>2, NewTasks DEF Task
  <2>4. task' = [task EXCEPT ![w] = T] /\ Idle(w) /\ UNCHANGED slots  BY <1>7, <2>1 DEF Fire
  <2> HIDE DEF T
  <2> QED BY <1>1, <2>3, <2>4
<1>9. CASE Close  BY <1>2, <1>9 DEF Close
<1>10. CASE SweepList \/ SweepSelect \/ SweepFails
  BY <1>2, <1>10 DEF SweepList, SweepSelect, SweepFails
<1>11. ASSUME NEW ids, Disturb(ids), UNCHANGED slots  PROVE Slots'
  <2>1. \A v \in Workers : ~Idle(v) => task[v] \in BodyTask \cup DeleteTask  BY <1>0 DEF Tasks, Idle
  <2>2. \A t \in BodyTask \cup DeleteTask :
          [t EXCEPT !.alone = FALSE].at = t.at /\ [t EXCEPT !.alone = FALSE] # Nil
    <3>1. \A u \in BodyTask : [u EXCEPT !.alone = FALSE].at = u.at  BY DEF BodyTask, TaskOf
    <3>2. \A u \in DeleteTask : [u EXCEPT !.alone = FALSE].at = u.at  BY DEF DeleteTask, TaskOf
    <3>3. \A u \in BodyTask \cup DeleteTask : [u EXCEPT !.alone = FALSE] \in BodyTask \cup DeleteTask
      BY TaskEdits, Zenon
    <3>4. \A x \in BodyTask \cup DeleteTask : x # Nil  BY NilAssumption
    <3> QED BY <3>1, <3>2, <3>3, <3>4, Zenon
  <2>3. \A v \in Workers : \/ task'[v] = task[v]
                           \/ ~Idle(v) /\ task'[v] = [task[v] EXCEPT !.alone = FALSE]
    BY <1>11 DEF Disturb
  <2>4. \A v \in Workers : (task'[v] = Nil <=> task[v] = Nil) /\ (task[v] # Nil => task'[v].at = task[v].at)
    BY <2>1, <2>2, <2>3 DEF Idle
  <2>5. \A v \in Workers : \A at : At(v, at)' <=> At(v, at)  BY <2>4 DEF At, Idle
  <2> QED BY <1>11, <2>5, SlotsFrame
<1>12. CASE SweepDelete \/ SweepDeleteVector  BY <1>11, <1>12 DEF SweepDelete, SweepDeleteVector
<1>13. CASE UNCHANGED vars  BY <1>2, <1>13 DEF vars, slots
<1> QED BY <1>3, <1>4, <1>5, <1>6, <1>7, <1>9, <1>10, <1>12, <1>13, SlotsStep
        DEF Next, Submit, Timers, Sweep

\* At the start every slot is free.
LEMMA SlotsInit == Init => Slots
<1> SUFFICES ASSUME Init  PROVE Slots  OBVIOUS
<1>1. Holders("embed") = {} /\ Holders("summarize") = {}  BY DEF Init, Holders, At, Idle
<1>2. IsFiniteSet({}) /\ Cardinality({}) = 0  BY FS_EmptySet
<1>3. EmbedSlots \in Nat /\ SummarySlots \in Nat  BY PipelineAssumption
<1>4. embedFree = EmbedSlots /\ sumFree = SummarySlots  BY DEF Init
<1>5. IsFiniteSet(Holders("embed")) /\ IsFiniteSet(Holders("summarize"))  BY <1>1, <1>2
<1>6. Cardinality(Holders("embed")) = 0 /\ Cardinality(Holders("summarize")) = 0  BY <1>1, <1>2
<1>7. embedFree + Cardinality(Holders("embed")) = EmbedSlots  BY <1>3, <1>4, <1>6
<1>8. sumFree + Cardinality(Holders("summarize")) = SummarySlots  BY <1>3, <1>4, <1>6
<1> QED BY <1>3, <1>4, <1>5, <1>7, <1>8 DEF Slots, SlotsOf

\* The types and the slots are what TypeOK says.
LEMMA TypesSlotsOK == Types /\ Slots => TypeOK
<1> SUFFICES ASSUME Types, Slots  PROVE TypeOK  OBVIOUS
<1>1. /\ embedFree \in 0..EmbedSlots /\ embedFree + Holding("embed") = EmbedSlots
      /\ sumFree \in 0..SummarySlots /\ sumFree + Holding("summarize") = SummarySlots
  <2>1. Cardinality(Holders("embed")) \in Nat /\ Cardinality(Holders("summarize")) \in Nat
    BY FS_CardinalityType DEF Slots, SlotsOf
  <2>2. Holding("embed") = Cardinality(Holders("embed"))
        /\ Holding("summarize") = Cardinality(Holders("summarize"))
    BY DEF Holding, Holders
  <2> QED BY <2>1, <2>2, PipelineAssumption DEF Slots, SlotsOf
<1>2. \A n \in Notes : \A c \in Rows(n) : vec[n][c] \in [body : Bodies, dead : BOOLEAN]
  BY DEF Types, Typed, Row, Rows
<1> QED BY <1>1, <1>2 DEF Types, TypeOK, Tasks

\* Every variable of the pipeline, the stores and the purger has its type, and every slot
\* of the two semaphores is free or held by a goroutine that embeds or summarises: no
\* error path loses a slot or gives one back twice.
THEOREM PipelineTypeCorrect == Spec => []TypeOK
<1>1. Init => Types /\ Slots  BY TypesInit, SlotsInit
<1>2. Types /\ Slots /\ [Next]_vars => (Types /\ Slots)'  BY TypesNext, SlotsNext
<1>3. Types /\ Slots => TypeOK  BY TypesSlotsOK
<1> QED BY <1>1, <1>2, <1>3, PTL DEF Spec

-----------------------------------------------------------------------------
(* What a step does to the tasks                                           *)

\* A goroutine of whose task another step changes at most that it is alone, or ends it.
Unhurt(v) ==
  \/ task'[v] = Nil
  \/ /\ task[v] # Nil /\ task'[v] # Nil
     /\ task'[v].note = task[v].note /\ task'[v].kind = task[v].kind /\ task'[v].body = task[v].body
     /\ task'[v].at = task[v].at /\ task'[v].seq = task[v].seq /\ task'[v].chunk = task[v].chunk
     /\ task'[v].alone => task[v].alone

\* A goroutine that goes on with its task.
Goes(w, to) ==
  /\ task[w] # Nil /\ task'[w] # Nil
  /\ task'[w].note = task[w].note /\ task'[w].kind = task[w].kind /\ task'[w].body = task[w].body
  /\ task'[w].alone = task[w].alone /\ task'[w].at = to

Others(w) == \A v \in Workers \ {w} : Unhurt(v)
Rest(w) == \A v \in Workers \ {w} : task'[v] = task[v]
content == <<cur, debounce, store, vec, one, meta>>
still == <<content, blame>>

\* A step that only takes a task from one stage to another: the first stages leave the
\* timer behind, the rows are written between "embed" and "acquireSummary".
Progress(w) ==
  /\ UNCHANGED still /\ Rest(w)
  /\ \E to \in {"check", "follow", "acquire", "embed", "upsert", "summarize", "set"} :
       /\ Goes(w, to) /\ task'[w].chunk = task[w].chunk
       /\ to = "upsert" => task[w].at = "embed"
       /\ to \in {"summarize", "set"} => task[w].at \in {"acquireSummary", "summarize"}
  /\ task[w] \in BodyTask /\ task[w].at \notin {"timer", "upsert"}

\* One task changes and the others do not.
LEMMA EditFacts ==
  ASSUME task \in [Workers -> Tasks], NEW w \in Workers, NEW t \in Tasks, Edited(w, t)
  PROVE  Others(w) /\ Rest(w) /\ task'[w] = t
BY DEF Others, Rest, Unhurt, Edited, Tasks

\* A task starts; the others may no longer be alone.
LEMMA SpawnFacts ==
  ASSUME task \in [Workers -> Tasks], NEW w \in Workers, NEW t \in BodyTask \cup DeleteTask, Spawn(w, t)
  PROVE  /\ Others(w)
         /\ \A v \in Workers \ {w} : task[v] # Nil => task'[v] # Nil
         /\ task'[w] # Nil /\ task'[w].note = t.note /\ task'[w].kind = t.kind /\ task'[w].body = t.body
         /\ task'[w].at = t.at /\ task'[w].chunk = t.chunk
         /\ task'[w].alone => \A u \in Workers \ {w} : task[u] # Nil => ~Rival(t, task[u])
         /\ \A v \in Workers \ {w} : task[v] # Nil /\ Rival(t, task[v]) => ~task'[v].alone
<1>1. \A u \in BodyTask \cup DeleteTask, a \in BOOLEAN :
        LET x == [u EXCEPT !.alone = a]
        IN /\ x # Nil /\ x.note = u.note /\ x.kind = u.kind /\ x.body = u.body /\ x.at = u.at
           /\ x.seq = u.seq /\ x.chunk = u.chunk /\ x.alone = a
  <2>1. \A u \in BodyTask, a \in BOOLEAN :
          LET x == [u EXCEPT !.alone = a]
          IN /\ x.note = u.note /\ x.kind = u.kind /\ x.body = u.body /\ x.at = u.at
             /\ x.seq = u.seq /\ x.chunk = u.chunk /\ x.alone = a
    BY DEF BodyTask, TaskOf
  <2>2. \A u \in DeleteTask, a \in BOOLEAN :
          LET x == [u EXCEPT !.alone = a]
          IN /\ x.note = u.note /\ x.kind = u.kind /\ x.body = u.body /\ x.at = u.at
             /\ x.seq = u.seq /\ x.chunk = u.chunk /\ x.alone = a
    BY DEF DeleteTask, TaskOf
  <2>3. \A u \in BodyTask \cup DeleteTask, a \in BOOLEAN : [u EXCEPT !.alone = a] # Nil
    <3>1. \A u \in BodyTask \cup DeleteTask, a \in BOOLEAN : [u EXCEPT !.alone = a] \in BodyTask \cup DeleteTask
      BY TaskEdits, Zenon
    <3>2. \A x \in BodyTask \cup DeleteTask : x # Nil  BY NilAssumption
    <3> QED BY <3>1, <3>2, Zenon
  <2> QED BY <2>1, <2>2, <2>3, Zenon
<1> DEFINE Alone == ~\E u \in Workers \ {w} : ~Idle(u) /\ Rival(t, task[u])
           T == [t EXCEPT !.alone = Alone]
           X(v) == [task[v] EXCEPT !.alone = FALSE]
<1>2. /\ T # Nil /\ T.note = t.note /\ T.kind = t.kind /\ T.body = t.body /\ T.at = t.at
      /\ T.chunk = t.chunk /\ T.alone = Alone
  BY <1>1
<1>3. \A v \in Workers : task[v] # Nil => task[v] \in BodyTask \cup DeleteTask  BY DEF Tasks
<1>4. \A v \in Workers : task[v] # Nil =>
        /\ X(v) # Nil /\ X(v).note = task[v].note /\ X(v).kind = task[v].kind /\ X(v).body = task[v].body
        /\ X(v).at = task[v].at /\ X(v).seq = task[v].seq /\ X(v).chunk = task[v].chunk /\ X(v).alone = FALSE
  BY <1>1, <1>3
<1>5. /\ task'[w] = T
      /\ \A v \in Workers \ {w} :
           task'[v] = IF task[v] # Nil /\ Rival(t, task[v]) THEN X(v) ELSE task[v]
  BY DEF Spawn, Idle
<1> HIDE DEF T, X
<1>6. Others(w)  BY <1>4, <1>5 DEF Others, Unhurt
<1>7. Alone <=> \A u \in Workers \ {w} : task[u] # Nil => ~Rival(t, task[u])  BY DEF Idle
<1> QED BY <1>2, <1>4, <1>5, <1>6, <1>7

\* A task ends, with those that wait for it.
LEMMA EndFacts ==
  ASSUME task \in [Workers -> Tasks], NEW w \in Workers, End(w)
  PROVE  /\ Others(w) /\ task'[w] = Nil
         /\ \A v \in Workers : task'[v] = task[v] \/ task'[v] = Nil
         /\ \A v \in Workers \ {w} : task[v] # Nil /\ task'[v] = Nil =>
              /\ task[w].at # "check" /\ task[v].at = "follow"
              /\ task[v].note = task[w].note /\ task[v].body = task[w].body
BY DEF End, Others, Unhurt, Followers, At

\* A goroutine whose task is no longer wanted ends it: its timer was replaced, or the
\* frontmatter changed of a note that is not stale.
Drops(w) ==
  /\ UNCHANGED still /\ Rest(w) /\ task'[w] = Nil
  /\ \/ At(w, "timer") /\ ~Current(debounce[task[w].note], task[w].seq)
     \/ At(w, "front")

\* A timer has run out and the work on its body begins.
Starts(w) ==
  /\ At(w, "timer") /\ Current(debounce[task[w].note], task[w].seq)
  /\ debounce' = [debounce EXCEPT ![task[w].note] = Nil]
  /\ Spawn(w, [task[w] EXCEPT !.at = "check", !.seq = 0])
  /\ IF cur[task[w].note] = Gone THEN Blame(task[w].note, "revived")
     ELSE IF Reused(debounce[task[w].note], task[w]) THEN Blame(task[w].note, "reused")
     ELSE UNCHANGED blame
  /\ UNCHANGED <<cur, store, vec, one, meta>>

\* A task fails, and is to blame for it.
Fails(w) == ~Idle(w) /\ ~At(w, "timer") /\ ~At(w, "front") /\ Fail(w) /\ UNCHANGED content

\* The edits of a task that take it further.
LEMMA ProgressFacts ==
  ASSUME task \in [Workers -> Tasks], NEW w \in Workers, UNCHANGED still
  PROVE  /\ At(w, "front") /\ Goto(w, "check") => Progress(w)
         /\ At(w, "check") /\ (Goto(w, "follow") \/ Goto(w, "acquire")) => Progress(w)
         /\ At(w, "acquire") /\ Goto(w, "embed") => Progress(w)
         /\ At(w, "acquireSummary") /\ Goto(w, "summarize") => Progress(w)
         /\ At(w, "embed") /\ task' = [task EXCEPT ![w].at = "upsert", ![w].tries = 0] => Progress(w)
         /\ At(w, "summarize") /\ task' = [task EXCEPT ![w].at = "set", ![w].tries = 0] => Progress(w)
         /\ Retry(w) => Progress(w)
<1> USE Stages
<1>1. ASSUME NEW from, NEW to, At(w, from), Goto(w, to),
             <<from, to>> \in {<<"front", "check">>, <<"check", "follow">>, <<"check", "acquire">>,
                               <<"acquire", "embed">>, <<"acquireSummary", "summarize">>}
      PROVE  Progress(w)
  <2> DEFINE T == [task[w] EXCEPT !.at = to]
  <2>1. from \in BodyStages /\ to \in BodyStages  BY <1>1
  <2>2. task[w] \in BodyTask /\ task[w] # Nil /\ task[w].at = from  BY <1>1, <2>1, HasTask
  <2>3. /\ T \in BodyTask /\ T.at = to /\ T.note = task[w].note /\ T.kind = task[w].kind
        /\ T.body = task[w].body /\ T.alone = task[w].alone /\ T.chunk = task[w].chunk
    BY <2>1, <2>2, TaskEdits DEF BodyTask, TaskOf
  <2>4. Edited(w, T)  BY <1>1 DEF Goto, Edited
  <2> HIDE DEF T
  <2>5. Rest(w) /\ task'[w] = T /\ T # Nil  BY <2>3, <2>4, EditFacts, NilAssumption DEF Tasks
  <2>6. Goes(w, to) /\ task'[w].chunk = task[w].chunk  BY <2>2, <2>3, <2>5 DEF Goes
  <2> QED BY <1>1, <2>2, <2>5, <2>6 DEF Progress
<1>2. ASSUME NEW from, NEW to, At(w, from), task' = [task EXCEPT ![w].at = to, ![w].tries = 0],
             <<from, to>> \in {<<"embed", "upsert">>, <<"summarize", "set">>}
      PROVE  Progress(w)
  <2> DEFINE T == [task[w] EXCEPT !.at = to, !.tries = 0]
  <2>1. from \in BodyStages /\ to \in BodyStages  BY <1>2
  <2>2. task[w] \in BodyTask /\ task[w] # Nil /\ task[w].at = from  BY <1>2, <2>1, HasTask
  <2>a. 0 \in 0..(MaxAttempts - 1)  BY PipelineAssumption
  <2>3. /\ T \in BodyTask /\ T.at = to /\ T.note = task[w].note /\ T.kind = task[w].kind
        /\ T.body = task[w].body /\ T.alone = task[w].alone /\ T.chunk = task[w].chunk
    BY <2>1, <2>2, <2>a, TaskEdits DEF BodyTask, TaskOf
  <2>4. Edited(w, T)  BY <1>2 DEF Edited
  <2> HIDE DEF T
  <2>5. Rest(w) /\ task'[w] = T /\ T # Nil  BY <2>3, <2>4, EditFacts, NilAssumption DEF Tasks
  <2>6. Goes(w, to) /\ task'[w].chunk = task[w].chunk  BY <2>2, <2>3, <2>5 DEF Goes
  <2> QED BY <1>2, <2>2, <2>5, <2>6 DEF Progress
<1>3. ASSUME Retry(w)  PROVE Progress(w)
  <2> DEFINE T == [task[w] EXCEPT !.tries = task[w].tries + 1]
  <2>1. task[w] \in BodyTask /\ task[w] # Nil /\ task[w].at \in {"embed", "summarize"}
    BY <1>3, HasTask DEF Retry
  <2>2. task[w].tries + 1 \in 0..(MaxAttempts - 1)  BY <1>3, <2>1, TaskFields, PipelineAssumption DEF Retry
  <2>3. /\ T \in BodyTask /\ T.at = task[w].at /\ T.note = task[w].note /\ T.kind = task[w].kind
        /\ T.body = task[w].body /\ T.alone = task[w].alone /\ T.chunk = task[w].chunk
    BY <2>1, <2>2, TaskEdits DEF BodyTask, TaskOf
  <2>4. Edited(w, T)  BY <1>3 DEF Retry, Edited
  <2> HIDE DEF T
  <2>5. Rest(w) /\ task'[w] = T /\ T # Nil  BY <2>3, <2>4, EditFacts, NilAssumption DEF Tasks
  <2>6. Goes(w, task[w].at) /\ task'[w].chunk = task[w].chunk  BY <2>1, <2>3, <2>5 DEF Goes
  <2> QED BY <2>1, <2>5, <2>6 DEF Progress
<1> QED BY <1>1, <1>2, <1>3

\* The steps of a goroutine, by what they do to its task.
LEMMA StepCases ==
  ASSUME Types, NEW w \in Workers, Step(w)
  PROVE  \/ Drops(w) \/ Starts(w) \/ Progress(w) \/ Fails(w)
         \/ ProcessBodySkip(w) \/ Upsert(w) \/ UpsertAll(w) \/ SetDerived(w)
         \/ Tombstone(w) \/ TombstoneRecord(w) \/ PurgeVectors(w) \/ PurgeVector(w) \/ PurgeMeta(w)
<1> USE Stages
<1>0. task \in [Workers -> Tasks] /\ Nil \in Tasks  BY DEF Types, Tasks
<1>n. task' = [task EXCEPT ![w] = Nil] => Rest(w) /\ task'[w] = Nil  BY <1>0, EditFacts DEF Edited
<1>1. CASE TimerLock(w)
  <2>1. \/ /\ ~Current(debounce[task[w].note], task[w].seq)
           /\ task' = [task EXCEPT ![w] = Nil] /\ UNCHANGED <<debounce, blame>>
        \/ Starts(w)
    BY <1>1 DEF TimerLock, Starts, stores, vectors
  <2> QED BY <1>n, <1>1, <2>1 DEF TimerLock, Drops, still, content, stores, vectors
<1>2. CASE ProcessFrontmatter(w)
  <2>1. UNCHANGED still  BY <1>2 DEF ProcessFrontmatter, still, content, submitter, stores, vectors
  <2>2. At(w, "front") /\ (Goto(w, "check") \/ task' = [task EXCEPT ![w] = Nil])
    BY <1>2 DEF ProcessFrontmatter
  <2> QED BY <1>0, <1>n, <2>1, <2>2, ProgressFacts DEF Drops
<1>4. CASE ProcessBody(w)
  <2>1. UNCHANGED still  BY <1>4 DEF ProcessBody, still, content, submitter, stores, vectors
  <2>2. At(w, "check") /\ (Goto(w, "follow") \/ Goto(w, "acquire"))  BY <1>4 DEF ProcessBody
  <2> QED BY <1>0, <2>1, <2>2, ProgressFacts
<1>5. CASE AcquireEmbed(w)
  <2>1. UNCHANGED still  BY <1>5 DEF AcquireEmbed, still, content, submitter, stores, vectors
  <2> QED BY <1>0, <1>5, <2>1, ProgressFacts DEF AcquireEmbed
<1>6. CASE AcquireSummary(w)
  <2>1. UNCHANGED still  BY <1>6 DEF AcquireSummary, still, content, submitter, stores, vectors
  <2> QED BY <1>0, <1>6, <2>1, ProgressFacts DEF AcquireSummary
<1>7. CASE GiveUpAcquire(w)
  BY <1>7 DEF GiveUpAcquire, Fails, At, content, submitter, stores, vectors
<1>8. CASE Retry(w)
  <2>1. UNCHANGED still  BY <1>8 DEF Retry, still, content, submitter, stores, vectors
  <2> QED BY <1>0, <1>8, <2>1, ProgressFacts
<1>9. CASE GiveUp(w)
  BY <1>9 DEF GiveUp, Fails, At, content, submitter, stores, vectors
<1>10. CASE Embed(w)
  <2>1. UNCHANGED still  BY <1>10 DEF Embed, still, content, submitter, stores, vectors
  <2> QED BY <1>0, <1>10, <2>1, ProgressFacts DEF Embed
<1>12. CASE Summarize(w)
  <2>1. UNCHANGED still  BY <1>12 DEF Summarize, still, content, submitter, stores, vectors
  <2> QED BY <1>0, <1>12, <2>1, ProgressFacts DEF Summarize
<1>14. CASE StoreFails(w)
  BY <1>14 DEF StoreFails, Fails, At, content, submitter, stores, vectors
<1> QED BY <1>1, <1>2, <1>4, <1>5, <1>6, <1>7, <1>8, <1>9, <1>10, <1>12, <1>14 DEF Step

-----------------------------------------------------------------------------
(* The inductive invariant                                                 *)

\* A goroutine that is past the timer is at work on its note.
Live(w) == ~Idle(w) /\ task[w].at # "timer"
Deletes(w, n) == Live(w) /\ task[w].note = n /\ task[w].kind = "delete"
Deleting(n) == \E w \in Workers : Deletes(w, n)

\* A goroutine is at work on the body the note has, or for something else than that body.
Works(w, n) == /\ Live(w) /\ task[w].at # "front" /\ task[w].note = n
               /\ task[w].kind = "body" /\ task[w].body = cur[n]
Strays(w, n) == Live(w) /\ task[w].note = n /\ ~(task[w].kind = "body" /\ task[w].body = cur[n])

\* The body the note has waits in a timer, or a goroutine is at work on it.
Pending(n) == debounce[n] # Nil \/ \E w \in Workers : Works(w, n)
Astray(n) == \E w \in Workers : Strays(w, n)

\* A chunk of a note that is searchable, with the vector of the body.
Good(n, b, c) == c \in Rows(n) /\ vec[n][c] = [body |-> b, dead |-> FALSE]

\* Goroutines in each other's way know that they are not alone.
Company ==
  \A u, v \in Workers : Live(u) /\ Live(v) /\ Rival(task[u], task[v]) => ~task[u].alone

\* An entry has the body that the note has.
TimerCurrent ==
  \A n \in Notes : debounce[n] # Nil /\ cur[n] # Gone => debounce[n].body = cur[n]

\* The one vector that SqliteVecStore keeps of a note is of the body.
Vector(n, b) == store = "sqlitevec" => one[n] = b

\* What a task that is alone has done to the rows of its note is still there.
Done(t) ==
  /\ t.at # "upsert" \/ store = "sqlitevec" => t.chunk = 1
  /\ t.alone /\ t.at = "upsert" => \A c \in 1..(t.chunk - 1) : Good(t.note, t.body, c)
  /\ t.alone /\ t.at \in {"acquireSummary", "summarize", "set"} =>
       Vector(t.note, t.body) /\ \A c \in 1..Chunks[t.body] : Good(t.note, t.body, c)
  /\ t.alone /\ t.at \in {"record", "purgeVector", "purgeMeta"} => Searchable(t.note) = {}

RowsDone == \A w \in Workers : ~Idle(w) => Done(task[w])

\* A note with nothing on record against it has the index of its body, unless work on that
\* body is still to come.
BodyFine(n) ==
  cur[n] # Gone /\ blame[n] = {} => Pending(n) \/ (~Astray(n) /\ Matches(n, cur[n]))
BodyInv == \A n \in Notes : BodyFine(n)

\* A deleted note with nothing on record against it is not searchable, unless a deletion is
\* still at work.
GoneFine(n) ==
  cur[n] = Gone /\ blame[n] = {} =>
    Deleting(n) \/ (Searchable(n) = {} /\ \A w \in Workers : Live(w) => task[w].note # n)
GoneInv == \A n \in Notes : GoneFine(n)

\* A task that another step does not hurt, or that goes on past its timer.
Kept(v) ==
  \/ task'[v] = Nil
  \/ /\ task[v] # Nil /\ task'[v] # Nil
     /\ task'[v].note = task[v].note /\ task'[v].kind = task[v].kind /\ task'[v].body = task[v].body
     /\ task'[v].alone => task[v].alone
     /\ task'[v].at = "timer" <=> task[v].at = "timer"

\* Such tasks are kept.
LEMMA KeptFacts ==
  /\ \A v : Unhurt(v) => Kept(v)
  /\ \A w, to : Goes(w, to) /\ to # "timer" /\ task[w].at # "timer" => Kept(w)
BY DEF Unhurt, Goes, Kept

\* Company is kept while the tasks are.
LEMMA CompanyKept ==
  ASSUME Company, \A v \in Workers : Kept(v)
  PROVE  Company'
<1> SUFFICES ASSUME NEW u \in Workers, NEW v \in Workers,
                    task'[u] # Nil, task'[u].at # "timer", task'[v] # Nil, task'[v].at # "timer",
                    Rival(task'[u], task'[v])
             PROVE  ~task'[u].alone
  BY DEF Company, Live, Idle
<1>1. Kept(u) /\ Kept(v)  OBVIOUS
<1>2. Rival(task[u], task[v])  BY <1>1 DEF Kept, Rival
<1>3. ~task[u].alone  BY <1>1, <1>2 DEF Kept, Company, Live, Idle
<1> QED BY <1>1, <1>3 DEF Kept

\* A task that starts looks for company and tells the others.
LEMMA CompanySpawn ==
  ASSUME Company, task \in [Workers -> Tasks], NEW w \in Workers, NEW t \in BodyTask \cup DeleteTask,
         Spawn(w, t)
  PROVE  Company'
<1> SUFFICES ASSUME NEW u \in Workers, NEW v \in Workers,
                    task'[u] # Nil, task'[u].at # "timer", task'[v] # Nil, task'[v].at # "timer",
                    Rival(task'[u], task'[v])
             PROVE  ~task'[u].alone
  BY DEF Company, Live, Idle
<1>1. CASE u = w
  <2>1. v # w  BY <1>1 DEF Rival
  <2>2. Unhurt(v)  BY <2>1, SpawnFacts DEF Others
  <2>3. task[v] # Nil /\ Rival(t, task[v])  BY <1>1, <2>2, SpawnFacts DEF Unhurt, Rival
  <2> QED BY <1>1, <2>1, <2>3, SpawnFacts
<1>2. CASE u # w /\ v = w
  <2>1. Unhurt(u)  BY <1>2, SpawnFacts DEF Others
  <2>2. task[u] # Nil /\ Rival(t, task[u])  BY <1>2, <2>1, SpawnFacts DEF Unhurt, Rival
  <2> QED BY <1>2, <2>2, SpawnFacts
<1>3. CASE u # w /\ v # w
  <2>1. Unhurt(u) /\ Unhurt(v)  BY <1>3, SpawnFacts DEF Others
  <2>2. ~task[u].alone  BY <2>1 DEF Unhurt, Rival, Company, Live, Idle
  <2> QED BY <2>1, <2>2 DEF Unhurt
<1> QED BY <1>1, <1>2, <1>3

\* A row is upserted: the next chunk is the next to write, or the last has been written.
LEMMA UpsertFacts ==
  ASSUME Types, NEW w \in Workers, Upsert(w)
  PROVE  /\ task[w] \in BodyTask /\ task[w] # Nil /\ task[w].at = "upsert" /\ Rest(w)
         /\ \/ /\ task[w].chunk < Chunks[task[w].body]
               /\ Goes(w, "upsert") /\ task'[w].chunk = task[w].chunk + 1
            \/ /\ ~(task[w].chunk < Chunks[task[w].body])
               /\ Goes(w, "acquireSummary") /\ task'[w].chunk = 1
<1> USE Stages
<1> DEFINE T == [task[w] EXCEPT !.chunk = task[w].chunk + 1]
           U == [task[w] EXCEPT !.at = "acquireSummary", !.chunk = 1]
<1>0. task \in [Workers -> Tasks]  BY DEF Types
<1>1. task[w] \in BodyTask /\ task[w].at = "upsert" /\ task[w] # Nil  BY <1>0, HasTask DEF Upsert
<1>2. task[w].chunk + 1 \in Nat \ {0} /\ 1 \in Nat \ {0}  BY <1>1, TaskFields
<1>3. /\ T \in BodyTask /\ T.at = "upsert" /\ T.note = task[w].note /\ T.kind = task[w].kind
      /\ T.body = task[w].body /\ T.alone = task[w].alone /\ T.chunk = task[w].chunk + 1
  BY <1>1, <1>2, TaskEdits DEF BodyTask, TaskOf
<1>4. /\ U \in BodyTask /\ U.at = "acquireSummary" /\ U.note = task[w].note /\ U.kind = task[w].kind
      /\ U.body = task[w].body /\ U.alone = task[w].alone /\ U.chunk = 1
  BY <1>1, <1>2, TaskEdits DEF BodyTask, TaskOf
<1>5. T # Nil /\ U # Nil  BY <1>3, <1>4, NilAssumption
<1>6. \/ task[w].chunk < Chunks[task[w].body] /\ Edited(w, T)
      \/ ~(task[w].chunk < Chunks[task[w].body]) /\ Edited(w, U)
  BY DEF Upsert, Edited
<1> HIDE DEF T, U
<1>7. CASE task[w].chunk < Chunks[task[w].body] /\ Edited(w, T)
  <2>1. Rest(w) /\ task'[w] = T  BY <1>0, <1>3, <1>7, EditFacts DEF Tasks
  <2> QED BY <1>1, <1>3, <1>5, <1>7, <2>1 DEF Goes
<1>8. CASE ~(task[w].chunk < Chunks[task[w].body]) /\ Edited(w, U)
  <2>1. Rest(w) /\ task'[w] = U  BY <1>0, <1>4, <1>8, EditFacts DEF Tasks
  <2> QED BY <1>1, <1>4, <1>5, <1>8, <2>1 DEF Goes
<1> QED BY <1>6, <1>7, <1>8

\* All rows are upserted.
LEMMA UpsertAllFacts ==
  ASSUME Types, NEW w \in Workers, UpsertAll(w)
  PROVE  /\ task[w] \in BodyTask /\ task[w] # Nil /\ task[w].at = "upsert" /\ Rest(w)
         /\ Goes(w, "acquireSummary") /\ task'[w].chunk = task[w].chunk
<1> USE Stages
<1> DEFINE T == [task[w] EXCEPT !.at = "acquireSummary"]
<1>0. task \in [Workers -> Tasks]  BY DEF Types
<1>1. task[w] \in BodyTask /\ task[w].at = "upsert" /\ task[w] # Nil  BY <1>0, HasTask DEF UpsertAll
<1>2. /\ T \in BodyTask /\ T.at = "acquireSummary" /\ T.note = task[w].note /\ T.kind = task[w].kind
      /\ T.body = task[w].body /\ T.alone = task[w].alone /\ T.chunk = task[w].chunk
  BY <1>1, TaskEdits DEF BodyTask, TaskOf
<1>3. Edited(w, T) /\ T # Nil  BY <1>2, NilAssumption DEF UpsertAll, Goto, Edited
<1> HIDE DEF T
<1>4. Rest(w) /\ task'[w] = T  BY <1>0, <1>2, <1>3, EditFacts DEF Tasks
<1> QED BY <1>1, <1>2, <1>3, <1>4 DEF Goes

\* A deletion before its last step.
LEMMA DeleteFacts ==
  ASSUME Types, NEW w \in Workers
  PROVE  /\ Tombstone(w) => /\ task[w] \in DeleteTask /\ task[w] # Nil /\ task[w].at = "tombstone"
                            /\ Rest(w) /\ Goes(w, "record") /\ task'[w].chunk = task[w].chunk
         /\ PurgeVectors(w) => /\ task[w] \in DeleteTask /\ task[w] # Nil /\ task[w].at = "purge"
                               /\ Rest(w) /\ task'[w].chunk = task[w].chunk
                               /\ Goes(w, "purgeVector") \/ Goes(w, "purgeMeta")
         /\ PurgeVector(w) => /\ task[w] \in DeleteTask /\ task[w] # Nil /\ task[w].at = "purgeVector"
                              /\ Rest(w) /\ Goes(w, "purgeMeta") /\ task'[w].chunk = task[w].chunk
<1> USE Stages
<1>0. task \in [Workers -> Tasks]  BY DEF Types
<1>1. ASSUME NEW from \in DeleteStages, NEW to \in DeleteStages, At(w, from), Goto(w, to)
      PROVE  /\ task[w] \in DeleteTask /\ task[w] # Nil /\ task[w].at = from
             /\ Rest(w) /\ Goes(w, to) /\ task'[w].chunk = task[w].chunk
  <2> DEFINE T == [task[w] EXCEPT !.at = to]
  <2>1. task[w] \in DeleteTask /\ task[w] # Nil /\ task[w].at = from  BY <1>0, <1>1, HasTask
  <2>2. /\ T \in DeleteTask /\ T.at = to /\ T.note = task[w].note /\ T.kind = task[w].kind
        /\ T.body = task[w].body /\ T.alone = task[w].alone /\ T.chunk = task[w].chunk
    BY <1>1, <2>1, TaskEdits DEF DeleteTask, TaskOf
  <2>3. Edited(w, T) /\ T # Nil  BY <1>1, <2>2, NilAssumption DEF Goto, Edited
  <2> HIDE DEF T
  <2>4. Rest(w) /\ task'[w] = T  BY <1>0, <2>2, <2>3, EditFacts DEF Tasks
  <2> QED BY <2>1, <2>2, <2>3, <2>4 DEF Goes
<1> QED BY <1>1 DEF Tombstone, PurgeVectors, PurgeVector

\* A sweep disturbs the tasks of the notes it deletes.
LEMMA SweepTasks ==
  ASSUME Types, NEW ids, Disturb(ids)
  PROVE  /\ \A v \in Workers : Unhurt(v) /\ (task'[v] = Nil <=> task[v] = Nil)
         /\ \A v \in Workers : task[v] # Nil /\ task[v].note \in ids => ~task'[v].alone
<1>1. \A u \in BodyTask \cup DeleteTask :
        LET x == [u EXCEPT !.alone = FALSE]
        IN /\ x # Nil /\ x.note = u.note /\ x.kind = u.kind /\ x.body = u.body /\ x.at = u.at
           /\ x.seq = u.seq /\ x.chunk = u.chunk /\ x.alone = FALSE
  <2>1. \A u \in BodyTask :
          LET x == [u EXCEPT !.alone = FALSE]
          IN /\ x.note = u.note /\ x.kind = u.kind /\ x.body = u.body /\ x.at = u.at
             /\ x.seq = u.seq /\ x.chunk = u.chunk /\ x.alone = FALSE
    BY DEF BodyTask, TaskOf
  <2>2. \A u \in DeleteTask :
          LET x == [u EXCEPT !.alone = FALSE]
          IN /\ x.note = u.note /\ x.kind = u.kind /\ x.body = u.body /\ x.at = u.at
             /\ x.seq = u.seq /\ x.chunk = u.chunk /\ x.alone = FALSE
    BY DEF DeleteTask, TaskOf
  <2>3. \A u \in BodyTask \cup DeleteTask : [u EXCEPT !.alone = FALSE] # Nil
    <3>1. \A u \in BodyTask \cup DeleteTask : [u EXCEPT !.alone = FALSE] \in BodyTask \cup DeleteTask
      BY TaskEdits, Zenon
    <3>2. \A x \in BodyTask \cup DeleteTask : x # Nil  BY NilAssumption
    <3> QED BY <3>1, <3>2, Zenon
  <2> QED BY <2>1, <2>2, <2>3, Zenon
<1> DEFINE X(v) == [task[v] EXCEPT !.alone = FALSE]
<1>2. \A v \in Workers : task[v] # Nil => task[v] \in BodyTask \cup DeleteTask  BY DEF Types, Tasks
<1>3. \A v \in Workers : task[v] # Nil =>
        /\ X(v) # Nil /\ X(v).note = task[v].note /\ X(v).kind = task[v].kind /\ X(v).body = task[v].body
        /\ X(v).at = task[v].at /\ X(v).seq = task[v].seq /\ X(v).chunk = task[v].chunk /\ X(v).alone = FALSE
  BY <1>1, <1>2
<1>4. \A v \in Workers : task'[v] = IF task[v] # Nil /\ task[v].note \in ids THEN X(v) ELSE task[v]
  BY DEF Disturb, Idle
<1> HIDE DEF X
<1> QED BY <1>3, <1>4 DEF Unhurt

\* All tasks are kept by a step that starts none, and it touches neither note nor timer.
LEMMA StepKept ==
  ASSUME Types, NEW w \in Workers, Step(w)
  PROVE  ((\A v \in Workers : Kept(v)) /\ UNCHANGED <<cur, debounce>>) \/ Starts(w)
<1> USE KeptFacts
<1>0. task \in [Workers -> Tasks]  BY DEF Types
<1>r. Rest(w) => \A v \in Workers \ {w} : Kept(v)  BY DEF Rest, Kept
<1>e. End(w) => \A v \in Workers : Kept(v)
  <2>1. ASSUME End(w)  PROVE \A v \in Workers : Kept(v)
    BY <1>0, <2>1, EndFacts DEF Others, Kept
  <2> QED BY <2>1
<1>1. CASE Drops(w)  BY <1>1, <1>r DEF Drops, Kept, still, content
<1>2. CASE Progress(w)  BY <1>2, <1>r DEF Progress, Kept, still, content
<1>3. CASE Fails(w)  BY <1>3, <1>e DEF Fails, Fail, content
<1>4. CASE ProcessBodySkip(w)  BY <1>4, <1>e DEF ProcessBodySkip, submitter
<1>5. CASE Upsert(w)  BY <1>5, <1>r, UpsertFacts DEF Upsert, submitter
<1>6. CASE SetDerived(w)  BY <1>6, <1>e DEF SetDerived, submitter
<1>7. CASE Tombstone(w)  BY <1>7, <1>r, DeleteFacts DEF Tombstone, submitter
<1>8. CASE TombstoneRecord(w)  BY <1>8, <1>e DEF TombstoneRecord, submitter
<1>9. CASE PurgeVectors(w)  BY <1>9, <1>r, DeleteFacts DEF PurgeVectors, submitter
<1>10. CASE PurgeMeta(w)  BY <1>10, <1>e DEF PurgeMeta, submitter
<1>11. CASE UpsertAll(w)  BY <1>11, <1>r, UpsertAllFacts DEF UpsertAll, submitter
<1>12. CASE PurgeVector(w)  BY <1>12, <1>r, DeleteFacts DEF PurgeVector, submitter
<1> QED BY <1>1, <1>2, <1>3, <1>4, <1>5, <1>6, <1>7, <1>8, <1>9, <1>10, <1>11, <1>12, StepCases

\* The tasks that events start.
LEMMA EventTasks ==
  ASSUME Types, NEW w \in Workers, NEW n \in Notes
  PROVE  /\ SubmitFrontmatter(w, n) =>
              \E t \in BodyTask : /\ Spawn(w, t) /\ task[w] = Nil /\ cur[n] # Gone /\ UNCHANGED still
                                  /\ t.at = "front" /\ t.note = n /\ t.body = cur[n] /\ t.chunk = 1
         /\ SubmitDelete(w, n) \/ Purge(w, n) =>
              /\ \E t \in DeleteTask : /\ Spawn(w, t) /\ task[w] = Nil
                                       /\ t.at \in {"tombstone", "purge"} /\ t.note = n /\ t.chunk = 1
              /\ cur' = [cur EXCEPT ![n] = Gone] /\ UNCHANGED <<debounce, store, vec, one, meta, blame>>
<1>1. ASSUME SubmitFrontmatter(w, n)
      PROVE  \E t \in BodyTask : /\ Spawn(w, t) /\ task[w] = Nil /\ cur[n] # Gone /\ UNCHANGED still
                                 /\ t.at = "front" /\ t.note = n /\ t.body = cur[n] /\ t.chunk = 1
  <2> DEFINE T == Task("body", "front", n, cur[n], 0)
  <2>1. cur[n] \in Bodies  BY <1>1 DEF SubmitFrontmatter, Types
  <2>2. T \in BodyTask  BY <2>1, NewTasks
  <2>3. T.at = "front" /\ T.note = n /\ T.body = cur[n] /\ T.chunk = 1  BY DEF Task
  <2>4. Spawn(w, T) /\ task[w] = Nil /\ cur[n] # Gone /\ UNCHANGED still
    BY <1>1 DEF SubmitFrontmatter, Idle, still, content, stores, vectors
  <2> HIDE DEF T
  <2> QED BY <2>2, <2>3, <2>4
<1>2. ASSUME SubmitDelete(w, n) \/ Purge(w, n)
      PROVE  /\ \E t \in DeleteTask : /\ Spawn(w, t) /\ task[w] = Nil
                                      /\ t.at \in {"tombstone", "purge"} /\ t.note = n /\ t.chunk = 1
             /\ cur' = [cur EXCEPT ![n] = Gone] /\ UNCHANGED <<debounce, store, vec, one, meta, blame>>
  <2> DEFINE T == Task("delete", "tombstone", n, Gone, 0)
             U == Task("delete", "purge", n, Gone, 0)
  <2>1. T \in DeleteTask /\ U \in DeleteTask  BY PipelineAssumption, NewTasks
  <2>2. /\ T.at = "tombstone" /\ T.note = n /\ T.chunk = 1
        /\ U.at = "purge" /\ U.note = n /\ U.chunk = 1
    BY DEF Task
  <2>3. (Spawn(w, T) \/ Spawn(w, U)) /\ task[w] = Nil  BY <1>2 DEF SubmitDelete, Purge, Idle
  <2>4. cur' = [cur EXCEPT ![n] = Gone] /\ UNCHANGED <<debounce, store, vec, one, meta, blame>>
    BY <1>2 DEF SubmitDelete, Purge, stores, vectors
  <2> HIDE DEF T, U
  <2> QED BY <2>1, <2>2, <2>3, <2>4
<1> QED BY <1>1, <1>2

\* The task of a timer that has run out, and the one it becomes.
LEMMA TimerTasks ==
  ASSUME Types, NEW w \in Workers
  PROVE  /\ \A n \in Notes : Fire(w, n) =>
              /\ Rest(w) /\ task[w] = Nil /\ task'[w] # Nil /\ task'[w].at = "timer" /\ task'[w].note = n
              /\ task'[w].chunk = 1 /\ UNCHANGED still
         /\ Starts(w) =>
              \E t \in BodyTask : /\ Spawn(w, t) /\ task[w] \in BodyTask /\ task[w] # Nil
                                  /\ task[w].at = "timer" /\ t.at = "check" /\ t.note = task[w].note
                                  /\ t.body = task[w].body /\ t.chunk = task[w].chunk
<1> USE Stages
<1>0. task \in [Workers -> Tasks]  BY DEF Types
<1>1. ASSUME NEW n \in Notes, Fire(w, n)
      PROVE  /\ Rest(w) /\ task[w] = Nil /\ task'[w] # Nil /\ task'[w].at = "timer" /\ task'[w].note = n
             /\ task'[w].chunk = 1 /\ UNCHANGED still
  <2>1. PICK x \in timers[n] : task' = [task EXCEPT ![w] = Task("body", "timer", n, x.body, x.seq)]
    BY <1>1 DEF Fire
  <2> DEFINE T == Task("body", "timer", n, x.body, x.seq)
  <2>2. x.body \in Bodies /\ x.seq \in Nat  BY DEF Types, Timer
  <2>3. T \in BodyTask  BY <2>2, NewTasks
  <2>4. T.at = "timer" /\ T.note = n /\ T.chunk = 1  BY DEF Task
  <2>5. Edited(w, T) /\ task[w] = Nil /\ UNCHANGED still
    BY <1>1, <2>1 DEF Fire, Edited, Idle, still, content, submitter, stores, vectors
  <2> HIDE DEF T
  <2>6. Rest(w) /\ task'[w] = T /\ T # Nil  BY <1>0, <2>3, <2>5, EditFacts, NilAssumption DEF Tasks
  <2> QED BY <2>4, <2>5, <2>6
<1>2. ASSUME Starts(w)
      PROVE  \E t \in BodyTask : /\ Spawn(w, t) /\ task[w] \in BodyTask /\ task[w] # Nil
                                 /\ task[w].at = "timer" /\ t.at = "check" /\ t.note = task[w].note
                                 /\ t.body = task[w].body /\ t.chunk = task[w].chunk
  <2> DEFINE T == [task[w] EXCEPT !.at = "check", !.seq = 0]
  <2>1. task[w] \in BodyTask /\ task[w] # Nil /\ task[w].at = "timer"  BY <1>0, <1>2, HasTask DEF Starts
  <2>2. /\ T \in BodyTask /\ T.at = "check" /\ T.note = task[w].note /\ T.body = task[w].body
        /\ T.chunk = task[w].chunk
    BY <2>1, TaskEdits DEF BodyTask, TaskOf
  <2>3. Spawn(w, T)  BY <1>2 DEF Starts
  <2> HIDE DEF T
  <2> QED BY <2>1, <2>2, <2>3
<1> QED BY <1>1, <1>2

\* Company is kept.
LEMMA CompanyNext ==
  ASSUME Types, Company, [Next]_vars
  PROVE  Company'
<1>0. task \in [Workers -> Tasks]  BY DEF Types
<1>1. task' = task => Company'  BY DEF Company, Live, Idle, Rival
<1>2. ASSUME NEW w \in Workers, NEW n \in Notes, SubmitFrontmatter(w, n) \/ SubmitDelete(w, n) \/ Purge(w, n)
      PROVE  Company'
  <2>1. \E t \in BodyTask \cup DeleteTask : Spawn(w, t)  BY <1>2, EventTasks
  <2> QED BY <1>0, <2>1, CompanySpawn
<1>3. ASSUME NEW w \in Workers, NEW n \in Notes, Fire(w, n)  PROVE Company'
  <2>1. \A v \in Workers : task'[v] = task[v] \/ task'[v].at = "timer"  BY <1>3, TimerTasks DEF Rest
  <2> QED BY <2>1 DEF Company, Live, Idle, Rival
<1>4. ASSUME NEW w \in Workers, Step(w)  PROVE Company'
  <2>1. CASE Starts(w)
    <3>1. \E t \in BodyTask \cup DeleteTask : Spawn(w, t)  BY <2>1, TimerTasks
    <3> QED BY <1>0, <3>1, CompanySpawn
  <2>2. CASE \A v \in Workers : Kept(v)  BY <2>2, CompanyKept
  <2> QED BY <1>4, <2>1, <2>2, StepKept
<1>5. CASE SweepDelete \/ SweepDeleteVector
  <2>1. Disturb(sweep.ids)  BY <1>5 DEF SweepDelete, SweepDeleteVector
  <2> QED BY <2>1, SweepTasks, KeptFacts, CompanyKept
<1>6. CASE \/ \E n \in Notes, b \in Bodies : SubmitBody(n, b)
           \/ Close \/ SweepList \/ SweepSelect \/ SweepFails \/ UNCHANGED vars
  BY <1>1, <1>6 DEF SubmitBody, Close, SweepList, SweepSelect, SweepFails, vars
<1> QED BY <1>2, <1>3, <1>4, <1>5, <1>6 DEF Next, Submit, Timers, Sweep

\* The entry of a note is replaced with its body, and no step changes the one alone.
LEMMA TimerCurrentNext ==
  ASSUME Types, TimerCurrent, [Next]_vars
  PROVE  TimerCurrent'
<1>1. UNCHANGED <<cur, debounce>> => TimerCurrent'  BY DEF TimerCurrent
<1>2. ASSUME NEW n \in Notes, NEW b \in Bodies, SubmitBody(n, b)  PROVE TimerCurrent'
  <2>1. cur' = [cur EXCEPT ![n] = b] /\ \A m \in Notes \ {n} : debounce'[m] = debounce[m]
    BY <1>2 DEF SubmitBody, Types
  <2>2. debounce'[n] = NewTimer(n, b)  BY <1>2 DEF SubmitBody, Types
  <2>3. cur'[n] = b /\ debounce'[n].body = b /\ \A m \in Notes \ {n} : cur'[m] = cur[m]
    BY <2>1, <2>2 DEF Types, NewTimer
  <2> QED BY <2>1, <2>3 DEF TimerCurrent
<1>3. ASSUME NEW w \in Workers, NEW n \in Notes, SubmitDelete(w, n) \/ Purge(w, n)  PROVE TimerCurrent'
  <2>1. cur' = [cur EXCEPT ![n] = Gone] /\ UNCHANGED debounce  BY <1>3, EventTasks
  <2> QED BY <2>1 DEF TimerCurrent, Types
<1>4. ASSUME NEW w \in Workers, Step(w)  PROVE TimerCurrent'
  <2>1. CASE Starts(w)
    <3>1. UNCHANGED cur /\ debounce' = [debounce EXCEPT ![task[w].note] = Nil]  BY <2>1 DEF Starts
    <3> QED BY <3>1 DEF TimerCurrent, Types
  <2> QED BY <1>1, <1>4, <2>1, StepKept
<1>5. CASE \/ \E n \in Notes, w \in Workers : SubmitFrontmatter(w, n) \/ Fire(w, n)
           \/ Close \/ Sweep \/ UNCHANGED vars
  BY <1>1, <1>5 DEF SubmitFrontmatter, Fire, Close, Sweep, SweepList, SweepSelect, SweepDelete,
                    SweepDeleteVector, SweepFails, vars, submitter
<1> QED BY <1>2, <1>3, <1>4, <1>5 DEF Next, Submit, Timers

-----------------------------------------------------------------------------
(* The rows of a task that is alone                                        *)

\* Nothing changes the vector store for the other one.
LEMMA StoreKept ==
  /\ \A w \in Workers : Step(w) => store' = store
  /\ [Next]_vars => store' = store
<1> USE DEF stores, vectors
<1>1. ASSUME NEW w \in Workers, Step(w)  PROVE store' = store
  <2>1. CASE TimerLock(w) \/ ProcessFrontmatter(w) \/ ProcessBodySkip(w) \/ ProcessBody(w) \/ AcquireEmbed(w)
    BY <2>1 DEF TimerLock, ProcessFrontmatter, ProcessBodySkip, ProcessBody, AcquireEmbed
  <2>2. CASE AcquireSummary(w) \/ GiveUpAcquire(w) \/ Retry(w) \/ GiveUp(w) \/ Embed(w)
    BY <2>2 DEF AcquireSummary, GiveUpAcquire, Retry, GiveUp, Embed
  <2>3. CASE Upsert(w) \/ UpsertAll(w) \/ Summarize(w) \/ SetDerived(w) \/ StoreFails(w)
    BY <2>3 DEF Upsert, UpsertAll, Summarize, SetDerived, StoreFails
  <2>4. CASE Tombstone(w) \/ TombstoneRecord(w) \/ PurgeVectors(w) \/ PurgeVector(w) \/ PurgeMeta(w)
    BY <2>4 DEF Tombstone, TombstoneRecord, PurgeVectors, PurgeVector, PurgeMeta
  <2> QED BY <1>1, <2>1, <2>2, <2>3, <2>4 DEF Step
<1>2. CASE Submit  BY <1>2 DEF Submit, SubmitBody, SubmitFrontmatter, SubmitDelete, Purge
<1>3. CASE Timers \/ Close  BY <1>3 DEF Timers, Fire, Close
<1>4. CASE Sweep
  BY <1>4 DEF Sweep, SweepList, SweepSelect, SweepDelete, SweepDeleteVector, SweepFails
<1>5. CASE UNCHANGED vars  BY <1>5 DEF vars
<1> QED BY <1>1, <1>2, <1>3, <1>4, <1>5 DEF Next

\* The same, for all goroutines.
LEMMA DoneRows == RowsDone <=> \A w \in Workers : task[w] # Nil => Done(task[w])
BY DEF RowsDone, Idle

\* Every chunk of a body being good, and no row of a longer body being left, a search
\* returns the chunks of the body and nothing else.
LEMMA AllChunks ==
  ASSUME Types, NEW n \in Notes, NEW b \in Bodies, \A c \in 1..Chunks[b] : Good(n, b, c), ~Surplus(n, b)
  PROVE  Searchable(n) = 1..Chunks[b] /\ \A c \in Searchable(n) : vec[n][c].body = b
<1>1. b # Gone /\ Chunks[b] \in Nat  BY PipelineAssumption
<1>2. ASSUME NEW c \in Searchable(n)  PROVE c \in 1..Chunks[b]
  <2>1. c \in Nat \ {0}  BY DEF Types, Typed, Searchable, Rows
  <2>2. ~(c > Chunks[b])  BY <1>1 DEF Surplus
  <2> QED BY <1>1, <2>1, <2>2
<1>3. ASSUME NEW c \in 1..Chunks[b]  PROVE c \in Searchable(n) /\ vec[n][c].body = b
  <2>1. c \in Rows(n) /\ vec[n][c] = [body |-> b, dead |-> FALSE]  BY <1>3 DEF Good
  <2>2. vec[n][c].body = b /\ vec[n][c].dead = FALSE  BY <2>1
  <2> QED BY <2>1, <2>2 DEF Searchable
<1> QED BY <1>2, <1>3

\* A write to the rows of a note: what it does to the chunks that were good and to those
\* that a search returns.
LEMMA RowWrites ==
  ASSUME Types, NEW n \in Notes
  PROVE  /\ \A c, b : b \in Bodies /\ vec' = [vec EXCEPT ![n] = UpsertRow(@, c, b)] =>
              /\ Good(n, b, c)'
              /\ \A d : Good(n, b, d) => Good(n, b, d)'
         /\ \A b : b \in Bodies /\ vec' = [vec EXCEPT ![n] = UpsertRows(@, b)] =>
              /\ \A c \in 1..Chunks[b] : Good(n, b, c)'
              /\ \A d : Good(n, b, d) => Good(n, b, d)'
         /\ vec' = [vec EXCEPT ![n] = MarkDead(@)] => Searchable(n)' = {}
         /\ vec' = [vec EXCEPT ![n] = <<>>] => Searchable(n)' = {}
         /\ \A rows : vec' = [vec EXCEPT ![n] = rows] => \A m \in Notes \ {n} : vec'[m] = vec[m]
<1>1. ASSUME NEW c, NEW b \in Bodies, vec' = [vec EXCEPT ![n] = UpsertRow(@, c, b)]
      PROVE  Good(n, b, c)' /\ \A d : Good(n, b, d) => Good(n, b, d)'
  <2> DEFINE R == UpsertRow(vec[n], c, b)
             v == [body |-> b, dead |-> FALSE]
  <2>1. vec'[n] = R  BY <1>1 DEF Types
  <2>2. c \in DOMAIN R /\ R[c] = v  BY DEF UpsertRow
  <2>3. \A d \in DOMAIN vec[n] : d \in DOMAIN R /\ (d # c => R[d] = vec[n][d])  BY DEF UpsertRow
  <2> HIDE DEF R
  <2>4. c \in DOMAIN vec'[n] /\ vec'[n][c] = v  BY <2>1, <2>2
  <2>5. ASSUME NEW d, d \in DOMAIN vec[n], vec[n][d] = v  PROVE d \in DOMAIN vec'[n] /\ vec'[n][d] = v
    BY <2>1, <2>2, <2>3, <2>5
  <2> QED BY <2>4, <2>5 DEF Good, Rows
<1>a. ASSUME NEW b \in Bodies, vec' = [vec EXCEPT ![n] = UpsertRows(@, b)]
      PROVE  /\ \A c \in 1..Chunks[b] : Good(n, b, c)'
             /\ \A d : Good(n, b, d) => Good(n, b, d)'
  <2> DEFINE R == UpsertRows(vec[n], b)
             v == [body |-> b, dead |-> FALSE]
  <2>1. vec'[n] = R  BY <1>a DEF Types
  <2>2. \A c \in 1..Chunks[b] : c \in DOMAIN R /\ R[c] = v  BY DEF UpsertRows
  <2>3. \A d \in DOMAIN vec[n] : d \in DOMAIN R /\ (d \notin 1..Chunks[b] => R[d] = vec[n][d])
    BY DEF UpsertRows
  <2> HIDE DEF R
  <2>4. ASSUME NEW d, d \in DOMAIN vec[n], vec[n][d] = v  PROVE d \in DOMAIN vec'[n] /\ vec'[n][d] = v
    BY <2>1, <2>2, <2>3, <2>4
  <2> QED BY <2>1, <2>2, <2>4 DEF Good, Rows
<1>2. ASSUME vec' = [vec EXCEPT ![n] = MarkDead(@)]  PROVE Searchable(n)' = {}
  <2>1. vec'[n] = MarkDead(vec[n])  BY <1>2 DEF Types
  <2>2. \A c \in DOMAIN vec[n] : [vec[n][c] EXCEPT !.dead = TRUE].dead = TRUE
    <3>1. \A r \in Row : [r EXCEPT !.dead = TRUE].dead = TRUE  BY DEF Row
    <3> QED BY <3>1 DEF Types, Typed
  <2>3. DOMAIN vec'[n] = DOMAIN vec[n] /\ \A c \in DOMAIN vec[n] : vec'[n][c].dead = TRUE
    BY <2>1, <2>2 DEF MarkDead
  <2> QED BY <2>3 DEF Searchable, Rows
<1>3. ASSUME vec' = [vec EXCEPT ![n] = <<>>]  PROVE Searchable(n)' = {}
  <2>1. vec'[n] = <<>>  BY <1>3 DEF Types
  <2> QED BY <2>1, RowsFacts DEF Searchable, Rows
<1>4. \A rows : vec' = [vec EXCEPT ![n] = rows] => \A m \in Notes \ {n} : vec'[m] = vec[m]  BY DEF Types
<1> QED BY <1>1, <1>2, <1>3, <1>4, <1>a

\* The rows of a note and its vector stay as they are.
Untouched(n) == vec'[n] = vec[n] /\ one'[n] = one[n]

\* A task that another step does not hurt keeps what it has done, when the rows of its
\* note stay as they are or it is not alone any more.
LEMMA DoneUnhurt ==
  ASSUME RowsDone, NEW v \in Workers, Unhurt(v), task'[v] # Nil, store' = store,
         Untouched(task[v].note) \/ ~task'[v].alone
  PROVE  Done(task[v])'
<1>1. Done(task[v]) /\ task[v] # Nil  BY DoneRows DEF Unhurt
<1> QED BY <1>1 DEF Unhurt, Untouched, Done, Good, Vector, Searchable, Rows

\* A write to the rows of a note by a task: another that is alone on that note does the
\* same work, and the write does not undo it.
LEMMA DoneBeside ==
  ASSUME Types, Company, RowsDone, NEW w \in Workers, NEW v \in Workers \ {w}, Rest(w), Live(w),
         task[v] # Nil, NEW n, n = task[w].note, NEW b, b = task[w].body,
         store' = store, \A m \in Notes \ {n} : Untouched(m),
         task[w].kind = "body" => /\ \A d : Good(n, b, d) => Good(n, b, d)'
                                  /\ Vector(n, b) => Vector(n, b)',
         task[w].kind = "delete" /\ Searchable(n) = {} => Searchable(n)' = {}
  PROVE  Done(task[v])'
<1>1. task'[v] = task[v] /\ Done(task[v])  BY DoneRows DEF Rest
<1>2. task[v].note \in Notes /\ task[w].note \in Notes  BY TaskFields DEF Types, Tasks, Live, Idle
<1>3. CASE task[v].note # n \/ ~task[v].alone
  <2>1. Unhurt(v)  BY <1>1 DEF Unhurt
  <2> QED BY <1>1, <1>2, <1>3, <2>1, DoneUnhurt
<1>4. CASE task[v].note = n /\ task[v].alone /\ task[v].at = "timer"
  BY <1>1, <1>4 DEF Done
<1>5. CASE task[v].note = n /\ task[v].alone /\ task[v].at # "timer"
  <2>1. ~Rival(task[v], task[w])  BY <1>5 DEF Company, Live, Idle
  <2>2. task[v].kind = task[w].kind /\ task[v].body = task[w].body  BY <1>5, <2>1 DEF Rival
  <2>3. CASE task[v] \in BodyTask
    <3>1. task[w].kind = "body" /\ task[v].at \notin {"record", "purgeVector", "purgeMeta"}
      BY <2>2, <2>3, TaskFields DEF BodyStages
    <3>2. (\A d : Good(n, b, d) => Good(n, b, d)') /\ (Vector(n, b) => Vector(n, b)')  BY <3>1
    <3>3. task[v].body = b /\ task'[v].body = b /\ task'[v].note = n  BY <1>1, <1>5, <2>2
    <3> QED BY <1>1, <1>5, <3>1, <3>2, <3>3 DEF Done
  <2>4. CASE task[v] \in DeleteTask
    <3>1. task[w].kind = "delete" /\ task[v].at \notin {"upsert", "acquireSummary", "summarize", "set"}
      BY <2>2, <2>4, TaskFields DEF DeleteStages
    <3> QED BY <1>1, <1>5, <3>1 DEF Done
  <2> QED BY <2>3, <2>4 DEF Types, Tasks
<1> QED BY <1>3, <1>4, <1>5

\* The rows of the tasks that are alone, after a step of a goroutine.
LEMMA RowsStep ==
  ASSUME Types, Company, RowsDone, NEW w \in Workers, Step(w)
  PROVE  RowsDone'
<1> SUFFICES ASSUME NEW v \in Workers, task'[v] # Nil  PROVE Done(task[v])'
  BY DEF RowsDone, Done, Idle
<1>0. task \in [Workers -> Tasks] /\ store' = store  BY StoreKept DEF Types
<1>1. ASSUME Others(w), UNCHANGED <<vec, one>>, v # w  PROVE Done(task[v])'
  BY <1>0, <1>1, DoneUnhurt DEF Others, Untouched
<1>2. ASSUME End(w), UNCHANGED <<vec, one>>  PROVE Done(task[v])'
  <2>1. v # w /\ Others(w)  BY <1>0, <1>2, EndFacts
  <2> QED BY <1>1, <1>2, <2>1
<1>3. ASSUME Rest(w), UNCHANGED <<vec, one>>, v # w  PROVE Done(task[v])'
  <2>1. Unhurt(v)  BY <1>3 DEF Rest, Unhurt
  <2> QED BY <1>0, <1>3, <2>1, DoneUnhurt DEF Untouched
<1>4. CASE Drops(w)
  <2>1. v # w  BY <1>4 DEF Drops
  <2> QED BY <1>3, <1>4, <2>1 DEF Drops, still, content
<1>5. CASE Starts(w)
  <2>1. PICK t \in BodyTask : /\ Spawn(w, t) /\ task[w] # Nil /\ task[w].at = "timer"
                              /\ t.at = "check" /\ t.chunk = task[w].chunk
    BY <1>5, TimerTasks
  <2>2. Others(w) /\ task'[w].at = "check" /\ task'[w].chunk = task[w].chunk  BY <1>0, <2>1, SpawnFacts
  <2>3. task[w].chunk = 1  BY <2>1, DoneRows DEF Done
  <2>4. CASE v = w  BY <2>2, <2>3, <2>4 DEF Done
  <2> QED BY <1>1, <1>5, <2>2, <2>4 DEF Starts
<1>6. CASE Progress(w)
  <2>1. UNCHANGED <<vec, one>> /\ Rest(w)  BY <1>6 DEF Progress, still, content
  <2>2. CASE v = w
    <3>1. PICK to \in {"check", "follow", "acquire", "embed", "upsert", "summarize", "set"} :
            /\ Goes(w, to) /\ task'[w].chunk = task[w].chunk
            /\ to = "upsert" => task[w].at = "embed"
            /\ to \in {"summarize", "set"} => task[w].at \in {"acquireSummary", "summarize"}
      BY <1>6 DEF Progress
    <3>2. Done(task[w]) /\ task[w].at # "upsert"  BY <1>6, <3>1, DoneRows DEF Goes, Progress
    <3>3. task'[w].chunk = 1  BY <3>1, <3>2 DEF Done
    <3>4. task'[w].alone /\ to \in {"summarize", "set"} =>
            /\ \A c \in 1..Chunks[task[w].body] : Good(task[w].note, task[w].body, c)
            /\ Vector(task[w].note, task[w].body)
      BY <3>1, <3>2 DEF Goes, Done
    <3>5. task'[w].note = task[w].note /\ task'[w].body = task[w].body /\ task'[w].at = to
      BY <3>1 DEF Goes
    <3>6. task'[w].alone /\ to \in {"summarize", "set"} =>
            /\ \A c \in 1..Chunks[task'[w].body] : Good(task[w].note, task[w].body, c)'
            /\ Vector(task[w].note, task[w].body)'
      BY <1>0, <2>1, <3>4, <3>5 DEF Good, Rows, Vector
    <3>7. \A c \in 1..(task'[w].chunk - 1) : FALSE  BY <3>3
    <3>8. to \notin {"acquireSummary", "record", "purgeVector", "purgeMeta"}  OBVIOUS
    <3> QED BY <2>2, <3>3, <3>5, <3>6, <3>7, <3>8 DEF Done
  <2> QED BY <1>3, <2>1, <2>2
<1>7. CASE Fails(w)  BY <1>2, <1>7 DEF Fails, Fail, content
<1>8. CASE ProcessBodySkip(w)  BY <1>2, <1>8 DEF ProcessBodySkip, stores, vectors
<1>9. CASE Upsert(w)
  <2>1. /\ task[w] \in BodyTask /\ task[w] # Nil /\ task[w].at = "upsert" /\ Rest(w)
        /\ \/ /\ task[w].chunk < Chunks[task[w].body]
              /\ Goes(w, "upsert") /\ task'[w].chunk = task[w].chunk + 1
           \/ /\ ~(task[w].chunk < Chunks[task[w].body])
              /\ Goes(w, "acquireSummary") /\ task'[w].chunk = 1
    BY <1>9, UpsertFacts
  <2>2. PICK n \in Notes, b \in Bodies, k \in Nat \ {0} :
          n = task[w].note /\ b = task[w].body /\ k = task[w].chunk
    BY <2>1, TaskFields
  <2>3. vec' = [vec EXCEPT ![n] = UpsertRow(@, k, b)]  BY <1>9, <2>2 DEF Upsert
  <2>4. Good(n, b, k)' /\ \A d : Good(n, b, d) => Good(n, b, d)'  BY <2>3, RowWrites
  <2>5. store = "pgvector" /\ \A m \in Notes : one'[m] = one[m] /\ (m # n => Untouched(m))
    BY <1>9, <2>3, RowWrites DEF Upsert, Untouched
  <2>a. Vector(n, b)'  BY <1>0, <2>5 DEF Vector
  <2>6. CASE v = w
    <3>1. Done(task[w])  BY <2>1, DoneRows
    <3>2. task[w].alone => \A c \in 1..k : Good(n, b, c)'
      <4>1. task[w].alone => \A c \in 1..(k - 1) : Good(n, b, c)  BY <2>1, <2>2, <3>1 DEF Done
      <4>2. \A c \in 1..k : c = k \/ c \in 1..(k - 1)  OBVIOUS
      <4> QED BY <2>4, <4>1, <4>2
    <3>3. task'[w].note = n /\ task'[w].body = b /\ (task'[w].alone => task[w].alone)
      BY <2>1, <2>2 DEF Goes
    <3>4. CASE Goes(w, "upsert") /\ task'[w].chunk = k + 1
      <4>1. task'[w].alone => \A c \in 1..(task'[w].chunk - 1) : Good(n, b, c)'
        BY <3>2, <3>3, <3>4
      <4> QED BY <1>0, <2>5, <2>6, <3>3, <3>4, <4>1 DEF Goes, Done
    <3>5. CASE ~(k < Chunks[b]) /\ Goes(w, "acquireSummary") /\ task'[w].chunk = 1
      <4>1. Chunks[b] \in Nat  BY PipelineAssumption
      <4>2. \A c \in 1..Chunks[b] : c \in 1..k  BY <3>5, <4>1
      <4>3. task'[w].alone => \A c \in 1..Chunks[b] : Good(n, b, c)'  BY <3>2, <3>3, <4>2
      <4> QED BY <2>6, <2>a, <3>3, <3>5, <4>3 DEF Goes, Done
    <3> QED BY <2>1, <2>2, <3>4, <3>5
  <2>7. CASE v # w
    <3>1. Live(w) /\ task[w].kind = "body"  BY <2>1, TaskFields DEF Live, Idle
    <3>2. task[v] # Nil  BY <2>1, <2>7 DEF Rest
    <3> QED BY <1>0, <2>1, <2>2, <2>4, <2>5, <2>7, <2>a, <3>1, <3>2, DoneBeside
  <2> QED BY <2>6, <2>7
<1>16. CASE UpsertAll(w)
  <2>1. /\ task[w] \in BodyTask /\ task[w] # Nil /\ task[w].at = "upsert" /\ Rest(w)
        /\ Goes(w, "acquireSummary") /\ task'[w].chunk = task[w].chunk
    BY <1>16, UpsertAllFacts
  <2>2. PICK n \in Notes, b \in Bodies : n = task[w].note /\ b = task[w].body  BY <2>1, TaskFields
  <2>3. /\ store = "sqlitevec" /\ vec' = [vec EXCEPT ![n] = UpsertRows(@, b)]
        /\ one' = [one EXCEPT ![n] = b]
    BY <1>16, <2>2 DEF UpsertAll
  <2>4. (\A c \in 1..Chunks[b] : Good(n, b, c)') /\ \A d : Good(n, b, d) => Good(n, b, d)'
    BY <2>3, RowWrites
  <2>5. Vector(n, b)' /\ \A m \in Notes \ {n} : Untouched(m)
    BY <2>3, RowWrites DEF Vector, Untouched, Types
  <2>6. CASE v = w
    <3>1. task'[w].chunk = 1  BY <2>1, <2>3, DoneRows DEF Done
    <3>2. task'[w].note = n /\ task'[w].body = b /\ task'[w].at = "acquireSummary"
      BY <2>1, <2>2 DEF Goes
    <3> QED BY <2>4, <2>5, <2>6, <3>1, <3>2 DEF Done
  <2>7. CASE v # w
    <3>1. Live(w) /\ task[w].kind = "body"  BY <2>1, TaskFields DEF Live, Idle
    <3>2. task[v] # Nil  BY <2>1, <2>7 DEF Rest
    <3> QED BY <1>0, <2>1, <2>2, <2>4, <2>5, <2>7, <3>1, <3>2, DoneBeside
  <2> QED BY <2>6, <2>7
<1>10. CASE SetDerived(w)  BY <1>2, <1>10 DEF SetDerived, vectors
<1>11. ASSUME NEW to \in {"record", "purgeVector", "purgeMeta"}, task[w] \in DeleteTask, task[w] # Nil,
              task[w].at \in {"tombstone", "purge", "purgeVector"}, Rest(w), Goes(w, to),
              task'[w].chunk = task[w].chunk, NEW n \in Notes, n = task[w].note,
              task[w].alone \/ Searchable(n) = {} => Searchable(n)' = {},
              \A m \in Notes \ {n} : Untouched(m)
       PROVE  Done(task[v])'
  <2>1. CASE v = w
    <3>1. task[w].chunk = 1  BY <1>11, DoneRows DEF Done
    <3> QED BY <1>11, <2>1, <3>1 DEF Goes, Done
  <2>2. CASE v # w
    <3>1. Live(w) /\ task[w].kind = "delete" /\ task[w].body = Gone  BY <1>11, TaskFields DEF Live, Idle
    <3>2. task[v] # Nil  BY <1>11, <2>2 DEF Rest
    <3> QED BY <1>0, <1>11, <2>2, <3>1, <3>2, DoneBeside
  <2> QED BY <2>1, <2>2
<1>12. CASE Tombstone(w)
  <2>1. PICK n \in Notes : n = task[w].note  BY <1>12, DeleteFacts, TaskFields
  <2>2. vec' = [vec EXCEPT ![n] = MarkDead(@)]  BY <1>12, <2>1 DEF Tombstone
  <2>3. Searchable(n)' = {} /\ \A m \in Notes \ {n} : Untouched(m)
    BY <1>12, <2>2, RowWrites DEF Tombstone, Untouched
  <2> QED BY <1>11, <1>12, <2>1, <2>3, DeleteFacts
<1>13. CASE TombstoneRecord(w)  BY <1>2, <1>13 DEF TombstoneRecord, stores, vectors
<1>14. CASE PurgeVectors(w)
  <2>1. PICK n \in Notes : n = task[w].note  BY <1>14, DeleteFacts, TaskFields
  <2>2. vec' = [vec EXCEPT ![n] = <<>>]  BY <1>14, <2>1 DEF PurgeVectors
  <2>3. Searchable(n)' = {} /\ \A m \in Notes \ {n} : Untouched(m)
    BY <1>14, <2>2, RowWrites DEF PurgeVectors, Untouched
  <2> QED BY <1>11, <1>14, <2>1, <2>3, DeleteFacts
<1>17. CASE PurgeVector(w)
  <2>1. PICK n \in Notes : n = task[w].note  BY <1>17, DeleteFacts, TaskFields
  <2>2. \A m \in Notes \ {n} : Untouched(m)  BY <1>17, <2>1 DEF PurgeVector, Untouched, Types
  <2>3. Searchable(n)' = Searchable(n)  BY <1>17 DEF PurgeVector, Searchable, Rows
  <2>4. task[w].alone => Searchable(n) = {}  BY <1>17, <2>1, DeleteFacts, DoneRows DEF Done
  <2> QED BY <1>11, <1>17, <2>1, <2>2, <2>3, <2>4, DeleteFacts
<1>15. CASE PurgeMeta(w)  BY <1>2, <1>15 DEF PurgeMeta, vectors
<1> QED BY <1>4, <1>5, <1>6, <1>7, <1>8, <1>9, <1>10, <1>12, <1>13, <1>14, <1>15, <1>16, <1>17, StepCases

\* The rows of the tasks that are alone are kept.
LEMMA RowsNext ==
  ASSUME Types, Company, RowsDone, [Next]_vars
  PROVE  RowsDone'
<1>0. task \in [Workers -> Tasks] /\ store' = store  BY StoreKept DEF Types
<1>1. UNCHANGED <<task, vec, one>> => RowsDone'
  BY <1>0 DEF RowsDone, Done, Good, Vector, Searchable, Rows, Idle
<1>2. ASSUME NEW w \in Workers, Others(w), task'[w].chunk = 1, UNCHANGED <<vec, one>>,
             task'[w].at \notin {"upsert", "acquireSummary", "summarize", "set", "record", "purgeVector",
                                "purgeMeta"}
      PROVE  RowsDone'
  <2> SUFFICES ASSUME NEW v \in Workers, task'[v] # Nil  PROVE Done(task[v])'
    BY DEF RowsDone, Done, Idle
  <2>1. CASE v = w  BY <1>2, <2>1 DEF Done
  <2>2. CASE v # w  BY <1>0, <1>2, <2>2, DoneUnhurt DEF Others, Untouched
  <2> QED BY <2>1, <2>2
<1>3. ASSUME NEW w \in Workers, NEW n \in Notes, SubmitFrontmatter(w, n) \/ SubmitDelete(w, n) \/ Purge(w, n)
      PROVE  RowsDone'
  <2>1. PICK t \in BodyTask \cup DeleteTask :
          Spawn(w, t) /\ t.at \in {"front", "tombstone", "purge"} /\ t.chunk = 1 /\ UNCHANGED <<vec, one>>
    BY <1>3, EventTasks DEF still, content
  <2> QED BY <1>0, <1>2, <2>1, SpawnFacts
<1>4. ASSUME NEW w \in Workers, NEW n \in Notes, Fire(w, n)  PROVE RowsDone'
  <2>1. Rest(w) /\ task'[w].at = "timer" /\ task'[w].chunk = 1 /\ UNCHANGED <<vec, one>>
    BY <1>4, TimerTasks DEF still, content
  <2>2. Others(w)  BY <2>1 DEF Rest, Others, Unhurt
  <2> QED BY <1>2, <2>1, <2>2
<1>5. CASE SweepDelete \/ SweepDeleteVector
  <2> SUFFICES ASSUME NEW v \in Workers, task'[v] # Nil  PROVE Done(task[v])'
    BY DEF RowsDone, Done, Idle
  <2>a. Disturb(sweep.ids)  BY <1>5 DEF SweepDelete, SweepDeleteVector
  <2>1. Unhurt(v) /\ task[v] # Nil  BY <2>a, SweepTasks
  <2>2. task[v].note \in Notes  BY <2>1, TaskFields DEF Types, Tasks
  <2>3. task[v].note \in sweep.ids => ~task'[v].alone  BY <2>1, <2>a, SweepTasks
  <2>4. task[v].note \notin sweep.ids => Untouched(task[v].note)
    BY <1>5, <2>2 DEF SweepDelete, SweepDeleteVector, Untouched
  <2> QED BY <1>0, <2>1, <2>3, <2>4, DoneUnhurt
<1>6. CASE \/ \E n \in Notes, b \in Bodies : SubmitBody(n, b)
           \/ Close \/ SweepList \/ SweepSelect \/ SweepFails \/ UNCHANGED vars
  BY <1>1, <1>6 DEF SubmitBody, Close, SweepList, SweepSelect, SweepFails, vars, stores, vectors
<1> QED BY <1>3, <1>4, <1>5, <1>6, RowsStep DEF Next, Submit, Timers, Sweep

-----------------------------------------------------------------------------
(* Notes that are deleted                                                  *)

\* For a note that a step touches at most by hurting nobody, and by more blame.
LEMMA GoneFrame ==
  ASSUME NEW n \in Notes, GoneFine(n), cur'[n] = cur[n], blame[n] \subseteq blame'[n],
         Searchable(n) = {} => Searchable(n)' = {},
         \A v \in Workers : Deletes(v, n) => Deletes(v, n)',
         \A v \in Workers : Live(v)' /\ task'[v].note = n => Live(v) /\ task[v].note = n
  PROVE  GoneFine(n)'
<1> SUFFICES ASSUME cur'[n] = Gone, blame'[n] = {}, ~Deleting(n)'
             PROVE  Searchable(n)' = {} /\ \A w \in Workers : Live(w)' => task'[w].note # n
  BY DEF GoneFine
<1>1. ~Deleting(n)  BY DEF Deleting
<1>2. blame[n] = {}  OBVIOUS
<1> QED BY <1>1, <1>2 DEF GoneFine

\* Somebody else's deletion goes on.
LEMMA StillDeleting ==
  ASSUME NEW n \in Notes, NEW w \in Workers, Others(w), ~Deletes(w, n), Deleting(n),
         \A v \in Workers : Deletes(v, n) => task'[v] # Nil
  PROVE  Deleting(n)'
<1>1. PICK v \in Workers : Deletes(v, n)  BY DEF Deleting
<1>2. Unhurt(v) /\ task'[v] # Nil  BY <1>1 DEF Others
<1>3. Deletes(v, n)'  BY <1>1, <1>2 DEF Unhurt, Deletes, Live, Idle
<1> QED BY <1>3 DEF Deleting

\* Tasks that other steps leave alone, seen from a note.
LEMMA UnhurtSeen ==
  ASSUME NEW v \in Workers, NEW n, Unhurt(v)
  PROVE  /\ task'[v] # Nil => (Deletes(v, n) => Deletes(v, n)')
         /\ Live(v)' /\ task'[v].note = n => Live(v) /\ task[v].note = n
BY DEF Unhurt, Deletes, Live, Idle

\* A step of a goroutine on another note.
LEMMA GoneElsewhere ==
  ASSUME Types, NEW w \in Workers, NEW n \in Notes, GoneFine(n), Others(w),
         task[w] # Nil => task[w].note # n,
         task'[w] # Nil => task'[w].note # n,
         \A v \in Workers \ {w} : task[v] # Nil /\ task[v].note = n => task'[v] # Nil,
         cur'[n] = cur[n], blame[n] \subseteq blame'[n], vec'[n] = vec[n]
  PROVE  GoneFine(n)'
<1>1. Searchable(n) = {} => Searchable(n)' = {}  BY DEF Searchable, Rows
<1>2. \A v \in Workers : Deletes(v, n) => Deletes(v, n)'
  <2>1. ASSUME NEW v \in Workers, Deletes(v, n)  PROVE Deletes(v, n)'
    <3>1. v # w  BY <2>1 DEF Deletes, Live, Idle
    <3>2. Unhurt(v) /\ task'[v] # Nil  BY <2>1, <3>1 DEF Others, Deletes, Live, Idle
    <3> QED BY <2>1, <3>2, UnhurtSeen
  <2> QED BY <2>1
<1>3. \A v \in Workers : Live(v)' /\ task'[v].note = n => Live(v) /\ task[v].note = n
  <2>1. ASSUME NEW v \in Workers, Live(v)', task'[v].note = n  PROVE Live(v) /\ task[v].note = n
    <3>1. v # w  BY <2>1 DEF Live, Idle
    <3>2. Unhurt(v)  BY <3>1 DEF Others
    <3> QED BY <2>1, <3>2, UnhurtSeen
  <2> QED BY <2>1
<1> QED BY <1>1, <1>2, <1>3, GoneFrame

\* What a step of a goroutine leaves alone: the other notes, their tasks and their rows.
LEMMA StepElsewhere ==
  ASSUME Types, NEW w \in Workers, Step(w), NEW n \in Notes, task[w].note # n
  PROVE  /\ Others(w) /\ task[w] # Nil
         /\ task'[w] # Nil => task'[w].note = task[w].note
         /\ \A v \in Workers \ {w} : task[v] # Nil /\ task[v].note = n => task'[v] # Nil
         /\ cur'[n] = cur[n] /\ debounce'[n] = debounce[n] /\ blame'[n] = blame[n]
         /\ vec'[n] = vec[n] /\ one'[n] = one[n] /\ meta'[n] = meta[n]
<1>0. task \in [Workers -> Tasks] /\ blame \in [Notes -> SUBSET Causes]  BY DEF Types
<1>b. \A why : Blame(task[w].note, why) => blame'[n] = blame[n]  BY <1>0 DEF Blame
<1>s. Settle(w) => blame'[n] = blame[n]  BY <1>0 DEF Settle
<1>e. ASSUME End(w), task[w] # Nil
      PROVE  /\ Others(w) /\ task'[w] = Nil
             /\ \A v \in Workers \ {w} : task[v] # Nil /\ task[v].note = n => task'[v] # Nil
  BY <1>0, <1>e, EndFacts
<1>r. Rest(w) => /\ Others(w)
                 /\ \A v \in Workers \ {w} : task[v] # Nil /\ task[v].note = n => task'[v] # Nil
  BY DEF Rest, Others, Unhurt
<1>a. \A at : At(w, at) => task[w] # Nil  BY DEF At, Idle
<1>1. CASE Drops(w)  BY <1>1, <1>r, <1>a DEF Drops, still, content
<1>2. CASE Starts(w)
  <2>1. PICK t \in BodyTask : Spawn(w, t) /\ task[w] # Nil /\ t.note = task[w].note
    BY <1>2, TimerTasks
  <2>2. /\ Others(w) /\ task'[w].note = task[w].note
        /\ \A v \in Workers \ {w} : task[v] # Nil => task'[v] # Nil
    BY <1>0, <2>1, SpawnFacts
  <2>3. debounce'[n] = debounce[n]  BY <1>2 DEF Starts, Types
  <2>4. blame'[n] = blame[n]  BY <1>2, <1>b DEF Starts
  <2> QED BY <1>2, <2>1, <2>2, <2>3, <2>4 DEF Starts
<1>3. CASE Progress(w)  BY <1>3, <1>r DEF Progress, Goes, still, content
<1>4. CASE Fails(w)
  <2>1. task[w] # Nil /\ End(w) /\ Blame(task[w].note, "failed") /\ UNCHANGED content
    BY <1>4 DEF Fails, Fail, Idle
  <2> QED BY <1>b, <1>e, <2>1 DEF content
<1>5. CASE ProcessBodySkip(w)
  <2>1. blame'[n] = blame[n]  BY <1>5, <1>b DEF ProcessBodySkip
  <2> QED BY <1>5, <1>a, <1>e, <2>1 DEF ProcessBodySkip, submitter, stores, vectors
<1>6. CASE Upsert(w)
  <2>1. vec'[n] = vec[n]  BY <1>6 DEF Upsert, Types
  <2>2. task'[w].note = task[w].note /\ Rest(w) /\ task[w] # Nil  BY <1>6, UpsertFacts DEF Goes
  <2> QED BY <1>6, <1>r, <2>1, <2>2 DEF Upsert, submitter
<1>7. CASE SetDerived(w)
  <2>1. meta'[n] = meta[n]  BY <1>7 DEF SetDerived, Types
  <2> QED BY <1>7, <1>a, <1>e, <1>s, <2>1 DEF SetDerived, submitter, vectors
<1>8. CASE Tombstone(w)
  <2>1. vec'[n] = vec[n]  BY <1>8 DEF Tombstone, Types
  <2>2. task'[w].note = task[w].note /\ Rest(w) /\ task[w] # Nil  BY <1>8, DeleteFacts DEF Goes
  <2> QED BY <1>8, <1>r, <2>1, <2>2 DEF Tombstone, submitter
<1>9. CASE TombstoneRecord(w)
  BY <1>9, <1>a, <1>e, <1>s DEF TombstoneRecord, submitter, stores, vectors
<1>10. CASE PurgeVectors(w)
  <2>1. vec'[n] = vec[n]  BY <1>10 DEF PurgeVectors, Types
  <2>2. task'[w].note = task[w].note /\ Rest(w) /\ task[w] # Nil  BY <1>10, DeleteFacts DEF Goes
  <2> QED BY <1>10, <1>r, <2>1, <2>2 DEF PurgeVectors, submitter
<1>11. CASE PurgeMeta(w)
  <2>1. meta'[n] = meta[n]  BY <1>11 DEF PurgeMeta, Types
  <2> QED BY <1>11, <1>a, <1>e, <1>s, <2>1 DEF PurgeMeta, submitter, vectors
<1>12. CASE UpsertAll(w)
  <2>1. vec'[n] = vec[n] /\ one'[n] = one[n]  BY <1>12 DEF UpsertAll, Types
  <2>2. task'[w].note = task[w].note /\ Rest(w) /\ task[w] # Nil  BY <1>12, UpsertAllFacts DEF Goes
  <2> QED BY <1>12, <1>r, <2>1, <2>2 DEF UpsertAll, submitter
<1>13. CASE PurgeVector(w)
  <2>1. one'[n] = one[n]  BY <1>13 DEF PurgeVector, Types
  <2>2. task'[w].note = task[w].note /\ Rest(w) /\ task[w] # Nil  BY <1>13, DeleteFacts DEF Goes
  <2> QED BY <1>13, <1>r, <2>1, <2>2 DEF PurgeVector, submitter
<1> QED BY <1>1, <1>2, <1>3, <1>4, <1>5, <1>6, <1>7, <1>8, <1>9, <1>10, <1>11, <1>12, <1>13, StepCases

\* A deleted note after a step of a goroutine that works on it.
LEMMA GoneStep ==
  ASSUME Types, Company, RowsDone, NEW n \in Notes, GoneFine(n), NEW w \in Workers, Step(w)
  PROVE  GoneFine(n)'
<1>0. task \in [Workers -> Tasks] /\ blame \in [Notes -> SUBSET Causes]  BY DEF Types
<1>1. CASE task[w].note # n
  BY <1>1, StepElsewhere, GoneElsewhere
<1>2. CASE task[w].note = n
  <2> SUFFICES ASSUME cur'[n] = Gone, blame'[n] = {}
               PROVE  \/ Deleting(n)'
                      \/ Searchable(n)' = {} /\ \A v \in Workers : Live(v)' => task'[v].note # n
    BY DEF GoneFine
  <2>b. \A why : Blame(n, why) => blame'[n] # {}  BY <1>0 DEF Blame
  <2>c. UNCHANGED cur => cur[n] = Gone  OBVIOUS
  \* Work on a body, while the note is deleted, is not alone: a deletion is at work.
  <2>1. ASSUME task[w] \in BodyTask, task[w] # Nil, task[w].at # "timer", Others(w),
               UNCHANGED <<cur, blame>>,
               \A v \in Workers : Deletes(v, n) => task'[v] # Nil
        PROVE  Deleting(n)'
    <3>1. Live(w) /\ ~Deletes(w, n)  BY <2>1, TaskFields DEF Live, Idle, Deletes
    <3>2. Deleting(n)  BY <1>2, <2>1, <3>1 DEF GoneFine
    <3> QED BY <2>1, <3>1, <3>2, StillDeleting
  <2>2. ASSUME Rest(w)  PROVE Others(w) /\ \A v \in Workers \ {w} : Deletes(v, n) => task'[v] # Nil
    BY <2>2 DEF Rest, Others, Unhurt, Deletes, Live, Idle
  <2>3. ASSUME End(w), task[w] \in BodyTask
        PROVE  Others(w) /\ \A v \in Workers \ {w} : Deletes(v, n) => task'[v] # Nil
    <3>1. \A v \in Workers \ {w} : Deletes(v, n) => task[v] # Nil /\ task[v].at # "follow"
      BY TaskFields DEF Deletes, Live, Idle, Types, Tasks, DeleteStages
    <3> QED BY <1>0, <2>3, <3>1, EndFacts
  \* A deletion that goes on.
  <2>4. ASSUME task[w] \in DeleteTask, NEW to \in {"record", "purgeVector", "purgeMeta"}, Goes(w, to)
        PROVE  Deleting(n)'
    <3>1. Deletes(w, n)'  BY <1>2, <2>4, TaskFields DEF Goes, Deletes, Live, Idle
    <3> QED BY <3>1 DEF Deleting
  \* A deletion that ends.
  <2>5. ASSUME task[w] \in DeleteTask, task[w] # Nil, task[w].at \in {"record", "purgeMeta"},
               End(w), Settle(w), UNCHANGED <<cur, vec>>
        PROVE  \/ Deleting(n)'
               \/ Searchable(n)' = {} /\ \A v \in Workers : Live(v)' => task'[v].note # n
    <3>1. task[w].alone
      <4>1. ~task[w].alone => blame'[n] # {}  BY <1>0, <1>2, <2>5 DEF Settle
      <4> QED BY <4>1
    <3>2. Searchable(n) = {}  BY <1>2, <2>5, <3>1, DoneRows DEF Done
    <3>3. Searchable(n)' = {}  BY <2>5, <3>2 DEF Searchable, Rows
    <3>4. Others(w) /\ task'[w] = Nil  BY <1>0, <2>5, EndFacts
    <3>5. ASSUME NEW v \in Workers, Live(v)', task'[v].note = n  PROVE Deletes(v, n)'
      <4>1. v # w /\ Unhurt(v)  BY <3>4, <3>5 DEF Live, Idle, Others
      <4>2. Live(v) /\ task[v].note = n  BY <3>5, <4>1, UnhurtSeen
      <4>3. Live(w)  BY <2>5 DEF Live, Idle
      <4>4. ~Rival(task[w], task[v])  BY <3>1, <4>2, <4>3 DEF Company
      <4>5. task[v].kind = "delete"  BY <1>2, <2>5, <4>2, <4>4, TaskFields DEF Rival
      <4> QED BY <3>5, <4>1, <4>2, <4>5 DEF Deletes, Live, Idle, Unhurt
    <3> QED BY <3>3, <3>5 DEF Deleting
  <2>6. CASE Drops(w)
    <3>1. UNCHANGED <<cur, blame, vec>> /\ Rest(w) /\ task'[w] = Nil  BY <2>6 DEF Drops, still, content
    <3>2. task[w] \in BodyTask /\ task[w] # Nil  BY <1>0, <2>6, Stages, HasTask DEF Drops
    <3>3. CASE task[w].at # "timer"
      <4>1. ~Deletes(w, n)  BY <3>2, TaskFields DEF Deletes
      <4> QED BY <2>1, <2>2, <3>1, <3>2, <3>3, <4>1
    <3>4. CASE task[w].at = "timer"
      <4>1. \A v \in Workers : Deletes(v, n) => Deletes(v, n)'
        BY <3>1, <3>4 DEF Deletes, Live, Idle, Rest
      <4>2. \A v \in Workers : Live(v)' /\ task'[v].note = n => Live(v) /\ task[v].note = n
        BY <3>1, <3>4 DEF Live, Idle, Rest
      <4>3. Searchable(n) = {} => Searchable(n)' = {}  BY <3>1 DEF Searchable, Rows
      <4>4. GoneFine(n)'  BY <3>1, <4>1, <4>2, <4>3, GoneFrame
      <4> QED BY <4>4 DEF GoneFine
    <3> QED BY <3>3, <3>4
  <2>7. CASE Starts(w)
    <3>1. cur[n] = Gone  BY <2>7 DEF Starts
    <3> QED BY <1>2, <2>7, <2>b, <3>1 DEF Starts
  <2>8. CASE Progress(w)
    <3>1. UNCHANGED <<cur, blame>> /\ Rest(w) /\ task[w] \in BodyTask /\ task[w].at # "timer"
          /\ task[w] # Nil /\ task'[w] # Nil
      BY <2>8 DEF Progress, Goes, still, content
    <3> QED BY <2>1, <2>2, <3>1
  <2>9. CASE Fails(w)  BY <1>2, <2>9, <2>b DEF Fails, Fail
  <2>10. CASE ProcessBodySkip(w)
    <3>1. task[w] \in BodyTask /\ task[w] # Nil /\ task[w].at = "check"
      BY <1>0, <2>10, Stages, HasTask DEF ProcessBodySkip
    <3>2. UNCHANGED <<cur, blame>> /\ End(w)  BY <1>2, <2>10, <2>b DEF ProcessBodySkip, submitter
    <3>3. ~Deletes(w, n)  BY <3>1, TaskFields DEF Deletes
    <3> QED BY <2>1, <2>3, <3>1, <3>2, <3>3
  <2>11. CASE Upsert(w)
    <3>1. task[w] \in BodyTask /\ task[w] # Nil /\ task[w].at = "upsert" /\ Rest(w) /\ task'[w] # Nil
      BY <2>11, UpsertFacts DEF Goes
    <3>2. UNCHANGED <<cur, blame>>  BY <2>11 DEF Upsert, submitter
    <3> QED BY <2>1, <2>2, <3>1, <3>2
  <2>12. CASE SetDerived(w)
    <3>1. task[w] \in BodyTask /\ task[w] # Nil /\ task[w].at = "set"
      BY <1>0, <2>12, Stages, HasTask DEF SetDerived
    <3>2. UNCHANGED cur /\ End(w) /\ Settle(w)  BY <2>12 DEF SetDerived, submitter
    <3>3. task[w].body # cur[n]  BY <3>1, <3>2, TaskFields, PipelineAssumption
    <3>4. UNCHANGED blame
      <4>1. task[w].alone
        <5>1. ~task[w].alone => blame'[n] # {}  BY <1>0, <1>2, <3>2 DEF Settle
        <5> QED BY <5>1
      <4> QED BY <1>0, <1>2, <3>2, <3>3, <4>1 DEF Settle
    <3>5. ~Deletes(w, n)  BY <3>1, TaskFields DEF Deletes
    <3> QED BY <2>1, <2>3, <3>1, <3>2, <3>4, <3>5
  <2>13. CASE Tombstone(w)  BY <2>4, <2>13, DeleteFacts
  <2>14. CASE TombstoneRecord(w)
    <3>1. task[w] \in DeleteTask /\ task[w] # Nil /\ task[w].at = "record"
      BY <1>0, <2>14, Stages, HasTask DEF TombstoneRecord
    <3> QED BY <2>5, <2>14, <3>1 DEF TombstoneRecord, submitter, stores, vectors
  <2>15. CASE PurgeVectors(w)  BY <2>4, <2>15, DeleteFacts
  <2>16. CASE PurgeMeta(w)
    <3>1. task[w] \in DeleteTask /\ task[w] # Nil /\ task[w].at = "purgeMeta"
      BY <1>0, <2>16, Stages, HasTask DEF PurgeMeta
    <3> QED BY <2>5, <2>16, <3>1 DEF PurgeMeta, submitter, vectors
  <2>17. CASE UpsertAll(w)
    <3>1. task[w] \in BodyTask /\ task[w] # Nil /\ task[w].at = "upsert" /\ Rest(w) /\ task'[w] # Nil
      BY <2>17, UpsertAllFacts DEF Goes
    <3>2. UNCHANGED <<cur, blame>>  BY <2>17 DEF UpsertAll, submitter
    <3> QED BY <2>1, <2>2, <3>1, <3>2
  <2>18. CASE PurgeVector(w)  BY <2>4, <2>18, DeleteFacts
  <2> QED BY <2>6, <2>7, <2>8, <2>9, <2>10, <2>11, <2>12, <2>13, <2>14, <2>15, <2>16, <2>17, <2>18, StepCases
<1> QED BY <1>1, <1>2

\* A deleted note, after every step.
LEMMA GoneNext ==
  ASSUME Types, Company, RowsDone, GoneInv, [Next]_vars
  PROVE  GoneInv'
<1> SUFFICES ASSUME NEW n \in Notes  PROVE GoneFine(n)'  BY DEF GoneInv
<1>0. task \in [Workers -> Tasks] /\ GoneFine(n)  BY DEF Types, GoneInv
<1>1. UNCHANGED <<task, cur, blame, vec>> => GoneFine(n)'
  BY <1>0 DEF GoneFine, Deleting, Deletes, Live, Idle, Searchable, Rows
<1>2. ASSUME NEW m \in Notes, NEW b \in Bodies, SubmitBody(m, b)  PROVE GoneFine(n)'
  <2>1. CASE m = n
    <3>1. cur'[n] = b  BY <1>2, <2>1 DEF SubmitBody, Types
    <3> QED BY <3>1, PipelineAssumption DEF GoneFine
  <2>2. CASE m # n
    <3>1. cur'[n] = cur[n] /\ UNCHANGED <<task, blame, vec>>  BY <1>2, <2>2 DEF SubmitBody, Types, stores, vectors
    <3> QED BY <1>0, <3>1 DEF GoneFine, Deleting, Deletes, Live, Idle, Searchable, Rows
  <2> QED BY <2>1, <2>2
<1>3. ASSUME NEW w \in Workers, NEW m \in Notes, SubmitFrontmatter(w, m)  PROVE GoneFine(n)'
  <2>1. PICK t \in BodyTask : /\ Spawn(w, t) /\ task[w] = Nil /\ cur[m] # Gone /\ UNCHANGED still
                              /\ t.note = m
    BY <1>3, EventTasks
  <2>2. UNCHANGED <<cur, vec, blame>>  BY <2>1 DEF still, content
  <2>3. CASE m = n  BY <2>1, <2>2, <2>3 DEF GoneFine
  <2>4. CASE m # n
    <3>1. /\ Others(w) /\ task'[w].note = m
          /\ \A v \in Workers \ {w} : task[v] # Nil => task'[v] # Nil
      BY <1>0, <2>1, SpawnFacts
    <3> QED BY <1>0, <2>1, <2>2, <2>4, <3>1, GoneElsewhere
  <2> QED BY <2>3, <2>4
<1>4. ASSUME NEW w \in Workers, NEW m \in Notes, SubmitDelete(w, m) \/ Purge(w, m)  PROVE GoneFine(n)'
  <2>1. PICK t \in DeleteTask : /\ Spawn(w, t) /\ task[w] = Nil
                                /\ t.at \in {"tombstone", "purge"} /\ t.note = m
    BY <1>4, EventTasks
  <2>2. cur' = [cur EXCEPT ![m] = Gone] /\ UNCHANGED <<debounce, store, vec, one, meta, blame>>
    BY <1>4, EventTasks
  <2>3. /\ Others(w) /\ task'[w] # Nil /\ task'[w].note = m /\ task'[w].kind = t.kind /\ task'[w].at = t.at
        /\ \A v \in Workers \ {w} : task[v] # Nil => task'[v] # Nil
    BY <1>0, <2>1, SpawnFacts
  <2>4. CASE m = n
    <3>1. Deletes(w, n)'  BY <2>1, <2>3, <2>4, TaskFields DEF Deletes, Live, Idle
    <3> QED BY <3>1 DEF GoneFine, Deleting
  <2>5. CASE m # n
    <3>1. cur'[n] = cur[n]  BY <2>2, <2>5 DEF Types
    <3> QED BY <1>0, <2>1, <2>2, <2>3, <2>5, <3>1, GoneElsewhere
  <2> QED BY <2>4, <2>5
<1>5. ASSUME NEW w \in Workers, NEW m \in Notes, Fire(w, m)  PROVE GoneFine(n)'
  <2>1. Rest(w) /\ task[w] = Nil /\ task'[w].at = "timer" /\ UNCHANGED <<cur, vec, blame>>
    BY <1>5, TimerTasks DEF still, content
  <2>2. \A v \in Workers : Deletes(v, n) => Deletes(v, n)'  BY <2>1 DEF Rest, Deletes, Live, Idle
  <2>3. \A v \in Workers : Live(v)' /\ task'[v].note = n => Live(v) /\ task[v].note = n
    BY <2>1 DEF Rest, Live, Idle
  <2>4. Searchable(n) = {} => Searchable(n)' = {}  BY <2>1 DEF Searchable, Rows
  <2> QED BY <1>0, <2>1, <2>2, <2>3, <2>4, GoneFrame
<1>6. CASE SweepDelete \/ SweepDeleteVector
  <2>a. Disturb(sweep.ids)  BY <1>6 DEF SweepDelete, SweepDeleteVector
  <2>1. \A v \in Workers : Unhurt(v) /\ (task'[v] = Nil <=> task[v] = Nil)  BY <2>a, SweepTasks
  <2>2. \A v \in Workers : Deletes(v, n) => Deletes(v, n)'
    <3>1. ASSUME NEW v \in Workers, Deletes(v, n)  PROVE Deletes(v, n)'
      <4>1. task'[v] # Nil  BY <2>1, <3>1 DEF Deletes, Live, Idle
      <4> QED BY <2>1, <3>1, <4>1, UnhurtSeen
    <3> QED BY <3>1
  <2>3. \A v \in Workers : Live(v)' /\ task'[v].note = n => Live(v) /\ task[v].note = n
    BY <2>1, UnhurtSeen
  <2>4. cur' = cur /\ blame[n] \subseteq blame'[n]
    BY <1>6, <2>a DEF SweepDelete, SweepDeleteVector, Disturb, submitter
  <2>5. vec'[n] = vec[n] \/ vec'[n] = <<>>  BY <1>6 DEF SweepDelete, SweepDeleteVector
  <2>6. Searchable(n) = {} => Searchable(n)' = {}  BY <2>5, RowsFacts DEF Searchable, Rows
  <2> QED BY <1>0, <2>2, <2>3, <2>4, <2>6, GoneFrame
<1>7. CASE Close \/ SweepList \/ SweepSelect \/ SweepFails \/ UNCHANGED vars
  BY <1>1, <1>7 DEF Close, SweepList, SweepSelect, SweepFails, vars, stores, vectors, submitter
<1> QED BY <1>0, <1>2, <1>3, <1>4, <1>5, <1>6, <1>7, GoneStep DEF Next, Submit, Timers, Sweep

-----------------------------------------------------------------------------
(* Notes that have a body                                                  *)

\* Work on the body of a note, and work that is in its way, seen after a step.
LEMMA UnhurtSeenToo ==
  ASSUME NEW v \in Workers, NEW n \in Notes, Unhurt(v), cur'[n] = cur[n]
  PROVE  /\ task'[v] # Nil => (Works(v, n) => Works(v, n)')
         /\ Strays(v, n)' => Strays(v, n)
BY DEF Unhurt, Works, Strays, Live, Idle

\* For a note that a step touches at most by hurting nobody, and by more blame.
LEMMA BodyFrame ==
  ASSUME NEW n \in Notes, BodyFine(n), cur'[n] = cur[n], blame[n] \subseteq blame'[n],
         debounce[n] # Nil => debounce'[n] # Nil,
         Untouched(n), store' = store, meta'[n] = meta[n],
         \A v \in Workers : Works(v, n) => Works(v, n)',
         \A v \in Workers : Strays(v, n)' => Strays(v, n)
  PROVE  BodyFine(n)'
<1> SUFFICES ASSUME cur'[n] # Gone, blame'[n] = {}, ~Pending(n)'
             PROVE  ~Astray(n)' /\ Matches(n, cur[n])'
  BY DEF BodyFine
<1>1. ~Pending(n)  BY DEF Pending
<1>2. blame[n] = {}  OBVIOUS
<1>3. ~Astray(n) /\ Matches(n, cur[n])  BY <1>1, <1>2 DEF BodyFine
<1>4. ~Astray(n)'  BY <1>3 DEF Astray
<1>5. Matches(n, cur[n])'  BY <1>3 DEF Matches, Known, Searchable, Rows, Untouched
<1> QED BY <1>4, <1>5

\* A step of a goroutine on another note.
LEMMA BodyElsewhere ==
  ASSUME Types, NEW w \in Workers, NEW n \in Notes, BodyFine(n), Others(w),
         task[w] # Nil => task[w].note # n,
         task'[w] # Nil => task'[w].note # n,
         \A v \in Workers \ {w} : task[v] # Nil /\ task[v].note = n => task'[v] # Nil,
         cur'[n] = cur[n], debounce'[n] = debounce[n], blame'[n] = blame[n],
         Untouched(n), store' = store, meta'[n] = meta[n]
  PROVE  BodyFine(n)'
<1>1. \A v \in Workers : Works(v, n) => Works(v, n)'
  <2>1. ASSUME NEW v \in Workers, Works(v, n)  PROVE Works(v, n)'
    <3>1. v # w  BY <2>1 DEF Works, Live, Idle
    <3>2. Unhurt(v) /\ task'[v] # Nil  BY <2>1, <3>1 DEF Others, Works, Live, Idle
    <3> QED BY <2>1, <3>2, UnhurtSeenToo
  <2> QED BY <2>1
<1>2. \A v \in Workers : Strays(v, n)' => Strays(v, n)
  <2>1. ASSUME NEW v \in Workers, Strays(v, n)'  PROVE Strays(v, n)
    <3>1. v # w  BY <2>1 DEF Strays, Live, Idle
    <3>2. Unhurt(v)  BY <3>1 DEF Others
    <3> QED BY <2>1, <3>2, UnhurtSeenToo
  <2> QED BY <2>1
<1> QED BY <1>1, <1>2, BodyFrame

\* The work that is still to come is still to come.
LEMMA StillPending ==
  ASSUME NEW n \in Notes, NEW w \in Workers, Others(w), Pending(n), Works(w, n) => Works(w, n)',
         cur'[n] = cur[n], debounce[n] # Nil => debounce'[n] # Nil,
         \A v \in Workers \ {w} : Works(v, n) => task'[v] # Nil
  PROVE  Pending(n)'
<1>1. CASE debounce[n] # Nil  BY <1>1 DEF Pending
<1>2. ASSUME NEW v \in Workers, Works(v, n)  PROVE Works(v, n)'
  <2>1. CASE v = w  BY <1>2, <2>1
  <2>2. CASE v # w
    <3>1. Unhurt(v) /\ task'[v] # Nil  BY <1>2, <2>2 DEF Others
    <3> QED BY <1>2, <3>1, UnhurtSeenToo
  <2> QED BY <2>1, <2>2
<1> QED BY <1>1, <1>2 DEF Pending

\* A note that has a body after a step of a goroutine that works on it.
LEMMA BodyStep ==
  ASSUME Types, Company, TimerCurrent, RowsDone, NEW n \in Notes, BodyFine(n),
         NEW w \in Workers, Step(w)
  PROVE  BodyFine(n)'
<1>0. task \in [Workers -> Tasks] /\ blame \in [Notes -> SUBSET Causes] /\ store' = store
  BY StoreKept DEF Types
<1>1. CASE task[w].note # n
  BY <1>0, <1>1, StepElsewhere, BodyElsewhere DEF Untouched
<1>2. CASE task[w].note = n
  <2> SUFFICES ASSUME cur'[n] # Gone, blame'[n] = {}
               PROVE  Pending(n)' \/ (~Astray(n)' /\ Matches(n, cur[n])')
    BY DEF BodyFine
  <2>b. \A why : Blame(n, why) => blame'[n] # {}  BY <1>0 DEF Blame
  <2>r. ASSUME Rest(w)  PROVE Others(w) /\ \A v \in Workers \ {w} : Works(v, n) => task'[v] # Nil
    BY <2>r DEF Rest, Others, Unhurt, Works, Live, Idle
  \* A goroutine at work for the body of the note that goes on with it.
  <2>1. ASSUME task[w] # Nil, Rest(w), NEW to, Goes(w, to), to \notin {"timer", "front"},
               task[w].at # "timer", task[w].kind = "body", task[w].body = cur[n],
               UNCHANGED <<cur, debounce>>
        PROVE  Pending(n)'
    <3>1. Works(w, n)'  BY <1>2, <2>1 DEF Works, Goes, Live, Idle
    <3> QED BY <3>1 DEF Pending
  \* A goroutine that strays does so while other work is still to come.
  <2>2. ASSUME Strays(w, n), Others(w), UNCHANGED <<cur, debounce, blame>>,
               \A v \in Workers \ {w} : Works(v, n) => task'[v] # Nil
        PROVE  Pending(n)'
    <3>1. ~Works(w, n)  BY <2>2 DEF Strays, Works
    <3>2. Pending(n)  BY <2>2 DEF BodyFine, Astray
    <3> QED BY <2>2, <3>1, <3>2, StillPending
  \* The end of a task that settles, having been alone.
  <2>3. ASSUME task[w] # Nil, task[w].at # "timer", End(w), Settle(w), UNCHANGED cur
        PROVE  /\ task[w].alone /\ Others(w) /\ task'[w] = Nil
               /\ task[w].body # cur[n] => UNCHANGED blame
               /\ task[w].body # cur[n] => \A v \in Workers \ {w} : Works(v, n) => task'[v] # Nil
               /\ \A v \in Workers \ {w} : Live(v) /\ task[v].note = n =>
                    task[v].kind = task[w].kind /\ task[v].body = task[w].body
    <3>1. task[w].alone
      <4>1. ~task[w].alone => blame'[n] # {}  BY <1>0, <1>2, <2>3 DEF Settle
      <4> QED BY <4>1
    <3>2. task[w].body # cur[n] => UNCHANGED blame  BY <1>0, <1>2, <2>3, <3>1 DEF Settle
    <3>3. Others(w) /\ task'[w] = Nil  BY <1>0, <2>3, EndFacts
    <3>4. task[w].body # cur[n] => \A v \in Workers \ {w} : Works(v, n) => task'[v] # Nil
      BY <1>0, <2>3, EndFacts DEF Works, Live, Idle
    <3>5. ASSUME NEW v \in Workers \ {w}, Live(v), task[v].note = n
          PROVE  task[v].kind = task[w].kind /\ task[v].body = task[w].body
      <4>1. ~Rival(task[w], task[v])  BY <2>3, <3>1, <3>5 DEF Company, Live, Idle
      <4> QED BY <1>2, <3>5, <4>1 DEF Rival
    <3> QED BY <3>1, <3>2, <3>3, <3>4, <3>5
  <2>4. CASE Drops(w)
    <3>1. UNCHANGED <<cur, debounce, blame, vec, one, meta>> /\ Rest(w) /\ task'[w] = Nil
      BY <2>4 DEF Drops, still, content
    <3>2. \A v \in Workers : Works(v, n) => Works(v, n)'
      BY <2>4, <3>1 DEF Drops, At, Works, Live, Idle, Rest
    <3>3. \A v \in Workers : Strays(v, n)' => Strays(v, n)
      BY <3>1 DEF Strays, Live, Idle, Rest
    <3>4. BodyFine(n)'  BY <1>0, <3>1, <3>2, <3>3, BodyFrame DEF Untouched
    <3> QED BY <3>4 DEF BodyFine
  <2>5. CASE Starts(w)
    <3>1. PICK t \in BodyTask : /\ Spawn(w, t) /\ task[w] \in BodyTask /\ task[w] # Nil
                                /\ task[w].at = "timer" /\ t.at = "check" /\ t.note = task[w].note
                                /\ t.body = task[w].body
      BY <2>5, TimerTasks
    <3>2. UNCHANGED cur /\ debounce[n] # Nil /\ debounce[n].seq = task[w].seq
      BY <1>2, <2>5 DEF Starts, Current
    <3>3. task[w].body = cur[n]
      <4>1. ~Reused(debounce[n], task[w])  BY <1>2, <2>5, <2>b, <3>2 DEF Starts
      <4> QED BY <3>2, <4>1 DEF Reused, TimerCurrent
    <3>4. task'[w] # Nil /\ task'[w].note = n /\ task'[w].kind = "body" /\ task'[w].body = cur[n]
          /\ task'[w].at = "check"
      BY <1>0, <1>2, <3>1, <3>3, SpawnFacts, TaskFields
    <3>5. Works(w, n)'  BY <3>2, <3>4 DEF Works, Live, Idle
    <3> QED BY <3>5 DEF Pending
  <2>6. CASE Progress(w)
    <3>1. UNCHANGED <<cur, debounce, blame>> /\ Rest(w) /\ task[w] \in BodyTask
          /\ task[w].at # "timer" /\ task[w] # Nil
      BY <2>6 DEF Progress, Goes, still, content
    <3>2. PICK to : Goes(w, to) /\ to \notin {"timer", "front"}  BY <2>6 DEF Progress
    <3>3. CASE task[w].body = cur[n]  BY <2>1, <3>1, <3>2, <3>3, TaskFields
    <3>4. CASE task[w].body # cur[n]
      <4>1. Strays(w, n)  BY <1>2, <3>1, <3>4 DEF Strays, Live, Idle
      <4> QED BY <2>2, <2>r, <3>1, <4>1
    <3> QED BY <3>3, <3>4
  <2>7. CASE Fails(w)  BY <1>2, <2>7, <2>b DEF Fails, Fail
  <2>8. CASE ProcessBodySkip(w)
    <3>1. task[w] \in BodyTask /\ task[w] # Nil /\ task[w].at = "check" /\ task[w].kind = "body"
      BY <1>0, <2>8, Stages, HasTask, TaskFields DEF ProcessBodySkip
    <3>2. /\ UNCHANGED <<cur, debounce, blame, store, vec, one, meta>> /\ End(w)
          /\ Matches(n, task[w].body) /\ task[w].alone
      BY <1>2, <2>8, <2>b DEF ProcessBodySkip, submitter, stores, vectors
    <3>3. Others(w) /\ task'[w] = Nil /\ \A v \in Workers \ {w} : task[v] # Nil => task'[v] # Nil
      BY <1>0, <3>1, <3>2, EndFacts
    <3>4. CASE task[w].body = cur[n]
      <4>1. Matches(n, cur[n])'  BY <3>2, <3>4 DEF Matches, Known, Searchable, Rows
      <4>2. ASSUME NEW v \in Workers, Strays(v, n)'  PROVE FALSE
        <5>1. v # w /\ Unhurt(v)  BY <3>3, <4>2 DEF Strays, Live, Idle, Others
        <5>2. Strays(v, n)  BY <3>2, <4>2, <5>1, UnhurtSeenToo
        <5>3. Rival(task[w], task[v])  BY <1>2, <3>1, <3>4, <5>2 DEF Strays, Rival
        <5> QED BY <3>1, <3>2, <5>2, <5>3 DEF Company, Strays, Live, Idle
      <4> QED BY <4>1, <4>2 DEF Astray
    <3>5. CASE task[w].body # cur[n]
      <4>1. Strays(w, n)  BY <1>2, <3>1, <3>5 DEF Strays, Live, Idle
      <4>2. \A v \in Workers \ {w} : Works(v, n) => task'[v] # Nil  BY <3>3 DEF Works, Live, Idle
      <4> QED BY <2>2, <3>2, <3>3, <4>1, <4>2
    <3> QED BY <3>4, <3>5
  <2>9. CASE Upsert(w)
    <3>1. task[w] \in BodyTask /\ task[w] # Nil /\ task[w].at = "upsert" /\ Rest(w)
          /\ (Goes(w, "upsert") \/ Goes(w, "acquireSummary"))
      BY <2>9, UpsertFacts
    <3>2. UNCHANGED <<cur, debounce, blame>>  BY <2>9 DEF Upsert, submitter
    <3>3. CASE task[w].body = cur[n]  BY <2>1, <3>1, <3>2, <3>3, TaskFields
    <3>4. CASE task[w].body # cur[n]
      <4>1. Strays(w, n)  BY <1>2, <3>1, <3>4 DEF Strays, Live, Idle
      <4> QED BY <2>2, <2>r, <3>1, <3>2, <4>1
    <3> QED BY <3>3, <3>4
  <2>10. CASE SetDerived(w)
    <3>1. task[w] \in BodyTask /\ task[w] # Nil /\ task[w].at = "set" /\ task[w].kind = "body"
      BY <1>0, <2>10, Stages, HasTask, TaskFields DEF SetDerived
    <3>2. UNCHANGED <<cur, debounce, store, vec, one>> /\ End(w) /\ Settle(w)
      BY <2>10 DEF SetDerived, submitter, vectors
    <3>3. CASE task[w].body # cur[n]
      <4>1. Strays(w, n)  BY <1>2, <3>1, <3>3 DEF Strays, Live, Idle
      <4> QED BY <2>2, <2>3, <3>1, <3>2, <3>3, <4>1
    <3>4. CASE task[w].body = cur[n]
      <4> DEFINE b == cur[n]
      <4>1. meta'[n] = [body |-> b, stale |-> FALSE]  BY <1>2, <2>10, <3>4 DEF SetDerived, Types
      <4>2. meta'[n] # Nil /\ meta'[n].body = b
        <5>1. [body |-> b, stale |-> FALSE] \in Meta  BY DEF Meta, Types
        <5>2. [body |-> b, stale |-> FALSE] # Nil  BY <5>1, NilAssumption, Zenon
        <5>3. [body |-> b, stale |-> FALSE].body = b  OBVIOUS
        <5> QED BY <4>1, <5>2, <5>3
      <4>3. Vector(n, b) /\ \A c \in 1..Chunks[b] : Good(n, b, c)
        BY <1>2, <2>3, <3>1, <3>2, <3>4, DoneRows DEF Done
      <4>a. ~Surplus(n, b)  BY <1>0, <1>2, <2>3, <3>1, <3>2, <3>4 DEF Settle
      <4>b. b \in Bodies  BY <3>1, <3>4, TaskFields
      <4>c. Searchable(n) = 1..Chunks[b] /\ \A c \in Searchable(n) : vec[n][c].body = b
        BY <4>3, <4>a, <4>b, AllChunks
      <4>4. Matches(n, cur[n])'
        BY <3>2, <4>2, <4>3, <4>c DEF Matches, Known, Searchable, Rows, Vector
      <4>5. ASSUME NEW v \in Workers, Strays(v, n)'  PROVE FALSE
        <5>1. v # w /\ Unhurt(v)  BY <2>3, <3>1, <3>2, <4>5 DEF Strays, Live, Idle, Others
        <5>2. Strays(v, n)  BY <3>2, <4>5, <5>1, UnhurtSeenToo
        <5> QED BY <2>3, <3>1, <3>2, <3>4, <5>1, <5>2 DEF Strays
      <4> QED BY <4>4, <4>5 DEF Astray
    <3> QED BY <3>3, <3>4
  \* A deletion strays, the note having a body again.
  <2>11. ASSUME task[w] \in DeleteTask, task[w] # Nil  PROVE Strays(w, n)
    BY <1>2, <2>11, TaskFields DEF Strays, Live, Idle, DeleteStages
  <2>12. CASE Tombstone(w)
    <3>1. UNCHANGED <<cur, debounce, blame>>  BY <2>12 DEF Tombstone, submitter
    <3> QED BY <2>2, <2>11, <2>12, <2>r, <3>1, DeleteFacts
  <2>13. CASE PurgeVectors(w)
    <3>1. UNCHANGED <<cur, debounce, blame>>  BY <2>13 DEF PurgeVectors, submitter
    <3> QED BY <2>2, <2>11, <2>13, <2>r, <3>1, DeleteFacts
  <2>14. ASSUME task[w] \in DeleteTask, task[w] # Nil, task[w].at # "timer", End(w), Settle(w),
                UNCHANGED <<cur, debounce>>
         PROVE  Pending(n)'
    <3>1. task[w].body # cur[n]  BY <2>14, TaskFields
    <3> QED BY <2>2, <2>3, <2>11, <2>14, <3>1
  <2>15. CASE TombstoneRecord(w)
    <3>1. task[w] \in DeleteTask /\ task[w] # Nil /\ task[w].at = "record"
      BY <1>0, <2>15, Stages, HasTask DEF TombstoneRecord
    <3> QED BY <2>14, <2>15, <3>1 DEF TombstoneRecord, submitter
  <2>16. CASE PurgeMeta(w)
    <3>1. task[w] \in DeleteTask /\ task[w] # Nil /\ task[w].at = "purgeMeta"
      BY <1>0, <2>16, Stages, HasTask DEF PurgeMeta
    <3> QED BY <2>14, <2>16, <3>1 DEF PurgeMeta, submitter
  <2>17. CASE UpsertAll(w)
    <3>1. task[w] \in BodyTask /\ task[w] # Nil /\ task[w].at = "upsert" /\ Rest(w)
          /\ Goes(w, "acquireSummary")
      BY <2>17, UpsertAllFacts
    <3>2. UNCHANGED <<cur, debounce, blame>>  BY <2>17 DEF UpsertAll, submitter
    <3>3. CASE task[w].body = cur[n]  BY <2>1, <3>1, <3>2, <3>3, TaskFields
    <3>4. CASE task[w].body # cur[n]
      <4>1. Strays(w, n)  BY <1>2, <3>1, <3>4 DEF Strays, Live, Idle
      <4> QED BY <2>2, <2>r, <3>1, <3>2, <4>1
    <3> QED BY <3>3, <3>4
  <2>18. CASE PurgeVector(w)
    <3>1. UNCHANGED <<cur, debounce, blame>>  BY <2>18 DEF PurgeVector, submitter
    <3> QED BY <2>2, <2>11, <2>18, <2>r, <3>1, DeleteFacts
  <2> QED BY <2>4, <2>5, <2>6, <2>7, <2>8, <2>9, <2>10, <2>12, <2>13, <2>15, <2>16, <2>17, <2>18, StepCases
<1> QED BY <1>1, <1>2

\* A note that has a body, after every step.
LEMMA BodyNext ==
  ASSUME Types, Company, TimerCurrent, RowsDone, BodyInv, [Next]_vars
  PROVE  BodyInv'
<1> SUFFICES ASSUME NEW n \in Notes  PROVE BodyFine(n)'  BY DEF BodyInv
<1>0. task \in [Workers -> Tasks] /\ BodyFine(n) /\ store' = store  BY StoreKept DEF Types, BodyInv
<1>1. ASSUME UNCHANGED <<task, blame, vec, one, meta>>, cur'[n] = cur[n], debounce'[n] = debounce[n]
      PROVE  BodyFine(n)'
  <2>1. \A v \in Workers : Works(v, n) => Works(v, n)'  BY <1>1 DEF Works, Live, Idle
  <2>2. \A v \in Workers : Strays(v, n)' => Strays(v, n)  BY <1>1 DEF Strays, Live, Idle
  <2> QED BY <1>0, <1>1, <2>1, <2>2, BodyFrame DEF Untouched
<1>2. ASSUME NEW m \in Notes, NEW b \in Bodies, SubmitBody(m, b)  PROVE BodyFine(n)'
  <2>1. UNCHANGED <<task, blame, vec, one, meta>>  BY <1>2 DEF SubmitBody, stores, vectors
  <2>2. CASE m = n
    <3>1. debounce'[n] = NewTimer(n, b) /\ NewTimer(n, b) \in Timer
      BY <1>2, <2>2 DEF SubmitBody, NewTimer, Types, Timer
    <3>2. debounce'[n] # Nil  BY <3>1, NilAssumption
    <3> QED BY <3>2 DEF BodyFine, Pending
  <2>3. CASE m # n
    <3>1. cur'[n] = cur[n] /\ debounce'[n] = debounce[n]  BY <1>2, <2>3 DEF SubmitBody, Types
    <3> QED BY <1>1, <2>1, <3>1
  <2> QED BY <2>2, <2>3
<1>3. ASSUME NEW w \in Workers, NEW m \in Notes, SubmitFrontmatter(w, m)  PROVE BodyFine(n)'
  <2>1. PICK t \in BodyTask : /\ Spawn(w, t) /\ task[w] = Nil /\ cur[m] # Gone /\ UNCHANGED still
                              /\ t.note = m /\ t.body = cur[m]
    BY <1>3, EventTasks
  <2>2. UNCHANGED <<cur, debounce, vec, one, meta, blame>>  BY <2>1 DEF still, content
  <2>3. /\ Others(w) /\ task'[w].note = m /\ task'[w].kind = "body" /\ task'[w].body = cur[m]
        /\ \A v \in Workers \ {w} : task[v] # Nil => task'[v] # Nil
    BY <1>0, <2>1, SpawnFacts, TaskFields
  <2>4. ASSUME NEW v \in Workers, Works(v, n)  PROVE Works(v, n)'
    <3>1. v # w  BY <2>1, <2>4 DEF Works, Live, Idle
    <3>2. Unhurt(v) /\ task'[v] # Nil  BY <2>3, <2>4, <3>1 DEF Others, Works, Live, Idle
    <3> QED BY <2>2, <2>4, <3>2, UnhurtSeenToo
  <2>5. ASSUME NEW v \in Workers, Strays(v, n)'  PROVE Strays(v, n)
    <3>1. CASE v = w  BY <2>2, <2>3, <2>5, <3>1 DEF Strays
    <3>2. CASE v # w
      <4>1. Unhurt(v)  BY <2>3, <3>2 DEF Others
      <4> QED BY <2>2, <2>5, <4>1, UnhurtSeenToo
    <3> QED BY <3>1, <3>2
  <2> QED BY <1>0, <2>2, <2>4, <2>5, BodyFrame DEF Untouched
<1>4. ASSUME NEW w \in Workers, NEW m \in Notes, SubmitDelete(w, m) \/ Purge(w, m)  PROVE BodyFine(n)'
  <2>1. PICK t \in DeleteTask : Spawn(w, t) /\ task[w] = Nil /\ t.note = m
    BY <1>4, EventTasks
  <2>2. cur' = [cur EXCEPT ![m] = Gone] /\ UNCHANGED <<debounce, store, vec, one, meta, blame>>
    BY <1>4, EventTasks
  <2>3. CASE m = n
    <3>1. cur'[n] = Gone  BY <2>2, <2>3 DEF Types
    <3> QED BY <3>1 DEF BodyFine
  <2>4. CASE m # n
    <3>1. cur'[n] = cur[n]  BY <2>2, <2>4 DEF Types
    <3>2. /\ Others(w) /\ task'[w].note = m
          /\ \A v \in Workers \ {w} : task[v] # Nil => task'[v] # Nil
      BY <1>0, <2>1, SpawnFacts
    <3> QED BY <1>0, <2>1, <2>2, <2>4, <3>1, <3>2, BodyElsewhere DEF Untouched
  <2> QED BY <2>3, <2>4
<1>5. ASSUME NEW w \in Workers, NEW m \in Notes, Fire(w, m)  PROVE BodyFine(n)'
  <2>1. /\ Rest(w) /\ task[w] = Nil /\ task'[w].at = "timer"
        /\ UNCHANGED <<cur, debounce, vec, one, meta, blame>>
    BY <1>5, TimerTasks DEF still, content
  <2>2. \A v \in Workers : Works(v, n) => Works(v, n)'  BY <2>1 DEF Rest, Works, Live, Idle
  <2>3. \A v \in Workers : Strays(v, n)' => Strays(v, n)  BY <2>1 DEF Rest, Strays, Live, Idle
  <2> QED BY <1>0, <2>1, <2>2, <2>3, BodyFrame DEF Untouched
<1>6. CASE SweepDelete \/ SweepDeleteVector
  <2>a. Disturb(sweep.ids)  BY <1>6 DEF SweepDelete, SweepDeleteVector
  <2>1. \A v \in Workers : Unhurt(v) /\ (task'[v] = Nil <=> task[v] = Nil)  BY <2>a, SweepTasks
  <2>2. UNCHANGED <<cur, debounce, meta>> /\ blame[n] \subseteq blame'[n]
    BY <1>6, <2>a DEF SweepDelete, SweepDeleteVector, Disturb, submitter
  <2>3. ASSUME NEW v \in Workers, Works(v, n)  PROVE Works(v, n)'
    <3>1. Unhurt(v) /\ task'[v] # Nil  BY <2>1, <2>3 DEF Works, Live, Idle
    <3> QED BY <2>2, <2>3, <3>1, UnhurtSeenToo
  <2>4. \A v \in Workers : Strays(v, n)' => Strays(v, n)  BY <2>1, <2>2, UnhurtSeenToo
  <2>5. CASE n \notin sweep.ids
    <3>1. Untouched(n)  BY <1>6, <2>5 DEF SweepDelete, SweepDeleteVector, Untouched
    <3> QED BY <1>0, <2>2, <2>3, <2>4, <3>1, BodyFrame
  <2>6. CASE n \in sweep.ids
    <3> SUFFICES ASSUME cur'[n] # Gone, blame'[n] = {}  PROVE Pending(n)'  BY DEF BodyFine
    <3>1. Searchable(n) = {}  BY <2>6, <2>a DEF Disturb
    <3>2. ~Matches(n, cur[n])
      <4>1. cur[n] \in Bodies  BY <2>2 DEF Types
      <4>2. 1 \in 1..Chunks[cur[n]]  BY <4>1, PipelineAssumption
      <4> QED BY <3>1, <4>2 DEF Matches
    <3>3. Pending(n)  BY <1>0, <2>2, <3>2 DEF BodyFine
    <3> QED BY <2>2, <2>3, <3>3 DEF Pending
  <2> QED BY <2>5, <2>6
<1>7. CASE Close \/ SweepList \/ SweepSelect \/ SweepFails \/ UNCHANGED vars
  BY <1>1, <1>7 DEF Close, SweepList, SweepSelect, SweepFails, vars, stores, vectors, submitter
<1> QED BY <1>0, <1>2, <1>3, <1>4, <1>5, <1>6, <1>7, BodyStep DEF Next, Submit, Timers, Sweep

-----------------------------------------------------------------------------
(* The theorems                                                            *)

IndexInv == Types /\ Company /\ TimerCurrent /\ RowsDone /\ BodyInv /\ GoneInv

\* At the start nobody is at work, and a note that has a body has the index of it.
LEMMA IndexInvInit == Init => IndexInv
<1> SUFFICES ASSUME Init  PROVE IndexInv  OBVIOUS
<1>1. \A w \in Workers : task[w] = Nil  BY DEF Init
<1>2. \A n \in Notes : debounce[n] = Nil  BY DEF Init
<1>3. Company /\ RowsDone  BY <1>1 DEF Company, RowsDone, Live, Idle
<1>4. TimerCurrent  BY <1>2 DEF TimerCurrent
<1>5. ASSUME NEW n \in Notes, cur[n] # Gone  PROVE ~Astray(n) /\ Matches(n, cur[n])
  <2>1. cur[n] = 1 /\ vec[n] = Full(1) /\ meta[n] = [body |-> 1, stale |-> TRUE]
        /\ (store = "sqlitevec" => one[n] = 1)
    BY <1>5 DEF Init
  <2>2. [body |-> 1, stale |-> TRUE] \in Meta  BY PipelineAssumption DEF Meta
  <2>3. [body |-> 1, stale |-> TRUE] # Nil  BY <2>2, NilAssumption, Zenon
  <2>4. Known(n, 1)  BY <2>1, <2>3 DEF Known
  <2>5. Rows(n) = 1..Chunks[1] /\ \A c \in 1..Chunks[1] : ~vec[n][c].dead /\ vec[n][c].body = 1
    BY <2>1 DEF Full, Rows
  <2>6. ~Astray(n)  BY <1>1 DEF Astray, Strays, Live, Idle
  <2> QED BY <2>1, <2>4, <2>5, <2>6 DEF Matches, Searchable
<1>6. BodyInv  BY <1>5 DEF BodyInv, BodyFine
<1>7. ASSUME NEW n \in Notes, cur[n] = Gone
      PROVE  Searchable(n) = {} /\ \A w \in Workers : Live(w) => task[w].note # n
  <2>1. vec[n] = <<>>  BY <1>7 DEF Init
  <2> QED BY <1>1, <2>1, RowsFacts DEF Searchable, Rows, Live, Idle
<1>8. GoneInv  BY <1>7 DEF GoneInv, GoneFine
<1> QED BY <1>3, <1>4, <1>6, <1>8, TypesInit DEF IndexInv

\* Every step keeps the invariant.
LEMMA IndexInvNext == IndexInv /\ [Next]_vars => IndexInv'
BY TypesNext, CompanyNext, TimerCurrentNext, RowsNext, BodyNext, GoneNext DEF IndexInv

\* When nothing is left to do for a deleted note and nothing is on record against it, a
\* search returns no row of it: the deletion, or an overlap with it, is what the record of
\* the note remembers.
THEOREM DeletedGone == Spec => []DeletedNotSearchable
<1>1. IndexInv => DeletedNotSearchable
  <2> SUFFICES ASSUME IndexInv, NEW n \in Notes, AtRest(n), blame[n] = {}, cur[n] = Gone
               PROVE  Searchable(n) = {}
    BY DEF DeletedNotSearchable
  <2>1. ~Deleting(n)  BY DEF AtRest, Of, Deleting, Deletes, Live
  <2> QED BY <2>1 DEF IndexInv, GoneInv, GoneFine
<1> QED BY <1>1, IndexInvInit, IndexInvNext, PTL DEF Spec

\* When nothing is left to do for a note and nothing is on record against it, its metadata
\* is that of the body submitted last, and the rows that a search may return of it are the
\* chunks of that body, all of them and no other: no row of a longer body is left, and the
\* one vector SqliteVecStore keeps is of the last chunk of that body.
THEOREM IndexOfLastBody == Spec => []LastBodyIndexed
<1>1. IndexInv => LastBodyIndexed
  <2> SUFFICES ASSUME IndexInv, NEW n \in Notes, AtRest(n), blame[n] = {}, cur[n] # Gone
               PROVE  Matches(n, cur[n])
    BY DEF LastBodyIndexed
  <2>1. ~Pending(n)  BY DEF AtRest, Of, Pending, Works, Live
  <2> QED BY <2>1 DEF IndexInv, BodyInv, BodyFine
<1> QED BY <1>1, IndexInvInit, IndexInvNext, PTL DEF Spec
=============================================================================
