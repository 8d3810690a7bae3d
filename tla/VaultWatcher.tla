---------------------------- MODULE VaultWatcher ----------------------------
(***************************************************************************)
(* The watcher of a local vault, composed with the vault: the loop that    *)
(* receives file events, the tracker that pairs a removal with a creation, *)
(* the timers that turn an unpaired removal into RemoveFile, and the       *)
(* rescan that the ticker starts when an event may have been missed.       *)
(* Without fsnotify the ticker starts a rescan every time.                 *)
(***************************************************************************)
EXTENDS LocalVault, FiniteSets

CONSTANT BaseOf    \* the base name of each path

VARIABLES
  pending,   \* renamePairTracker.pending: removals that may become a rename
  timers,    \* AfterFunc timers of each path that have not fired
  dirty,     \* an event may have been missed
  scanning,  \* rescanActive
  todo,      \* paths the rescan has not visited
  missed,    \* history: paths with a removal whose event was lost
  skipped    \* history: a tick consumed dirty while a rescan was active

watchVars == <<pending, timers, dirty, scanning, todo, missed, skipped>>
vars == <<fs, editing, lastVer, budget, cache, graph, fts, busy, job,
          mode, events, clobbered, pending, timers, dirty, scanning, todo,
          missed, skipped>>

\* What the watcher leaves alone apart from events and the jobs it starts.
quietVars == <<diskVars, budget, indexVars, busy, mode, clobbered>>

Init ==
  /\ VaultInit
  /\ pending = {}
  /\ timers = [p \in Paths |-> 0]
  /\ dirty = FALSE
  /\ scanning = FALSE
  /\ todo = {}
  /\ missed = {}
  /\ skipped = FALSE

isSameBase(p, q) == BaseOf[p] = BaseOf[q]

\* The methods of renamePairTracker, each one critical section of its mutex.
MarkRemoved(p)    == pending' = pending \cup {p}
ClaimIfPending(p) == pending' = pending \ {p}

\* The removals one of which a creation of p may be paired with.
FindPairedRemoval(p) == {old \in pending : isSameBase(old, p)}

\* The loop takes the oldest event; it is not in the middle of another one.
Receive(kind) ==
  /\ mode = "watch"
  /\ job[Loop] = NoJob
  /\ events # <<>> /\ Head(events).kind = kind
  /\ events' = Tail(events)

StartJob(th, j) == job' = [job EXCEPT ![th] = j]

\* A creation is paired with a pending removal of the same base name whose
\* window has not passed, if there is one: the file was renamed.
HandleCreate ==
  LET p == Head(events).path
  IN  /\ Receive("Create")
      /\ \/ \E old \in FindPairedRemoval(p) :
              /\ ClaimIfPending(old)
              /\ StartJob(Loop, UnindexJob(old, p))
         \/ /\ StartJob(Loop, IndexJob(p))
            /\ UNCHANGED pending
      /\ UNCHANGED <<quietVars, timers, dirty, scanning, todo, missed, skipped>>

HandleWrite ==
  /\ Receive("Write")
  /\ StartJob(Loop, IndexJob(Head(events).path))
  /\ UNCHANGED <<quietVars, watchVars>>

\* Mutant: the timer is armed only when the path was pending already.
HandleGoneUnarmed ==
  LET p == Head(events).path
  IN  /\ Receive("Gone")
      /\ dirty' = TRUE
      /\ MarkRemoved(p)
      /\ timers' = [timers EXCEPT ![p] = IF p \in pending THEN @ + 1 ELSE @]
      /\ UNCHANGED <<quietVars, job, scanning, todo, missed, skipped>>

\* Remove and Rename: suspect a miss, and arm a timer unless one is armed.
HandleGone ==
  LET p == Head(events).path
  IN  /\ Receive("Gone")
      /\ dirty' = TRUE
      /\ MarkRemoved(p)
      /\ timers' = [timers EXCEPT ![p] = IF p \in pending THEN @ ELSE @ + 1]
      /\ UNCHANGED <<quietVars, job, scanning, todo, missed, skipped>>

\* The temporary file of a write-back loses its name.  It is not a note: the
\* removal its timer starts does nothing.
HandleTmp ==
  /\ Receive("Tmp")
  /\ dirty' = TRUE
  /\ UNCHANGED <<quietVars, job, pending, timers, scanning, todo, missed, skipped>>

\* Mutant: the error is logged and forgotten.
LoseEventQuietly ==
  /\ mode = "watch" /\ job[Loop] = NoJob
  /\ events # <<>>
  /\ events' = Tail(events)
  /\ Spend("losses")
  /\ UNCHANGED <<diskVars, indexVars, busy, mode, clobbered, job, watchVars>>

\* The kernel's queue overflowed: events are gone and fsnotify reports an error
\* in their place.
LoseEvent ==
  /\ mode = "watch" /\ job[Loop] = NoJob
  /\ events # <<>>
  /\ events' = Tail(events)
  /\ Spend("losses")
  /\ dirty' = TRUE
  /\ missed' = IF Head(events).kind = "Gone" THEN missed \cup {Head(events).path}
                                             ELSE missed
  /\ UNCHANGED <<diskVars, indexVars, busy, mode, clobbered, job, pending,
                 timers, scanning, todo, skipped>>

\* A timer fires in a goroutine of its own; ClaimIfPending decides.
TimerFires(p) ==
  /\ timers[p] > 0
  /\ job[p] = NoJob
  /\ timers' = [timers EXCEPT ![p] = @ - 1]
  /\ ClaimIfPending(p)
  /\ IF p \in pending THEN StartJob(p, UnindexJob(p, None)) ELSE UNCHANGED job
  /\ UNCHANGED <<quietVars, events, dirty, scanning, todo, missed, skipped>>

\* The ticker of loop(): dirty is consumed first, then a rescan starts unless
\* one is active.
Tick ==
  /\ mode = "watch" /\ job[Loop] = NoJob
  /\ dirty
  /\ dirty' = FALSE
  /\ scanning' = TRUE
  /\ todo' = IF scanning THEN todo ELSE Paths
  /\ skipped' = (skipped \/ scanning)
  /\ UNCHANGED <<quietVars, job, events, pending, timers, missed>>

\* The ticker of rescanLoop().
TickRescan ==
  /\ mode = "rescan" /\ ~scanning
  /\ scanning' = TRUE
  /\ todo' = Paths
  /\ UNCHANGED <<quietVars, job, events, pending, timers, dirty, missed, skipped>>

\* scanVault walks on to a file and waits until the actor has indexed it.
ScanVisit(p) ==
  /\ scanning /\ p \in todo /\ job[Scan] = NoJob
  /\ todo' = todo \ {p}
  /\ IF Live(p) THEN StartJob(Scan, IndexJob(p)) ELSE UNCHANGED job
  /\ UNCHANGED <<quietVars, events, pending, timers, dirty, scanning, missed, skipped>>

ScanDone ==
  /\ scanning /\ todo = {} /\ job[Scan] = NoJob
  /\ scanning' = FALSE
  /\ UNCHANGED <<quietVars, job, events, pending, timers, dirty, todo, missed, skipped>>

-----------------------------------------------------------------------------
HandleEvent == HandleCreate \/ HandleWrite \/ HandleGone \/ HandleTmp

ScanStep == ScanDone \/ \E p \in Paths : ScanVisit(p)

WatcherNext ==
  \/ HandleEvent
  \/ LoseEvent
  \/ \E p \in Paths : TimerFires(p)
  \/ Tick
  \/ TickRescan
  \/ ScanStep

\* Nothing is under way and nothing is left to be noticed.
AtRest ==
  /\ \A th \in Threads : job[th] = NoJob
  /\ events = <<>>
  /\ \A p \in Paths : timers[p] = 0
  /\ ~dirty /\ ~scanning

\* A watched vault at rest stays so until a client or the editor comes.
Idle == mode = "watch" /\ AtRest /\ UNCHANGED vars

Next ==
  \/ VaultNext /\ UNCHANGED watchVars
  \/ WatcherNext
  \/ Idle

Spec == Init /\ [][Next]_vars

\* Goroutines run when they can, and an actor that stays free takes the next
\* operation (ActorPool's AcceptedRuns); the loop's select serves the ticker and
\* the events, a timer fires, a rescan walks on.  No client and no editor has to
\* come, no file has to be saved, and no event has to be lost.
Fairness ==
  /\ \A th \in Threads : WF_vars((Begin(th) \/ ThreadStep(th)) /\ UNCHANGED watchVars)
  /\ WF_vars(HandleEvent)
  /\ \A p \in Paths : WF_vars(TimerFires(p))
  /\ WF_vars(Tick)
  /\ WF_vars(TickRescan)
  /\ WF_vars(ScanStep)

FairSpec == Spec /\ Fairness

-----------------------------------------------------------------------------
(* Properties                                                              *)

\* A job between the start and the end of the function given to the actor.
InActor(j) == j.op \in Mutations \cup {"index"} /\ j.at # "queued"

\* Every variable holds a value of its type, and an actor executes exactly one
\* operation of its path: no thread touches the note's file outside its turn.
TypeOK ==
  /\ fs \in [Paths -> Content]
  /\ editing \in Paths \cup {None}
  /\ lastVer \in Nat
  /\ budget \in [calls : Nat, edits : Nat, losses : Nat]
  /\ cache \in [Paths -> Nat]
  /\ graph \in Graphs
  /\ fts \in [Paths -> Doc]
  /\ busy \in [Paths -> Threads \cup {None}]
  /\ job \in [Threads -> Job]
  /\ \A th \in Threads : InActor(job[th]) => busy[job[th].path] = th
  /\ \A p \in Paths : busy[p] # None => InActor(job[busy[p]]) /\ job[busy[p]].path = p
  /\ mode \in {"watch", "rescan"}
  /\ events \in Seq(Event)
  /\ clobbered \subseteq Paths /\ pending \subseteq Paths
  /\ todo \subseteq Paths /\ missed \subseteq Paths
  /\ timers \in [Paths -> Nat]
  /\ dirty \in BOOLEAN /\ scanning \in BOOLEAN /\ skipped \in BOOLEAN

\* The step in which thread th changes the file of its path.
Commits(th) ==
  /\ job[th].at = "commit" /\ job'[th].at # "commit"
  /\ fs'[job[th].path] # fs[job[th].path]

\* What th replaces is what it read, or something the editor did since.
ReplacesWhatItRead(th) ==
  LET j == job[th]  found == fs[j.path]
  IN  \/ found.ver = j.seen.ver /\ found.id = j.seen.id
      \/ found.ver # j.seen.ver /\ found.by = "editor"

\* An update, a patch, a move, a conditional delete and the write-back of an id
\* replace exactly the content they read and compared, and a create replaces
\* nothing, whatever runs in between: the actor makes read-check-write atomic.
\* (Of a path that notes are moved to this does not hold, see StaleWriteRejected.)
NoSilentOverwrite ==
  [][\A th \in Threads :
       /\ Commits(th) /\ job[th].path \notin Dests
       /\ job[th].op \in {"trash", "delete"} => job[th].match # 0
       => ReplacesWhatItRead(th)]_vars

\* README.md: "the server rejects stale writes with a `conflict` error instead
\* of silently overwriting", of every path.
StaleWriteRejected ==
  [][\A th \in Threads : Commits(th) /\ job[th].match # 0 => ReplacesWhatItRead(th)]_vars

\* A watched vault at rest lists no note that is gone from the disk, whoever
\* removed it, unless the event was lost or RemoveFile overlapped an operation
\* of the path's actor.
NoGhost ==
  AtRest /\ mode = "watch" =>
    \A p \in Paths \ (Dests \cup missed \cup clobbered) :
      ~Live(p) => cache[p] = 0 /\ fts[p] = NoDoc /\ graph.out[p] = {}

\* The inverse index names a note only under targets the note links to, even
\* while RemoveFile interleaves with the three steps of upsertWithLinks.
NoPhantom == \A p \in Paths \ Dests : PhantomFree(graph, p)

\* The indexes agree with the file.
Reflected(p) ==
  /\ cache[p] = fs[p].ver
  /\ fts[p] = DocOf(fs[p])
  /\ LinkKeys(graph.out[p]) = LinkKeys(LinksOf[fs[p].body])

\* Every note that parses comes to be indexed as it is on disk and stays so,
\* although events get lost, the editor saves in two steps, writes overlap rescans
\* and a patch does not tell the full-text index; unless RemoveFile was the last to
\* touch it or a tick found the previous rescan still active.  (Of a note that
\* stopped parsing the indexes keep what they had.)
Converges ==
  <>[](\/ skipped
       \/ \A p \in Paths \ Dests :
            Live(p) /\ ~IsEmpty(fs[p]) /\ Parses(fs[p]) /\ p \notin clobbered => Reflected(p))

\* README.md: the per-path actor pool "prevents races between the filesystem
\* watcher (which maintains the search index) and concurrent mutations": at rest
\* every note on disk that parses is in the index.
IndexedAtRest ==
  AtRest /\ mode = "watch" =>
    \A p \in Paths : Live(p) /\ ~IsEmpty(fs[p]) /\ Parses(fs[p]) => cache[p] # 0
=============================================================================
