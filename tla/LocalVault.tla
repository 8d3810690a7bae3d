----------------------------- MODULE LocalVault -----------------------------
(***************************************************************************)
(* internal/infrastructure/storage/localvault without its watcher: the     *)
(* mutations of a file vault, IndexFile and RemoveFile, the files on disk, *)
(* the summary cache, the backlink graph, the full-text index, and an      *)
(* editor that changes files behind the vault's back.                      *)
(*                                                                         *)
(* A thread is a goroutine that runs one operation at a time: a slot runs  *)
(* a call of the API, Loop the watcher's event loop, Scan a rescan, and a  *)
(* path the removal its rename timer starts.  The actor pool is its        *)
(* abstract specification (module Serializer): busy[p] is the operation    *)
(* the actor of p executes, and an operation that waits begins some time   *)
(* after the actor is free.  Between two steps of an operation every other *)
(* thread may run: one step is one access to the disk or to one index.     *)
(***************************************************************************)
EXTENDS Naturals, Sequences, BacklinkGraph

CONSTANTS
  Slots,            \* goroutines that serve API calls
  Loop, Scan,       \* the watcher's event loop, a rescan
  ApiPaths,         \* paths that API calls are about
  Dests,            \* paths a note may be moved to
  TrashOf,          \* the .trash path of each path
  Bodies, NoBody,   \* note bodies; the body of an empty file
  Garbled,          \* the text of a file whose front matter does not parse
  LinksOf,          \* what ParseLinks finds in each body
  Budgets,          \* bounds: how many API calls, editor's changes, lost events
  None

Threads   == Slots \cup {Loop, Scan} \cup Paths
Texts     == Bodies \cup {NoBody, Garbled}
Mutations == {"create", "update", "patch", "move", "trash", "delete"}

ASSUME NoneAssumption == None \notin Threads
ASSUME PathAssumption == /\ ApiPaths \subseteq Paths /\ Dests \subseteq Paths
                         /\ TrashOf \in [Paths -> Dests]
ASSUME LinkAssumption == /\ LinksOf \in [Texts -> SUBSET OutLink]
                         /\ LinksOf[NoBody] = {}
ASSUME BudgetAssumption ==
  Budgets \subseteq [calls : Nat, edits : Nat, losses : Nat]

VARIABLES
  fs,         \* the content of each file
  editing,    \* the path whose file the editor has truncated and not yet written
  lastVer,    \* version of the newest content
  budget,     \* the calls, edits and losses that may still happen
  cache,      \* NoteCache: the version each summary was made from, 0 for no entry
  graph,      \* BacklinkGraph
  fts,        \* the full-text index: the document of each path
  busy,       \* the thread whose operation each path's actor executes
  job,        \* what each thread is doing
  mode,       \* "watch", or "rescan" when fsnotify is unavailable
  events,     \* file events that fsnotify has not delivered yet
  clobbered   \* history: paths that RemoveFile took out of an index while the
              \* note was live or its actor at work, not indexed since

diskVars  == <<fs, editing, lastVer>>
indexVars == <<cache, graph, fts>>
vaultVars == <<fs, editing, lastVer, budget, cache, graph, fts, busy,
               job, mode, events, clobbered>>

-----------------------------------------------------------------------------
(* Contents.  Two contents with the same version have the same ETag, which *)
(* ignores the derived front matter and with it the note id.               *)

Content == [ver : Nat, body : Texts, id : BOOLEAN,
            by : {"vault", "editor"}]

Absent(who) == [ver |-> 0, body |-> NoBody, id |-> FALSE, by |-> who]
Empty(who)  == [ver |-> 1, body |-> NoBody, id |-> FALSE, by |-> who]

Live(p)    == fs[p].ver # 0
IsEmpty(c) == c.ver = 1

\* ParseNote returns the front matter and the body, and no error.
Parses(c) == c.body # Garbled

Doc     == [ver : Nat, body : Texts]
NoDoc   == [ver |-> 0, body |-> NoBody]
DocOf(c) == [ver |-> c.ver, body |-> c.body]

\* What a thread does next.
Places == {"idle", "queued", "read", "commit", "readback", "existing",
           "cache", "links", "diff", "fts", "moveCache", "moveGraph", "moveFts",
           "dropCache", "dropGraph", "dropFts"}

Job == [op : Mutations \cup {"none", "index", "unindex"}, at : Places,
        path : Paths \cup {None}, dst : Paths \cup {None},
        match : Nat,               \* ifMatch: a version, 0 when not given
        seen : Content,            \* the content read or written
        new : SUBSET OutLink,      \* the links to be stored
        old : SUBSET OutLink]      \* the links read from the graph

NoJob ==
  [op |-> "none", at |-> "idle", path |-> None, dst |-> None, match |-> 0,
   seen |-> Absent("vault"), new |-> {}, old |-> {}]

IndexJob(p) == [NoJob EXCEPT !.op = "index", !.at = "queued", !.path = p]

\* RemoveFile(p), and then IndexFile(d) unless d is None.
UnindexJob(p, d) ==
  [NoJob EXCEPT !.op = "unindex", !.at = "dropCache", !.path = p, !.dst = d]

Event == [kind : {"Create", "Write", "Gone", "Tmp"}, path : Paths]
Ev(k, p) == [kind |-> k, path |-> p]

\* fsnotify reports the changes in the order they were made.
Notify(es) ==
  events' = IF mode = "watch" THEN events \o es ELSE events

\* The vault after New has scanned it.
VaultInit ==
  /\ \E p \in ApiPaths \ Dests, b \in Bodies, present \in BOOLEAN :
       LET c == [ver |-> 2, body |-> b, id |-> TRUE, by |-> "vault"]
           live(q) == present /\ q = p
       IN  /\ fs    = [q \in Paths |-> IF live(q) THEN c ELSE Absent("vault")]
           /\ cache = [q \in Paths |-> IF live(q) THEN c.ver ELSE 0]
           /\ fts   = [q \in Paths |-> IF live(q) THEN DocOf(c) ELSE NoDoc]
           /\ graph = IF present THEN Upsert(NewBacklinkGraph, p, LinksOf[b])
                                 ELSE NewBacklinkGraph
  /\ editing = None
  /\ lastVer = 2
  /\ budget \in Budgets
  /\ busy = [p \in Paths |-> None]
  /\ job = [th \in Threads |-> NoJob]
  /\ mode \in {"watch", "rescan"}
  /\ events = <<>>
  /\ clobbered = {}

\* The bound on a kind of input.
Spend(kind) ==
  /\ budget[kind] > 0
  /\ budget' = [budget EXCEPT ![kind] = @ - 1]

-----------------------------------------------------------------------------
(* Entering and leaving the actor                                          *)

At(th, ops, at) == job[th].op \in ops /\ job[th].at = at

Goto(th, at) == job' = [job EXCEPT ![th].at = at]

\* The function given to the actor returns.
End(th) ==
  /\ job' = [job EXCEPT ![th] = NoJob]
  /\ busy' = [busy EXCEPT ![job[th].path] = None]

\* A client calls a mutation, with no ifMatch or with the ETag it has just seen.
Invoke(s) ==
  /\ job[s] = NoJob
  /\ Spend("calls")
  /\ \E op \in Mutations, p \in ApiPaths :
       \E m \in {0, IF op = "create" THEN 0 ELSE fs[p].ver},
          d \in CASE op = "move"  -> Dests \ {p}
                  [] op = "trash" -> {TrashOf[p]}
                  [] OTHER        -> {None} :
         job' = [job EXCEPT ![s] = [NoJob EXCEPT !.op = op, !.at = "queued",
                                      !.path = p, !.dst = d, !.match = m]]
  /\ UNCHANGED <<diskVars, indexVars, busy, mode, events, clobbered>>

\* Delete reads the note only to compare its ETag; Create does not read at all.
FirstStep(j) ==
  IF j.op = "create" \/ (j.op \in {"trash", "delete"} /\ j.match = 0)
  THEN "commit" ELSE "read"

\* Mutant: IndexFile and the rescan run outside the actor.
BeginUnserialized(th) ==
  LET p == job[th].path
  IN  /\ job[th].at = "queued"
      /\ busy[p] = None \/ job[th].op = "index"
      /\ busy' = [busy EXCEPT ![p] = th]
      /\ Goto(th, FirstStep(job[th]))
      /\ UNCHANGED <<diskVars, budget, indexVars, mode, events, clobbered>>

\* The actor of the path starts to execute the operation.
Begin(th) ==
  LET p == job[th].path
  IN  /\ job[th].at = "queued"
      /\ busy[p] = None
      /\ busy' = [busy EXCEPT ![p] = th]
      /\ Goto(th, FirstStep(job[th]))
      /\ UNCHANGED <<diskVars, budget, indexVars, mode, events, clobbered>>

-----------------------------------------------------------------------------
(* Mutations: the disk                                                     *)

\* readNote and the ifMatch comparison; a note that does not parse is an error.
ReadNote(th) ==
  LET j == job[th]  found == fs[j.path]
      fits == found.ver # 0 /\ Parses(found) /\ j.match \in {0, found.ver}
  IN  /\ At(th, Mutations, "read")
      /\ \/ /\ fits
            /\ job' = [job EXCEPT ![th].seen = found, ![th].at = "commit"]
            /\ UNCHANGED busy
         \/ /\ ~fits
            /\ End(th)
      /\ UNCHANGED <<diskVars, budget, indexVars, mode, events, clobbered>>

Store(p, c) ==
  /\ fs' = [fs EXCEPT ![p] = c]
  /\ Notify(IF Live(p) THEN <<Ev("Write", p)>>
                       ELSE <<Ev("Create", p), Ev("Write", p)>>)

Fresh(b, hasId, who) == [ver |-> lastVer + 1, body |-> b, id |-> hasId, by |-> who]

\* Create: O_EXCL, and the whole content.  Only NoteService.Create mints an id.
CreateFile(th) ==
  LET p == job[th].path
  IN  /\ At(th, {"create"}, "commit")
      /\ \/ /\ Live(p)
            /\ End(th)
            /\ UNCHANGED <<fs, lastVer, events>>
         \/ /\ ~Live(p)
            /\ \E b \in Bodies, hasId \in BOOLEAN :
                 LET c == Fresh(b, hasId, "vault")
                 IN  /\ Store(p, c)
                     /\ job' = [job EXCEPT ![th].seen = c, ![th].new = LinksOf[b],
                                           ![th].at = "readback"]
            /\ lastVer' = lastVer + 1
            /\ UNCHANGED busy
      /\ UNCHANGED <<editing, budget, indexVars, mode, clobbered>>

\* Create's summary is made from the file as it is now, its links and its
\* document body from what it was asked to write.
ReadBack(th) ==
  LET found == fs[job[th].path]
  IN  /\ At(th, {"create"}, "readback")
      /\ \/ /\ found.ver # 0 /\ Parses(found)
            /\ job' = [job EXCEPT ![th].seen.ver = found.ver, ![th].at = "cache"]
            /\ UNCHANGED busy
         \/ /\ found.ver = 0 \/ ~Parses(found)
            /\ End(th)
      /\ UNCHANGED <<diskVars, budget, indexVars, mode, events, clobbered>>

\* UpdateBody, Replace and PatchFrontMatter write the file in place; a patch
\* keeps the body.
WriteNote(th) ==
  LET j == job[th]
  IN  /\ At(th, {"update", "patch"}, "commit")
      /\ \E b \in IF j.op = "patch" THEN {j.seen.body} ELSE Bodies :
           LET c == Fresh(b, j.seen.id, "vault")
           IN  /\ Store(j.path, c)
               /\ job' = [job EXCEPT ![th].seen = c, ![th].new = LinksOf[b],
                    ![th].at = IF j.op = "patch" THEN "existing" ELSE "cache"]
      /\ lastVer' = lastVer + 1
      /\ UNCHANGED <<editing, budget, indexVars, busy, mode, clobbered>>

\* The write fails (disk full) after the file was created or truncated: the
\* error is returned and no index is told.
WriteFails(th) ==
  LET j == job[th]
  IN  /\ At(th, {"create", "update", "patch"}, "commit")
      /\ j.op = "create" => ~Live(j.path)
      /\ Store(j.path, Empty("vault"))
      /\ End(th)
      /\ UNCHANGED <<editing, lastVer, budget, indexVars, mode, clobbered>>

\* os.Rename replaces whatever is at the destination; the editor's open file
\* goes where its name goes.  Renaming a file to itself does nothing.
RenameFile(p, d) ==
  /\ fs' = IF p = d THEN fs ELSE [fs EXCEPT ![d] = fs[p], ![p] = Absent("vault")]
  /\ editing' = CASE p = d -> editing
                  [] editing = p -> d
                  [] editing = d /\ p # d -> None
                  [] OTHER -> editing
  /\ Notify(IF p = d THEN <<>> ELSE <<Ev("Gone", p), Ev("Create", d)>>)

\* Move and the soft Delete.
RenameNote(th) ==
  LET j == job[th]
  IN  /\ At(th, {"move", "trash"}, "commit")
      /\ \/ /\ Live(j.path)
            /\ RenameFile(j.path, j.dst)
            /\ Goto(th, IF j.op = "move" THEN "moveCache" ELSE "dropCache")
            /\ UNCHANGED busy
         \/ /\ ~Live(j.path)
            /\ End(th)
            /\ UNCHANGED <<fs, editing, events>>
      /\ UNCHANGED <<lastVer, budget, indexVars, mode, clobbered>>

\* An open file whose last name is gone keeps no path.
RemovePath(p, who) ==
  /\ fs' = [fs EXCEPT ![p] = Absent(who)]
  /\ editing' = IF editing = p THEN None ELSE editing
  /\ Notify(<<Ev("Gone", p)>>)

\* The hard Delete.
DeleteNote(th) ==
  LET p == job[th].path
  IN  /\ At(th, {"delete"}, "commit")
      /\ \/ /\ Live(p)
            /\ RemovePath(p, "vault")
            /\ Goto(th, "dropCache")
            /\ UNCHANGED busy
         \/ /\ ~Live(p)
            /\ End(th)
            /\ UNCHANGED <<fs, editing, events>>
      /\ UNCHANGED <<lastVer, budget, indexVars, mode, clobbered>>

-----------------------------------------------------------------------------
(* indexNote: the disk                                                     *)

\* A file that is missing, empty or does not parse is left alone, and so is what
\* the indexes know of it.
IndexRead(th) ==
  LET p == job[th].path  c == fs[p]
  IN  /\ At(th, {"index"}, "read")
      /\ \/ /\ ~Live(p) \/ IsEmpty(c) \/ ~Parses(c)
            /\ End(th)
            /\ UNCHANGED clobbered
         \/ /\ Live(p) /\ ~IsEmpty(c) /\ Parses(c)
            /\ job' = [job EXCEPT ![th].seen = c, ![th].new = LinksOf[c.body],
                                  ![th].at = IF c.id THEN "cache" ELSE "commit"]
            /\ clobbered' = clobbered \ {p}
            /\ UNCHANGED busy
      /\ UNCHANGED <<diskVars, budget, indexVars, mode, events>>

\* The derived id is written to a temporary file that is renamed over the note;
\* when that fails the note is indexed all the same.
WriteBack(th) ==
  LET j == job[th]
  IN  /\ At(th, {"index"}, "commit")
      /\ \/ /\ fs' = [fs EXCEPT ![j.path] = [j.seen EXCEPT !.id = TRUE]]
            /\ editing' = IF editing = j.path THEN None ELSE editing
            /\ Notify(<<Ev("Tmp", j.path), Ev("Create", j.path)>>)
         \/ UNCHANGED <<fs, editing, events>>
      /\ Goto(th, "cache")
      /\ UNCHANGED <<lastVer, budget, indexVars, busy, mode, clobbered>>

-----------------------------------------------------------------------------
(* The indexes                                                             *)

noIndexStep == <<diskVars, budget, mode, events>>

\* PatchFrontMatter reads the links it will put back.
ExistingLinks(th) ==
  /\ At(th, {"patch"}, "existing")
  /\ job' = [job EXCEPT ![th].new = graph.out[job[th].path], ![th].at = "cache"]
  /\ UNCHANGED <<noIndexStep, indexVars, busy, clobbered>>

\* upsertWithLinks: three critical sections of two mutexes.
CacheSet(th) ==
  /\ job[th].at = "cache"
  /\ cache' = [cache EXCEPT ![job[th].path] = job[th].seen.ver]
  /\ Goto(th, "links")
  /\ UNCHANGED <<noIndexStep, graph, fts, busy, clobbered>>

GraphLinks(th) ==
  /\ job[th].at = "links"
  /\ job' = [job EXCEPT ![th].old = graph.out[job[th].path], ![th].at = "diff"]
  /\ UNCHANGED <<noIndexStep, indexVars, busy, clobbered>>

\* A patch ends here: it does not tell the full-text index.
GraphDiff(th) ==
  LET j == job[th]
  IN  /\ j.at = "diff"
      /\ graph' = UpsertDiff(graph, j.path, j.old, j.new)
      /\ IF j.op = "patch" THEN End(th) ELSE Goto(th, "fts") /\ UNCHANGED busy
      /\ UNCHANGED <<noIndexStep, cache, fts, clobbered>>

FtsAdd(th) ==
  /\ job[th].at = "fts"
  /\ fts' = [fts EXCEPT ![job[th].path] = DocOf(job[th].seen)]
  /\ End(th)
  /\ UNCHANGED <<noIndexStep, cache, graph, clobbered>>

\* Move holds the actor of the old path and writes the entries of both.
MoveCache(th) ==
  LET j == job[th]
  IN  /\ j.at = "moveCache"
      /\ cache' = [cache EXCEPT ![j.path] = 0, ![j.dst] = j.seen.ver]
      /\ Goto(th, "moveGraph")
      /\ UNCHANGED <<noIndexStep, graph, fts, busy, clobbered>>

MoveGraph(th) ==
  LET j == job[th]
  IN  /\ j.at = "moveGraph"
      /\ graph' = Upsert(Remove(graph, j.path), j.dst, LinksOf[j.seen.body])
      /\ Goto(th, "moveFts")
      /\ UNCHANGED <<noIndexStep, cache, fts, busy, clobbered>>

MoveFts(th) ==
  LET j == job[th]
  IN  /\ j.at = "moveFts"
      /\ fts' = [fts EXCEPT ![j.path] = NoDoc, ![j.dst] = DocOf(j.seen)]
      /\ End(th)
      /\ UNCHANGED <<noIndexStep, cache, graph, clobbered>>

\* removeNoteFromAllIndexes, run by Delete inside the actor and by RemoveFile
\* outside it.
Clobber(th) ==
  LET j == job[th]
  IN  clobbered' = IF j.op = "unindex" /\ (Live(j.path) \/ busy[j.path] # None)
                   THEN clobbered \cup {j.path} ELSE clobbered

DropCache(th) ==
  /\ job[th].at = "dropCache"
  /\ cache' = [cache EXCEPT ![job[th].path] = 0]
  /\ Goto(th, "dropGraph")
  /\ Clobber(th)
  /\ UNCHANGED <<noIndexStep, graph, fts, busy>>

DropGraph(th) ==
  /\ job[th].at = "dropGraph"
  /\ graph' = Remove(graph, job[th].path)
  /\ Goto(th, "dropFts")
  /\ Clobber(th)
  /\ UNCHANGED <<noIndexStep, cache, fts, busy>>

DropFts(th) ==
  LET j == job[th]
  IN  /\ j.at = "dropFts"
      /\ fts' = [fts EXCEPT ![j.path] = NoDoc]
      /\ Clobber(th)
      /\ \/ /\ j.op # "unindex"
            /\ End(th)
         \/ /\ j.op = "unindex"
            /\ job' = [job EXCEPT ![th] =
                         IF j.dst = None THEN NoJob ELSE IndexJob(j.dst)]
            /\ UNCHANGED busy
      /\ UNCHANGED <<noIndexStep, cache, graph>>

-----------------------------------------------------------------------------
(* The editor (external): it saves a file in place, or removes it          *)

Truncate(p) ==
  /\ editing = None /\ Live(p)
  /\ Spend("edits")
  /\ editing' = p
  /\ Store(p, Empty("editor"))
  /\ UNCHANGED <<lastVer, indexVars, busy, job, mode, clobbered>>

\* The text the editor writes has kept the note's id or lost it, or its front
\* matter does not parse.
Save ==
  /\ editing # None
  /\ \E b \in Bodies \cup {Garbled}, hasId \in BOOLEAN :
       /\ b = Garbled => ~hasId
       /\ Store(editing, Fresh(b, hasId, "editor"))
  /\ editing' = None
  /\ lastVer' = lastVer + 1
  /\ UNCHANGED <<budget, indexVars, busy, job, mode, clobbered>>

RemoveByEditor(p) ==
  /\ Live(p)
  /\ Spend("edits")
  /\ RemovePath(p, "editor")
  /\ UNCHANGED <<lastVer, indexVars, busy, job, mode, clobbered>>

-----------------------------------------------------------------------------
DiskStep(th) ==
  \/ ReadNote(th) \/ CreateFile(th) \/ ReadBack(th) \/ WriteNote(th)
  \/ WriteFails(th) \/ RenameNote(th) \/ DeleteNote(th)
  \/ IndexRead(th) \/ WriteBack(th)

IndexStep(th) ==
  \/ ExistingLinks(th) \/ CacheSet(th) \/ GraphLinks(th) \/ GraphDiff(th)
  \/ FtsAdd(th) \/ MoveCache(th) \/ MoveGraph(th) \/ MoveFts(th)
  \/ DropCache(th) \/ DropGraph(th) \/ DropFts(th)

ThreadStep(th) == DiskStep(th) \/ IndexStep(th)

EditorStep ==
  \/ \E p \in ApiPaths : Truncate(p) \/ RemoveByEditor(p)
  \/ Save

VaultNext ==
  \/ \E s \in Slots : Invoke(s)
  \/ \E th \in Threads : Begin(th) \/ ThreadStep(th)
  \/ EditorStep
=============================================================================
