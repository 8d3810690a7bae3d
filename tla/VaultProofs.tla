----------------------------- MODULE VaultProofs ----------------------------
(***************************************************************************)
(* Proofs about the local vault and its watcher, for every set of notes,   *)
(* links, bodies and callers: the types, and with them that the actor of a *)
(* path executes one operation at a time; no backlink outlives its link,   *)
(* no write of the vault overwrites what it has not read, and a watched    *)
(* vault at rest lists no note that is gone.                               *)
(*                                                                         *)
(* The types are not inductive: the shape of the jobs (JobShape) tells     *)
(* which steps are taken inside of the actor.                              *)
(***************************************************************************)
EXTENDS VaultWatcher, TLAPS

-----------------------------------------------------------------------------
(* The types, and the exclusion of the actors                              *)

\* What an operation has to do next fits the operation.
JobShape(j) ==
  /\ j.op = "none" <=> j.at = "idle"
  /\ j.op # "none" => j.path \in Paths
  /\ j.op \in {"move", "trash"} => j.dst \in Dests
  /\ j.op = "unindex" => j.at \in {"dropCache", "dropGraph", "dropFts"}
  /\ j.at \in {"moveCache", "moveGraph", "moveFts"} => j.op = "move"

\* The jobs, and the exclusion.
JobsInv ==
  /\ job \in [Threads -> Job]
  /\ busy \in [Paths -> Threads \cup {None}]
  /\ \A th \in Threads : JobShape(job[th])
  /\ \A th \in Threads : InActor(job[th]) => busy[job[th].path] = th
  /\ \A p \in Paths : busy[p] # None => InActor(job[busy[p]]) /\ job[busy[p]].path = p

\* The oldest event and the rest of the events are well typed.
LEMMA OldestEvent ==
  ASSUME NEW es \in Seq(Event), es # <<>>
  PROVE  Head(es) \in Event /\ Tail(es) \in Seq(Event)
  OBVIOUS

\* An idle thread's job is a job.
LEMMA NoJobType == NoJob \in Job /\ JobShape(NoJob)
  BY DEF NoJob, Job, Places, JobShape, Absent, Content, Mutations, Texts

\* Thread th keeps its place inside or outside of the actor.
Stays(th) ==
  /\ job' \in [Threads -> Job]
  /\ \A t \in Threads \ {th} : job'[t] = job[t]
  /\ JobShape(job'[th])
  /\ InActor(job'[th]) <=> InActor(job[th])
  /\ InActor(job[th]) => job'[th].path = job[th].path
  /\ busy' = busy

\* A thread that keeps its place does not disturb the exclusion.
LEMMA Keep ==
  ASSUME JobsInv, NEW th \in Threads, Stays(th)
  PROVE  JobsInv'
  BY NoneAssumption DEF JobsInv, Stays, InActor

\* When the function given to the actor returns, the actor is free and no other
\* thread notices.
LEMMA Leave ==
  ASSUME JobsInv, NEW th \in Threads, InActor(job[th]), End(th)
  PROVE  JobsInv'
<1>1. job[th].path \in Paths /\ busy[job[th].path] = th
  BY DEF JobsInv, JobShape, InActor, Mutations
<1>2. job' \in [Threads -> Job] /\ job'[th] = NoJob /\ \A t \in Threads \ {th} : job'[t] = job[t]
  BY NoJobType DEF JobsInv, End
<1>3. busy' \in [Paths -> Threads \cup {None}] /\ busy'[job[th].path] = None
      /\ \A p \in Paths \ {job[th].path} : busy'[p] = busy[p]
  BY <1>1 DEF JobsInv, End
<1>4. ~InActor(job'[th]) 
  BY <1>2 DEF InActor, NoJob, Mutations
<1>5. \A t \in Threads : JobShape(job'[t])
  BY <1>2, NoJobType DEF JobsInv
<1>6. \A t \in Threads : InActor(job'[t]) => busy'[job'[t].path] = t
  BY <1>1, <1>2, <1>3, <1>4 DEF JobsInv, InActor, JobShape, Mutations
<1>7. \A p \in Paths : busy'[p] # None => InActor(job'[busy'[p]]) /\ job'[busy'[p]].path = p
  BY <1>1, <1>2, <1>3, <1>4 DEF JobsInv, InActor
<1> QED BY <1>2, <1>3, <1>5, <1>6, <1>7 DEF JobsInv

\* An operation begins in an actor that is free, so it is alone in it.
LEMMA Enter ==
  ASSUME JobsInv, NEW th \in Threads, Begin(th)
  PROVE  JobsInv'
  <1> DEFINE p == job[th].path
<1>1. job[th].at = "queued" /\ job[th].op \notin {"none", "unindex"} /\ p \in Paths /\ busy[p] = None
  BY DEF JobsInv, JobShape, Begin
<1>2. /\ job' \in [Threads -> Job] /\ \A t \in Threads \ {th} : job'[t] = job[t]
      /\ job'[th].at \in {"commit", "read"} 
      /\ job'[th].op = job[th].op /\ job'[th].path = p /\ job'[th].dst = job[th].dst
  BY <1>1 DEF JobsInv, Begin, Goto, FirstStep, Job, Places
<1>3. busy' \in [Paths -> Threads \cup {None}] /\ busy'[p] = th /\ \A q \in Paths \ {p} : busy'[q] = busy[q]
  BY <1>1 DEF JobsInv, Begin
<1>4. InActor(job'[th]) /\ ~InActor(job[th])
  BY <1>1, <1>2 DEF InActor, JobsInv, Job
<1>5. \A t \in Threads : JobShape(job'[t])
  BY <1>1, <1>2 DEF JobsInv, JobShape
<1>6. ASSUME NEW t \in Threads, InActor(job'[t])
      PROVE  busy'[job'[t].path] = t
  <2>1. CASE t = th  BY <2>1, <1>2, <1>3
  <2>2. CASE t # th
    <3>1. job'[t] = job[t]  BY <2>2, <1>2
    <3>2. busy[job[t].path] = t /\ t # None
      BY <3>1, <1>6, NoneAssumption DEF JobsInv
    <3>3. job[t].path \in Paths \ {p}
      BY <3>1, <3>2, <1>1, <1>6 DEF JobsInv, JobShape, InActor, Mutations
    <3> QED BY <3>1, <3>2, <3>3, <1>3
  <2> QED BY <2>1, <2>2
<1>7. \A q \in Paths : busy'[q] # None => InActor(job'[busy'[q]]) /\ job'[busy'[q]].path = q
  BY <1>1, <1>2, <1>3, <1>4 DEF JobsInv, InActor
<1> QED BY <1>2, <1>3, <1>5, <1>6, <1>7 DEF JobsInv

\* Thread th ends its operation.
Finishes(th) == InActor(job[th]) /\ End(th)

\* The updates of a job that the actions make.
LEMMA JobAt ==
  ASSUME NEW j \in Job, NEW a \in Places
  PROVE  [j EXCEPT !.at = a] \in Job
  BY DEF Job

\* So does remembering a content.
LEMMA JobSeen ==
  ASSUME NEW j \in Job, NEW s \in Content, NEW a \in Places
  PROVE  [j EXCEPT !.seen = s, !.at = a] \in Job
  BY DEF Job

\* So does remembering links.
LEMMA JobLinks ==
  ASSUME NEW j \in Job, NEW n \in SUBSET OutLink, NEW a \in Places
  PROVE  /\ [j EXCEPT !.new = n, !.at = a] \in Job
         /\ [j EXCEPT !.old = n, !.at = a] \in Job
  BY DEF Job

\* So does remembering a content and its links.
LEMMA JobRead ==
  ASSUME NEW j \in Job, NEW s \in Content, NEW n \in SUBSET OutLink, NEW a \in Places
  PROVE  [j EXCEPT !.seen = s, !.new = n, !.at = a] \in Job
  BY DEF Job

\* A job that indexes a file starts in the queue of the actor.
LEMMA IndexJobType ==
  ASSUME NEW q \in Paths
  PROVE  /\ IndexJob(q) \in Job /\ JobShape(IndexJob(q)) /\ ~InActor(IndexJob(q))
  BY NoJobType DEF IndexJob, Job, Places, JobShape, InActor

\* A job of RemoveFile stays outside of the actor.
LEMMA UnindexJobType ==
  ASSUME NEW q \in Paths, NEW d \in Paths \cup {None}
  PROVE  /\ UnindexJob(q, d) \in Job /\ JobShape(UnindexJob(q, d))
         /\ ~InActor(UnindexJob(q, d))
  BY NoJobType DEF UnindexJob, Job, Places, JobShape, InActor, Mutations

\* A thread inside the actor goes on with its operation.
LEMMA GoesOn ==
  ASSUME JobsInv, NEW th \in Threads, InActor(job[th]), NEW k \in Job,
         job' = [job EXCEPT ![th] = k], busy' = busy,
         k.op = job[th].op, k.path = job[th].path, k.dst = job[th].dst,
         k.at \notin {"idle", "queued"},
         k.at \in {"moveCache", "moveGraph", "moveFts"} => k.op = "move"
  PROVE  Stays(th)
  BY DEF Stays, JobsInv, JobShape, InActor, Mutations

\* A thread goes on with dropping a note, inside the actor or outside of it.
LEMMA DropsOn ==
  ASSUME JobsInv, NEW th \in Threads, NEW k \in Job,
         job' = [job EXCEPT ![th] = k], busy' = busy,
         k.op = job[th].op, k.path = job[th].path, k.dst = job[th].dst,
         job[th].at \in {"dropCache", "dropGraph"}, k.at \in {"dropGraph", "dropFts"}
  PROVE  Stays(th)
  BY DEF Stays, JobsInv, JobShape, InActor, Mutations

\* A step on the disk keeps the thread in the actor or ends its operation.
LEMMA DiskJobs ==
  ASSUME TypeOK, JobsInv, NEW th \in Threads, DiskStep(th)
  PROVE  Stays(th) \/ Finishes(th)
<1> DEFINE j == job[th]
           p == j.path
<1>0. /\ j \in Job /\ fs \in [Paths -> Content] /\ lastVer \in Nat
      /\ j.op # "none" => p \in Paths
  BY DEF TypeOK, JobsInv, JobShape
<1>1. CASE ReadNote(th)
  <2>1. InActor(j) /\ fs[p] \in Content
    BY <1>0, <1>1 DEF ReadNote, At, InActor, Mutations
  <2>2. CASE job' = [job EXCEPT ![th].seen = fs[p], ![th].at = "commit"] /\ busy' = busy
    <3> DEFINE k == [j EXCEPT !.seen = fs[p], !.at = "commit"]
    <3>1. k \in Job  BY <1>0, <2>1, JobSeen, JobLinks DEF Places
    <3>2. job' = [job EXCEPT ![th] = k]  BY <2>2
    <3>3. k.op = j.op /\ k.path = p /\ k.dst = j.dst /\ k.at = "commit"  BY <1>0 DEF Job
    <3> QED BY <2>1, <2>2, <3>1, <3>2, <3>3, GoesOn
  <2> QED BY <1>1, <2>1, <2>2 DEF ReadNote, Finishes
<1>2. CASE CreateFile(th)
  <2>1. InActor(j)
    BY <1>2 DEF CreateFile, At, InActor, Mutations
  <2>2. ASSUME NEW b \in Bodies, NEW hasId \in BOOLEAN, busy' = busy,
               job' = [job EXCEPT ![th].seen = Fresh(b, hasId, "vault"),
                                  ![th].new = LinksOf[b], ![th].at = "readback"]
        PROVE  Stays(th)
    <3> DEFINE k == [j EXCEPT !.seen = Fresh(b, hasId, "vault"),
                              !.new = LinksOf[b], !.at = "readback"]
    <3>1. Fresh(b, hasId, "vault") \in Content /\ LinksOf[b] \in SUBSET OutLink
      BY <1>0, LinkAssumption DEF Fresh, Content, Texts
    <3>2. k \in Job  BY <1>0, <3>1, JobSeen, JobRead DEF Places
    <3>3. job' = [job EXCEPT ![th] = k]  BY <2>2
    <3>4. k.op = j.op /\ k.path = p /\ k.dst = j.dst /\ k.at = "readback"  BY <1>0 DEF Job
    <3> QED BY <2>1, <2>2, <3>2, <3>3, <3>4, GoesOn
  <2> QED BY <1>2, <2>1, <2>2 DEF CreateFile, Finishes
<1>3. CASE ReadBack(th)
  <2>1. InActor(j) /\ fs[p] \in Content
    BY <1>0, <1>3 DEF ReadBack, At, InActor, Mutations
  <2>2. CASE job' = [job EXCEPT ![th].seen.ver = fs[p].ver, ![th].at = "cache"] /\ busy' = busy
    <3> DEFINE s == [j.seen EXCEPT !.ver = fs[p].ver]
               k == [j EXCEPT !.seen = s, !.at = "cache"]
    <3>1. s \in Content  BY <1>0, <2>1 DEF Job, Content
    <3>2. k \in Job  BY <1>0, <3>1, JobSeen, JobRead DEF Places
    <3>3. job' = [job EXCEPT ![th] = k]  BY <2>2
    <3>4. k.op = j.op /\ k.path = p /\ k.dst = j.dst /\ k.at = "cache"  BY <1>0 DEF Job
    <3> QED BY <2>1, <2>2, <3>2, <3>3, <3>4, GoesOn
  <2> QED BY <1>3, <2>1, <2>2 DEF ReadBack, Finishes
<1>4. CASE WriteNote(th)
  <2>1. InActor(j) /\ busy' = busy
    BY <1>4 DEF WriteNote, At, InActor, Mutations
  <2>2. PICK b \in IF j.op = "patch" THEN {j.seen.body} ELSE Bodies :
               job' = [job EXCEPT ![th].seen = Fresh(b, j.seen.id, "vault"),
                                  ![th].new = LinksOf[b],
                                  ![th].at = IF j.op = "patch" THEN "existing" ELSE "cache"]
    BY <1>4 DEF WriteNote
  <2> DEFINE s == Fresh(b, j.seen.id, "vault")
             a == IF j.op = "patch" THEN "existing" ELSE "cache"
             k == [j EXCEPT !.seen = s, !.new = LinksOf[b], !.at = a]
  <2>3. s \in Content /\ LinksOf[b] \in SUBSET OutLink
    BY <1>0, LinkAssumption DEF Fresh, Content, Job, Texts
  <2>4. k \in Job  BY <1>0, <2>3, JobSeen, JobRead DEF Places
  <2>5. job' = [job EXCEPT ![th] = k]  BY <2>2
  <2>6. k.op = j.op /\ k.path = p /\ k.dst = j.dst /\ k.at \in {"existing", "cache"}
    BY <1>0 DEF Job
  <2> QED BY <2>1, <2>4, <2>5, <2>6, GoesOn
<1>5. CASE WriteFails(th)
  BY <1>5 DEF WriteFails, Finishes, At, InActor, Mutations
<1>6. CASE RenameNote(th)
  <2>1. InActor(j)  BY <1>6 DEF RenameNote, At, InActor, Mutations
  <2>2. CASE Goto(th, IF j.op = "move" THEN "moveCache" ELSE "dropCache") /\ busy' = busy
    <3> DEFINE k == [j EXCEPT !.at = IF j.op = "move" THEN "moveCache" ELSE "dropCache"]
    <3>1. k \in Job  BY <1>0, JobAt DEF Places
    <3>2. job' = [job EXCEPT ![th] = k]  BY <2>2 DEF Goto
    <3>3. /\ k.op = j.op /\ k.path = p /\ k.dst = j.dst /\ k.at \in {"moveCache", "dropCache"}
          /\ k.at = "moveCache" => k.op = "move"
      BY <1>0 DEF Job
    <3> QED BY <2>1, <2>2, <3>1, <3>2, <3>3, GoesOn
  <2> QED BY <1>6, <2>1, <2>2 DEF RenameNote, Finishes
<1>7. CASE DeleteNote(th)
  <2>1. InActor(j)  BY <1>7 DEF DeleteNote, At, InActor, Mutations
  <2>2. CASE Goto(th, "dropCache") /\ busy' = busy
    <3> DEFINE k == [j EXCEPT !.at = "dropCache"]
    <3>1. k \in Job  BY <1>0, JobAt DEF Places
    <3>2. job' = [job EXCEPT ![th] = k]  BY <2>2 DEF Goto
    <3>3. k.op = j.op /\ k.path = p /\ k.dst = j.dst /\ k.at = "dropCache"  BY <1>0 DEF Job
    <3> QED BY <2>1, <2>2, <3>1, <3>2, <3>3, GoesOn
  <2> QED BY <1>7, <2>1, <2>2 DEF DeleteNote, Finishes
<1>8. CASE IndexRead(th)
  <2>1. InActor(j) /\ p \in Paths  BY <1>0, <1>8 DEF IndexRead, At, InActor, Mutations
  <2>2. CASE /\ job' = [job EXCEPT ![th].seen = fs[p], ![th].new = LinksOf[fs[p].body],
                                    ![th].at = IF fs[p].id THEN "cache" ELSE "commit"]
             /\ busy' = busy
    <3> DEFINE a == IF fs[p].id THEN "cache" ELSE "commit"
               k == [j EXCEPT !.seen = fs[p], !.new = LinksOf[fs[p].body], !.at = a]
    <3>1. fs[p] \in Content /\ LinksOf[fs[p].body] \in SUBSET OutLink
      BY <1>0, <2>1, LinkAssumption DEF Content
    <3>2. k \in Job  BY <1>0, <3>1, JobSeen, JobRead DEF Places
    <3>3. job' = [job EXCEPT ![th] = k]  BY <2>2
    <3>4. k.op = j.op /\ k.path = p /\ k.dst = j.dst /\ k.at \in {"cache", "commit"}  BY <1>0 DEF Job
    <3> QED BY <2>1, <2>2, <3>2, <3>3, <3>4, GoesOn
  <2> QED BY <1>8, <2>1, <2>2 DEF IndexRead, Finishes
<1>9. CASE WriteBack(th)
  <2>1. InActor(j) /\ busy' = busy  BY <1>9 DEF WriteBack, At, InActor, Mutations
  <2> DEFINE k == [j EXCEPT !.at = "cache"]
  <2>2. k \in Job  BY <1>0, JobAt DEF Places
  <2>3. job' = [job EXCEPT ![th] = k]  BY <1>9 DEF WriteBack, Goto
  <2>4. k.op = j.op /\ k.path = p /\ k.dst = j.dst /\ k.at = "cache"  BY <1>0 DEF Job
  <2> QED BY <2>1, <2>2, <2>3, <2>4, GoesOn
<1> QED BY <1>1, <1>2, <1>3, <1>4, <1>5, <1>6, <1>7, <1>8, <1>9 DEF DiskStep

\* So does a step on an index, which RemoveFile takes outside of the actor.
LEMMA IndexJobs ==
  ASSUME TypeOK, JobsInv, NEW th \in Threads, IndexStep(th)
  PROVE  Stays(th) \/ Finishes(th)
<1> DEFINE j == job[th]
           p == j.path
<1>0. /\ j \in Job /\ graph \in Graphs
      /\ j.op # "none" => p \in Paths
  BY DEF TypeOK, JobsInv, JobShape
<1>1. CASE ExistingLinks(th)
  <2>1. InActor(j) /\ busy' = busy /\ graph.out[p] \in SUBSET OutLink
    BY <1>0, <1>1 DEF ExistingLinks, At, InActor, Mutations, Graphs
  <2> DEFINE k == [j EXCEPT !.new = graph.out[p], !.at = "cache"]
  <2>2. k \in Job  BY <1>0, <2>1, JobSeen, JobLinks DEF Places
  <2>3. job' = [job EXCEPT ![th] = k]  BY <1>1 DEF ExistingLinks
  <2>4. k.op = j.op /\ k.path = p /\ k.dst = j.dst /\ k.at = "cache"  BY <1>0 DEF Job
  <2> QED BY <2>1, <2>2, <2>3, <2>4, GoesOn
<1>3. CASE GraphLinks(th)
  <2>1. InActor(j) /\ busy' = busy /\ graph.out[p] \in SUBSET OutLink
    BY <1>0, <1>3 DEF GraphLinks, InActor, Mutations, Graphs, JobsInv, JobShape, Job
  <2> DEFINE k == [j EXCEPT !.old = graph.out[p], !.at = "diff"]
  <2>2. k \in Job  BY <1>0, <2>1, JobSeen, JobLinks DEF Places
  <2>3. job' = [job EXCEPT ![th] = k]  BY <1>3 DEF GraphLinks
  <2>4. k.op = j.op /\ k.path = p /\ k.dst = j.dst /\ k.at = "diff"  BY <1>0 DEF Job
  <2> QED BY <2>1, <2>2, <2>3, <2>4, GoesOn
<1>11. CASE DropFts(th)
  <2>1. CASE j.op # "unindex"
    BY <1>11, <2>1 DEF DropFts, Finishes, InActor, JobsInv, JobShape, Job
  <2>2. CASE j.op = "unindex"
    <3> DEFINE k == IF j.dst = None THEN NoJob ELSE IndexJob(j.dst)
    <3>1. k \in Job /\ JobShape(k) /\ ~InActor(k)
      <4>1. CASE j.dst = None  BY <4>1, NoJobType DEF NoJob, InActor, Mutations
      <4>2. CASE j.dst # None
        <5>1. j.dst \in Paths  BY <1>0, <4>2 DEF Job
        <5> QED BY <4>2, <5>1, IndexJobType
      <4> QED BY <4>1, <4>2
    <3>2. job' = [job EXCEPT ![th] = k] /\ busy' = busy  BY <1>11, <2>2 DEF DropFts
    <3>3. ~InActor(j)  BY <2>2 DEF InActor, Mutations
    <3> QED BY <3>1, <3>2, <3>3 DEF Stays, JobsInv
  <2> QED BY <2>1, <2>2
<1>12. CASE CacheSet(th) \/ GraphDiff(th) \/ FtsAdd(th) \/ MoveCache(th) \/ MoveGraph(th) \/ MoveFts(th)
  <2>1. InActor(j)
    BY <1>0, <1>12 DEF CacheSet, GraphDiff, FtsAdd, MoveCache, MoveGraph, MoveFts,
      InActor, JobsInv, JobShape, Job
  <2>2. ASSUME NEW a \in {"links", "fts", "moveGraph", "moveFts"},
               Goto(th, a), busy' = busy, a \in {"moveGraph", "moveFts"} => j.op = "move"
        PROVE  Stays(th)
    <3> DEFINE k == [j EXCEPT !.at = a]
    <3>1. k \in Job  BY <1>0, JobAt DEF Places
    <3>2. job' = [job EXCEPT ![th] = k]  BY <2>2 DEF Goto
    <3>3. k.op = j.op /\ k.path = p /\ k.dst = j.dst /\ k.at = a  BY <1>0 DEF Job
    <3> QED BY <2>1, <2>2, <3>1, <3>2, <3>3, GoesOn
  <2> QED BY <1>12, <2>1, <2>2 DEF CacheSet, GraphDiff, FtsAdd, MoveCache, MoveGraph, MoveFts,
    Finishes, JobsInv, JobShape
<1>13. CASE DropCache(th) \/ DropGraph(th)
  <2>1. PICK a \in {"dropGraph", "dropFts"} : Goto(th, a)
    BY <1>13 DEF DropCache, DropGraph
  <2>2. busy' = busy /\ j.at \in {"dropCache", "dropGraph"}  BY <1>13 DEF DropCache, DropGraph
  <2> DEFINE k == [j EXCEPT !.at = a]
  <2>3. k \in Job  BY <1>0, JobAt DEF Places
  <2>4. job' = [job EXCEPT ![th] = k]  BY <2>1 DEF Goto
  <2>5. k.op = j.op /\ k.path = p /\ k.dst = j.dst /\ k.at = a  BY <1>0 DEF Job
  <2> QED BY <2>2, <2>3, <2>4, <2>5, DropsOn
<1> QED BY <1>1, <1>3, <1>11, <1>12, <1>13 DEF IndexStep

\* A thread outside of the actor changes its job and stays outside.
LEMMA StaysOutside ==
  ASSUME JobsInv, NEW th \in Threads, ~InActor(job[th]), NEW k \in Job, JobShape(k),
         ~InActor(k), job' = [job EXCEPT ![th] = k], busy' = busy
  PROVE  Stays(th)
  BY DEF Stays, JobsInv

\* The job of an API call starts in the queue of the actor.
LEMMA CallJobType ==
  ASSUME NEW op \in Mutations, NEW p \in Paths, NEW d \in Paths \cup {None}, NEW m \in Nat,
         op \in {"move", "trash"} => d \in Dests
  PROVE  LET k == [NoJob EXCEPT !.op = op, !.at = "queued", !.path = p, !.dst = d, !.match = m]
         IN  k \in Job /\ JobShape(k) /\ ~InActor(k)
<1> DEFINE k == [NoJob EXCEPT !.op = op, !.at = "queued", !.path = p, !.dst = d, !.match = m]
<1>1. /\ k.op = op /\ k.at = "queued" /\ k.path = p /\ k.dst = d
  BY DEF NoJob
<1>2. k \in Job  BY NoJobType DEF Job, Places
<1> QED BY <1>1, <1>2 DEF JobShape, InActor, Mutations

\* A new API call does not disturb the exclusion.
LEMMA InvokeJobs ==
  ASSUME TypeOK, JobsInv, NEW s \in Slots, Invoke(s)
  PROVE  JobsInv'
<1>1. s \in Threads /\ ~InActor(job[s]) /\ busy' = busy
  BY DEF Invoke, Threads, NoJob, InActor, Mutations
<1>2. PICK op \in Mutations, p \in ApiPaths :
        \E m \in {0, IF op = "create" THEN 0 ELSE fs[p].ver},
           d \in CASE op = "move"  -> Dests \ {p}
                   [] op = "trash" -> {TrashOf[p]}
                   [] OTHER        -> {None} :
         job' = [job EXCEPT ![s] = [NoJob EXCEPT !.op = op, !.at = "queued",
                                      !.path = p, !.dst = d, !.match = m]]
  BY DEF Invoke
<1>3. p \in Paths /\ fs[p].ver \in Nat
  BY PathAssumption DEF TypeOK, Content
<1>4. PICK m \in Nat, d \in Paths \cup {None} :
        /\ op \in {"move", "trash"} => d \in Dests
        /\ job' = [job EXCEPT ![s] = [NoJob EXCEPT !.op = op, !.at = "queued",
                                      !.path = p, !.dst = d, !.match = m]]
  <2> DEFINE D == CASE op = "move"  -> Dests \ {p}
                    [] op = "trash" -> {TrashOf[p]}
                    [] OTHER        -> {None}
  <2>1. PICK m \in {0, IF op = "create" THEN 0 ELSE fs[p].ver}, d \in D :
         job' = [job EXCEPT ![s] = [NoJob EXCEPT !.op = op, !.at = "queued",
                                      !.path = p, !.dst = d, !.match = m]]
    BY <1>2
  <2>2. m \in Nat  BY <1>3
  <2>3. d \in Paths \cup {None} /\ (op \in {"move", "trash"} => d \in Dests)
    BY <1>3, PathAssumption
  <2> QED BY <2>1, <2>2, <2>3
<1> DEFINE k == [NoJob EXCEPT !.op = op, !.at = "queued", !.path = p, !.dst = d, !.match = m]
<1>5. k \in Job /\ JobShape(k) /\ ~InActor(k)  BY <1>3, <1>4, CallJobType
<1>6. job' = [job EXCEPT ![s] = k]  BY <1>4
<1> QED BY <1>1, <1>5, <1>6, StaysOutside, Keep

\* An idle thread starts an indexing or a removal from the indexes.
LEMMA StartJobs ==
  ASSUME JobsInv, NEW th \in Threads, job[th] = NoJob, NEW q \in Paths,
         NEW d \in Paths \cup {None},
         StartJob(th, IndexJob(q)) \/ StartJob(th, UnindexJob(q, d)), busy' = busy
  PROVE  JobsInv'
<1>1. ~InActor(job[th])  BY DEF NoJob, InActor, Mutations
<1>2. CASE StartJob(th, IndexJob(q))
  BY <1>1, <1>2, IndexJobType, StaysOutside, Keep DEF StartJob
<1>3. CASE StartJob(th, UnindexJob(q, d))
  BY <1>1, <1>3, UnindexJobType, StaysOutside, Keep DEF StartJob
<1> QED BY <1>2, <1>3

\* Neither does the watcher.
LEMMA WatcherJobs ==
  ASSUME TypeOK, JobsInv, WatcherNext
  PROVE  JobsInv'
<1> DEFINE p == Head(events).path
<1>0. Loop \in Threads /\ Scan \in Threads /\ Paths \subseteq Threads
  BY DEF Threads
<1>1. ASSUME events # <<>>  PROVE p \in Paths
  BY <1>1, OldestEvent DEF TypeOK, Event
<1>2. ASSUME UNCHANGED <<job, busy>>  PROVE JobsInv'
  BY <1>2 DEF JobsInv
<1>3. CASE HandleCreate
  <2>1. busy' = busy /\ job[Loop] = NoJob /\ p \in Paths
    BY <1>1, <1>3 DEF HandleCreate, Receive, quietVars
  <2>2. CASE StartJob(Loop, IndexJob(p))
    BY <1>0, <2>1, <2>2, StartJobs
  <2>3. ASSUME NEW old \in pending, StartJob(Loop, UnindexJob(old, p))
        PROVE  JobsInv'
    BY <1>0, <2>1, <2>3, StartJobs DEF TypeOK
  <2> QED BY <1>3, <2>2, <2>3 DEF HandleCreate, FindPairedRemoval
<1>4. CASE HandleWrite
  <2>1. busy' = busy /\ job[Loop] = NoJob /\ p \in Paths /\ StartJob(Loop, IndexJob(p))
    BY <1>1, <1>4 DEF HandleWrite, Receive, quietVars
  <2> QED BY <1>0, <2>1, StartJobs
<1>5. CASE HandleGone \/ HandleTmp \/ LoseEvent \/ Tick \/ TickRescan \/ ScanDone
  BY <1>2, <1>5 DEF HandleGone, HandleTmp, LoseEvent, Tick, TickRescan, ScanDone, quietVars
<1>6. ASSUME NEW q \in Paths, TimerFires(q)  PROVE JobsInv'
  BY <1>0, <1>2, <1>6, StartJobs DEF TimerFires, quietVars
<1>7. ASSUME NEW q \in Paths, ScanVisit(q)  PROVE JobsInv'
  BY <1>0, <1>2, <1>7, StartJobs DEF ScanVisit, quietVars
<1> QED BY <1>3, <1>4, <1>5, <1>6, <1>7 DEF WatcherNext, HandleEvent, ScanStep

\* The jobs stay well formed and an actor executes one operation at a time.
LEMMA NextJobs == TypeOK /\ JobsInv /\ [Next]_vars => JobsInv'
<1> SUFFICES ASSUME TypeOK, JobsInv, [Next]_vars  PROVE JobsInv'
  OBVIOUS
<1>1. ASSUME NEW s \in Slots, Invoke(s)  PROVE JobsInv'
  BY <1>1, InvokeJobs
<1>2. ASSUME NEW th \in Threads, Begin(th)  PROVE JobsInv'
  BY <1>2, Enter
<1>3. ASSUME NEW th \in Threads, ThreadStep(th)  PROVE JobsInv'
  <2>1. Stays(th) \/ Finishes(th)  BY <1>3, DiskJobs, IndexJobs DEF ThreadStep
  <2> QED BY <2>1, Keep, Leave DEF Finishes
<1>4. CASE EditorStep
  BY <1>4 DEF EditorStep, Truncate, Save, RemoveByEditor, JobsInv
<1>5. CASE WatcherNext
  BY <1>5, WatcherJobs
<1>6. CASE Idle \/ UNCHANGED vars
  BY <1>6 DEF Idle, vars, JobsInv
<1> QED BY <1>1, <1>2, <1>3, <1>4, <1>5, <1>6 DEF Next, VaultNext

-----------------------------------------------------------------------------
(* The other variables                                                     *)

DiskOK ==
  /\ fs \in [Paths -> Content]
  /\ editing \in Paths \cup {None}
  /\ lastVer \in Nat
  /\ mode \in {"watch", "rescan"}
  /\ events \in Seq(Event)

IndexOK ==
  /\ cache \in [Paths -> Nat]
  /\ graph \in Graphs
  /\ fts \in [Paths -> Doc]
  /\ clobbered \subseteq Paths

WatchOK ==
  /\ budget \in [calls : Nat, edits : Nat, losses : Nat]
  /\ pending \subseteq Paths
  /\ todo \subseteq Paths /\ missed \subseteq Paths
  /\ timers \in [Paths -> Nat]
  /\ dirty \in BOOLEAN /\ scanning \in BOOLEAN /\ skipped \in BOOLEAN

\* TypeOK, by the parts that different actions change.
LEMMA TypeParts == TypeOK <=>
  /\ DiskOK /\ IndexOK /\ WatchOK
  /\ job \in [Threads -> Job]
  /\ busy \in [Paths -> Threads \cup {None}]
  /\ \A th \in Threads : InActor(job[th]) => busy[job[th].path] = th
  /\ \A p \in Paths : busy[p] # None => InActor(job[busy[p]]) /\ job[busy[p]].path = p
  BY DEF TypeOK, DiskOK, IndexOK, WatchOK

\* Reported events are events.
LEMMA NotifyType ==
  ASSUME events \in Seq(Event), NEW es \in Seq(Event), Notify(es)
  PROVE  events' \in Seq(Event)
  BY DEF Notify

\* The sequences of events that the actions report.
LEMMA EventTypes ==
  ASSUME NEW p \in Paths, NEW q \in Paths
  PROVE  /\ <<Ev("Write", p)>> \in Seq(Event)
         /\ <<Ev("Create", p), Ev("Write", p)>> \in Seq(Event)
         /\ <<Ev("Gone", p), Ev("Create", q)>> \in Seq(Event)
         /\ <<Ev("Tmp", p), Ev("Create", p)>> \in Seq(Event)
         /\ <<Ev("Gone", p)>> \in Seq(Event)
         /\ <<>> \in Seq(Event)
<1>1. \A k \in {"Create", "Write", "Gone", "Tmp"}, r \in Paths : Ev(k, r) \in Event
  BY DEF Ev, Event
<1> QED BY <1>1

\* Writing a file keeps the disk well typed.
LEMMA StoreType ==
  ASSUME DiskOK, NEW p \in Paths, NEW c \in Content, Store(p, c)
  PROVE  fs' \in [Paths -> Content] /\ events' \in Seq(Event)
<1>1. fs' \in [Paths -> Content]  BY DEF DiskOK, Store
<1>2. PICK es \in Seq(Event) : Notify(es)  BY EventTypes DEF Store
<1> QED BY <1>1, <1>2, NotifyType DEF DiskOK

\* The contents that the actions write.
LEMMA ContentTypes ==
  /\ \A who \in {"vault", "editor"} : Absent(who) \in Content /\ Empty(who) \in Content
  /\ \A b \in Texts, i \in BOOLEAN, who \in {"vault", "editor"} :
       lastVer \in Nat => Fresh(b, i, who) \in Content
  BY DEF Absent, Empty, Fresh, Content, Texts

\* Renaming a file keeps the disk well typed.
LEMMA RenameType ==
  ASSUME DiskOK, NEW p \in Paths, NEW d \in Paths, RenameFile(p, d)
  PROVE  fs' \in [Paths -> Content] /\ editing' \in Paths \cup {None} /\ events' \in Seq(Event)
<1>1. fs' \in [Paths -> Content]  BY ContentTypes DEF DiskOK, RenameFile
<1>2. editing' \in Paths \cup {None}  BY DEF DiskOK, RenameFile
<1>3. PICK es \in Seq(Event) : Notify(es)  BY EventTypes DEF RenameFile
<1> QED BY <1>1, <1>2, <1>3, NotifyType DEF DiskOK

\* Removing a file keeps the disk well typed.
LEMMA RemoveType ==
  ASSUME DiskOK, NEW p \in Paths, NEW who \in {"vault", "editor"}, RemovePath(p, who)
  PROVE  fs' \in [Paths -> Content] /\ editing' \in Paths \cup {None} /\ events' \in Seq(Event)
<1>1. fs' \in [Paths -> Content]  BY ContentTypes DEF DiskOK, RemovePath
<1>2. editing' \in Paths \cup {None}  BY DEF DiskOK, RemovePath
<1>3. PICK es \in Seq(Event) : Notify(es)  BY EventTypes DEF RemovePath
<1> QED BY <1>1, <1>2, <1>3, NotifyType DEF DiskOK

\* Every step of a thread on the disk keeps it well typed.
LEMMA DiskStepType ==
  ASSUME DiskOK, JobsInv, NEW th \in Threads, DiskStep(th)
  PROVE  DiskOK'
<1> DEFINE j == job[th]
           p == j.path
<1>0. /\ j \in Job
      /\ j.op # "none" => p \in Paths
      /\ j.op \in {"move", "trash"} => j.dst \in Paths
  BY PathAssumption DEF JobsInv, JobShape
<1>1. CASE ReadNote(th) \/ ReadBack(th) \/ IndexRead(th)
  BY <1>1 DEF ReadNote, ReadBack, IndexRead, DiskOK, diskVars
<1>2. CASE CreateFile(th)
  <2>1. p \in Paths  BY <1>0, <1>2 DEF CreateFile, At
  <2>2. UNCHANGED <<editing, mode>>  BY <1>2 DEF CreateFile
  <2>3. CASE UNCHANGED <<fs, lastVer, events>>  BY <2>2, <2>3 DEF DiskOK
  <2>4. ASSUME NEW b \in Bodies, NEW i \in BOOLEAN, Store(p, Fresh(b, i, "vault")),
               lastVer' = lastVer + 1
        PROVE  DiskOK'
    BY <2>1, <2>2, <2>4, StoreType, ContentTypes DEF DiskOK, Texts
  <2> QED BY <1>2, <2>3, <2>4 DEF CreateFile
<1>3. CASE WriteNote(th)
  <2>1. p \in Paths  BY <1>0, <1>3 DEF WriteNote, At
  <2>2. UNCHANGED <<editing, mode>> /\ lastVer' = lastVer + 1  BY <1>3 DEF WriteNote
  <2>3. PICK b \in IF j.op = "patch" THEN {j.seen.body} ELSE Bodies :
          Store(p, Fresh(b, j.seen.id, "vault"))
    BY <1>3 DEF WriteNote
  <2>4. b \in Texts /\ j.seen.id \in BOOLEAN
    BY <1>0, <2>3 DEF Job, Content, Texts
  <2>5. Fresh(b, j.seen.id, "vault") \in Content  BY <2>4, ContentTypes DEF DiskOK
  <2> QED BY <2>1, <2>2, <2>3, <2>5, StoreType DEF DiskOK
<1>4. CASE WriteFails(th)
  <2>1. p \in Paths  BY <1>0, <1>4 DEF WriteFails, At
  <2>2. UNCHANGED <<editing, mode, lastVer>> /\ Store(p, Empty("vault"))
    BY <1>4 DEF WriteFails
  <2> QED BY <2>1, <2>2, StoreType, ContentTypes DEF DiskOK
<1>5. CASE RenameNote(th)
  <2>1. p \in Paths /\ j.dst \in Paths  BY <1>0, <1>5 DEF RenameNote, At
  <2>2. UNCHANGED <<mode, lastVer>>  BY <1>5 DEF RenameNote
  <2>3. CASE RenameFile(p, j.dst)  BY <2>1, <2>2, <2>3, RenameType DEF DiskOK
  <2>4. CASE UNCHANGED <<fs, editing, events>>  BY <2>2, <2>4 DEF DiskOK
  <2> QED BY <1>5, <2>3, <2>4 DEF RenameNote
<1>6. CASE DeleteNote(th)
  <2>1. p \in Paths  BY <1>0, <1>6 DEF DeleteNote, At
  <2>2. UNCHANGED <<mode, lastVer>>  BY <1>6 DEF DeleteNote
  <2>3. CASE RemovePath(p, "vault")  BY <2>1, <2>2, <2>3, RemoveType DEF DiskOK
  <2>4. CASE UNCHANGED <<fs, editing, events>>  BY <2>2, <2>4 DEF DiskOK
  <2> QED BY <1>6, <2>3, <2>4 DEF DeleteNote
<1>7. CASE WriteBack(th)
  <2>1. p \in Paths  BY <1>0, <1>7 DEF WriteBack, At
  <2>2. UNCHANGED <<mode, lastVer>>  BY <1>7 DEF WriteBack
  <2>3. CASE /\ fs' = [fs EXCEPT ![p] = [j.seen EXCEPT !.id = TRUE]]
             /\ editing' = IF editing = p THEN None ELSE editing
             /\ Notify(<<Ev("Tmp", p), Ev("Create", p)>>)
    <3>1. [j.seen EXCEPT !.id = TRUE] \in Content  BY <1>0 DEF Job, Content
    <3>2. fs' \in [Paths -> Content]  BY <2>3, <3>1 DEF DiskOK
    <3>3. events' \in Seq(Event)  BY <2>1, <2>3, EventTypes, NotifyType DEF DiskOK
    <3> QED BY <2>2, <2>3, <3>2, <3>3 DEF DiskOK
  <2>4. CASE UNCHANGED <<fs, editing, events>>  BY <2>2, <2>4 DEF DiskOK
  <2> QED BY <1>7, <2>3, <2>4 DEF WriteBack
<1> QED BY <1>1, <1>2, <1>3, <1>4, <1>5, <1>6, <1>7 DEF DiskStep

\* Every step keeps the disk well typed.
LEMMA NextDisk == DiskOK /\ JobsInv /\ [Next]_vars => DiskOK'
<1> SUFFICES ASSUME DiskOK, JobsInv, [Next]_vars  PROVE DiskOK'
  OBVIOUS
<1>0. ASSUME UNCHANGED <<fs, editing, lastVer, mode, events>>  PROVE DiskOK'
  BY <1>0 DEF DiskOK
<1>1. ASSUME NEW s \in Slots, Invoke(s)  PROVE DiskOK'
  BY <1>0, <1>1 DEF Invoke, diskVars
<1>2. ASSUME NEW th \in Threads, Begin(th)  PROVE DiskOK'
  BY <1>0, <1>2 DEF Begin, diskVars
<1>3. ASSUME NEW th \in Threads, DiskStep(th)  PROVE DiskOK'
  BY <1>3, DiskStepType
<1>4. ASSUME NEW th \in Threads, IndexStep(th)  PROVE DiskOK'
  BY <1>0, <1>4 DEF IndexStep, ExistingLinks, CacheSet, GraphLinks, GraphDiff, FtsAdd,
    MoveCache, MoveGraph, MoveFts, DropCache, DropGraph, DropFts, noIndexStep, diskVars
<1>5. CASE EditorStep
  <2>1. ASSUME NEW p \in Paths, Truncate(p)  PROVE DiskOK'
    BY <2>1, StoreType, ContentTypes DEF Truncate, DiskOK
  <2>2. ASSUME NEW p \in Paths, RemoveByEditor(p)  PROVE DiskOK'
    BY <2>2, RemoveType DEF RemoveByEditor, DiskOK
  <2>3. CASE Save
    <3>1. PICK b \in Texts, i \in BOOLEAN : Store(editing, Fresh(b, i, "editor"))
      BY <2>3 DEF Save, Texts
    <3>2. editing \in Paths /\ editing' \in Paths \cup {None} /\ lastVer' \in Nat
      BY <2>3 DEF Save, DiskOK
    <3>3. Fresh(b, i, "editor") \in Content  BY ContentTypes DEF DiskOK
    <3> QED BY <2>3, <3>1, <3>2, <3>3, StoreType DEF Save, DiskOK
  <2> QED BY <1>5, <2>1, <2>2, <2>3, PathAssumption DEF EditorStep
<1>6. CASE HandleEvent \/ LoseEvent
  BY <1>6, OldestEvent DEF HandleEvent, HandleCreate, HandleWrite, HandleGone, HandleTmp,
    LoseEvent, Receive, quietVars, diskVars, DiskOK
<1>7. ASSUME NEW p \in Paths, TimerFires(p) \/ ScanVisit(p)  PROVE DiskOK'
  BY <1>0, <1>7 DEF TimerFires, ScanVisit, quietVars, diskVars
<1>8. CASE Tick \/ TickRescan \/ ScanDone
  BY <1>0, <1>8 DEF Tick, TickRescan, ScanDone, quietVars, diskVars
<1>9. CASE Idle \/ UNCHANGED vars
  BY <1>0, <1>9 DEF Idle, vars
<1> QED BY <1>1, <1>2, <1>3, <1>4, <1>5, <1>6, <1>7, <1>8, <1>9
  DEF Next, VaultNext, WatcherNext, ThreadStep, ScanStep

\* The operations of the backlink graph yield graphs.
LEMMA GraphTypes ==
  ASSUME NEW g \in Graphs, NEW p \in Paths, NEW old, NEW new \in SUBSET OutLink
  PROVE  /\ NewBacklinkGraph \in Graphs
         /\ Remove(g, p) \in Graphs
         /\ Upsert(g, p, new) \in Graphs
         /\ UpsertDiff(g, p, old, new) \in Graphs
<1>1. NewBacklinkGraph \in Graphs  BY DEF NewBacklinkGraph, Graphs
<1>2. \A srcs \in SUBSET BacklinkSrc : Without(srcs, p) \in SUBSET BacklinkSrc
  BY DEF Without
<1>3. ASSUME NEW links \in SUBSET OutLink, NEW x \in Targets
      PROVE  Entries(p, links, x) \in SUBSET BacklinkSrc
  BY DEF Entries, OutLink, BacklinkSrc
<1>4. Remove(g, p) \in Graphs  BY <1>2 DEF Remove, Graphs
<1>5. Upsert(g, p, new) \in Graphs  BY <1>3, <1>4 DEF Upsert, Graphs
<1>6. UpsertDiff(g, p, old, new) \in Graphs
  <2> DEFINE added == {l \in new : l.target \notin LinkKeys(old)}
  <2>1. \A x \in Targets : Entries(p, added, x) \in SUBSET BacklinkSrc  BY <1>3
  <2> HIDE DEF added
  <2>2. [g.out EXCEPT ![p] = new] \in [Paths -> SUBSET OutLink]  BY DEF Graphs
  <2>3. [x \in Targets |->
          (IF x \in LinkKeys(old) \ LinkKeys(new) THEN Without(g.back[x], p) ELSE g.back[x])
            \cup Entries(p, added, x)] \in [Targets -> SUBSET BacklinkSrc]
    BY <1>2, <2>1 DEF Graphs
  <2> QED BY <2>2, <2>3 DEF UpsertDiff, Graphs, added
<1> QED BY <1>1, <1>4, <1>5, <1>6

\* Every step of a thread on an index keeps the indexes well typed.
LEMMA IndexStepType ==
  ASSUME IndexOK, JobsInv, NEW th \in Threads, IndexStep(th)
  PROVE  IndexOK'
<1> DEFINE j == job[th]
           p == j.path
<1>0. /\ j \in Job
      /\ j.op # "none" => p \in Paths
      /\ j.at # "idle" => p \in Paths
      /\ j.at \in {"moveCache", "moveGraph", "moveFts"} => j.dst \in Paths
  BY PathAssumption DEF JobsInv, JobShape
<1>a. j.seen.ver \in Nat /\ DocOf(j.seen) \in Doc /\ NoDoc \in Doc
  BY <1>0 DEF Job, Content, DocOf, Doc, NoDoc, Texts
<1>b. Clobber(th) /\ p \in Paths => clobbered' \subseteq Paths
  BY DEF Clobber, IndexOK
<1>1. CASE ExistingLinks(th) \/ GraphLinks(th)
  BY <1>1 DEF ExistingLinks, GraphLinks, IndexOK, indexVars
<1>2. CASE CacheSet(th)
  BY <1>0, <1>a, <1>2 DEF CacheSet, IndexOK
<1>3. CASE GraphDiff(th)
  <2>1. j.new \in SUBSET OutLink /\ p \in Paths  BY <1>0, <1>3 DEF GraphDiff, Job
  <2>2. graph' \in Graphs  BY <1>3, <2>1, GraphTypes DEF GraphDiff, IndexOK
  <2> QED BY <1>3, <2>2 DEF GraphDiff, IndexOK
<1>4. CASE FtsAdd(th)
  BY <1>0, <1>a, <1>4 DEF FtsAdd, IndexOK
<1>5. CASE MoveCache(th)
  BY <1>0, <1>a, <1>5 DEF MoveCache, IndexOK
<1>6. CASE MoveGraph(th)
  <2>1. p \in Paths /\ j.dst \in Paths  BY <1>0, <1>6 DEF MoveGraph
  <2>2. LinksOf[j.seen.body] \in SUBSET OutLink
    BY <1>0, LinkAssumption DEF Job, Content
  <2>3. Remove(graph, p) \in Graphs  BY <2>1, <2>2, GraphTypes DEF IndexOK
  <2>4. graph' \in Graphs  BY <1>6, <2>1, <2>2, <2>3, GraphTypes DEF MoveGraph
  <2> QED BY <1>6, <2>4 DEF MoveGraph, IndexOK
<1>7. CASE MoveFts(th)
  BY <1>0, <1>a, <1>7 DEF MoveFts, IndexOK
<1>8. CASE DropCache(th)
  BY <1>0, <1>b, <1>8 DEF DropCache, IndexOK
<1>9. CASE DropGraph(th)
  <2>1. p \in Paths  BY <1>0, <1>9 DEF DropGraph
  <2>2. graph' \in Graphs  BY <1>9, <2>1, GraphTypes DEF DropGraph, IndexOK
  <2> QED BY <1>9, <1>b, <2>1, <2>2 DEF DropGraph, IndexOK
<1>10. CASE DropFts(th)
  BY <1>0, <1>a, <1>b, <1>10 DEF DropFts, IndexOK
<1> QED BY <1>1, <1>2, <1>3, <1>4, <1>5, <1>6, <1>7, <1>8, <1>9, <1>10 DEF IndexStep

\* Every step keeps the indexes well typed.
LEMMA NextIndex == IndexOK /\ JobsInv /\ [Next]_vars => IndexOK'
<1> SUFFICES ASSUME IndexOK, JobsInv, [Next]_vars  PROVE IndexOK'
  OBVIOUS
<1>0. ASSUME UNCHANGED <<cache, graph, fts>>, clobbered' \subseteq clobbered  PROVE IndexOK'
  BY <1>0 DEF IndexOK
<1>1. ASSUME NEW s \in Slots, Invoke(s)  PROVE IndexOK'
  BY <1>0, <1>1 DEF Invoke, indexVars
<1>2. ASSUME NEW th \in Threads, Begin(th)  PROVE IndexOK'
  BY <1>0, <1>2 DEF Begin, indexVars
<1>3. ASSUME NEW th \in Threads, DiskStep(th)  PROVE IndexOK'
  BY <1>0, <1>3 DEF DiskStep, ReadNote, CreateFile, ReadBack, WriteNote, WriteFails, RenameNote,
    DeleteNote, IndexRead, WriteBack, indexVars
<1>4. ASSUME NEW th \in Threads, IndexStep(th)  PROVE IndexOK'
  BY <1>4, IndexStepType
<1>5. CASE EditorStep
  BY <1>0, <1>5 DEF EditorStep, Truncate, Save, RemoveByEditor, indexVars
<1>6. CASE HandleEvent \/ LoseEvent \/ Tick \/ TickRescan \/ ScanDone
  BY <1>0, <1>6 DEF HandleEvent, HandleCreate, HandleWrite, HandleGone, HandleTmp,
    LoseEvent, Tick, TickRescan, ScanDone, quietVars, indexVars
<1>7. ASSUME NEW p \in Paths, TimerFires(p) \/ ScanVisit(p)  PROVE IndexOK'
  BY <1>0, <1>7 DEF TimerFires, ScanVisit, quietVars, indexVars
<1>9. CASE Idle \/ UNCHANGED vars
  BY <1>0, <1>9 DEF Idle, vars
<1> QED BY <1>1, <1>2, <1>3, <1>4, <1>5, <1>6, <1>7, <1>9
  DEF Next, VaultNext, WatcherNext, ThreadStep, ScanStep

\* Every step keeps the watcher well typed.
LEMMA NextWatch == WatchOK /\ DiskOK /\ [Next]_vars => WatchOK'
<1> SUFFICES ASSUME WatchOK, DiskOK, [Next]_vars  PROVE WatchOK'
  OBVIOUS
<1>0. ASSUME UNCHANGED <<budget, watchVars>>  PROVE WatchOK'
  BY <1>0 DEF WatchOK, watchVars
<1>a. ASSUME NEW kind \in {"calls", "edits", "losses"}, Spend(kind)
      PROVE  budget' \in [calls : Nat, edits : Nat, losses : Nat]
  BY <1>a DEF Spend, WatchOK
<1>1. CASE VaultNext /\ UNCHANGED watchVars
  <2>1. budget' = budget \/ \E kind \in {"calls", "edits", "losses"} : Spend(kind)
    <3>1. ASSUME NEW s \in Slots, Invoke(s)
          PROVE  \E kind \in {"calls", "edits", "losses"} : Spend(kind)
      BY <3>1 DEF Invoke
    <3>2. ASSUME NEW th \in Threads, Begin(th) \/ DiskStep(th)  PROVE budget' = budget
      BY <3>2 DEF Begin, DiskStep, ReadNote, CreateFile, ReadBack, WriteNote, WriteFails,
        RenameNote, DeleteNote, IndexRead, WriteBack
    <3>3. ASSUME NEW th \in Threads, IndexStep(th)  PROVE budget' = budget
      BY <3>3 DEF IndexStep, ExistingLinks, CacheSet, GraphLinks, GraphDiff, FtsAdd,
        MoveCache, MoveGraph, MoveFts, DropCache, DropGraph, DropFts, noIndexStep
    <3>4. ASSUME EditorStep
          PROVE  budget' = budget \/ \E kind \in {"calls", "edits", "losses"} : Spend(kind)
      BY <3>4 DEF EditorStep, Truncate, Save, RemoveByEditor
    <3> QED BY <1>1, <3>1, <3>2, <3>3, <3>4 DEF VaultNext, ThreadStep
  <2> QED BY <1>1, <1>a, <2>1 DEF WatchOK, watchVars
<1>2. ASSUME events # <<>>  PROVE Head(events).path \in Paths
  BY <1>2, OldestEvent DEF DiskOK, Event
<1>3. CASE HandleCreate
  BY <1>3 DEF HandleCreate, ClaimIfPending, WatchOK, quietVars
<1>4. CASE HandleWrite
  BY <1>0, <1>4 DEF HandleWrite, quietVars
<1>5. CASE HandleGone
  BY <1>2, <1>5 DEF HandleGone, MarkRemoved, Receive, WatchOK, quietVars
<1>6. CASE HandleTmp
  BY <1>6 DEF HandleTmp, WatchOK, quietVars
<1>7. CASE LoseEvent
  BY <1>2, <1>a, <1>7 DEF LoseEvent, WatchOK
<1>8. ASSUME NEW p \in Paths, TimerFires(p)  PROVE WatchOK'
  BY <1>8 DEF TimerFires, ClaimIfPending, WatchOK, quietVars
<1>9. CASE Tick \/ TickRescan \/ ScanDone
  BY <1>9 DEF Tick, TickRescan, ScanDone, WatchOK, quietVars
<1>10. ASSUME NEW p \in Paths, ScanVisit(p)  PROVE WatchOK'
  BY <1>10 DEF ScanVisit, WatchOK, quietVars
<1>11. CASE Idle \/ UNCHANGED vars
  BY <1>0, <1>11 DEF Idle, vars, watchVars
<1> QED BY <1>1, <1>3, <1>4, <1>5, <1>6, <1>7, <1>8, <1>9, <1>10, <1>11
  DEF Next, WatcherNext, HandleEvent, ScanStep

-----------------------------------------------------------------------------
\* The inductive invariant.
TInv == TypeOK /\ JobsInv

\* The vault that New has scanned is well typed.
LEMMA InitTypes == Init => TInv
<1> SUFFICES ASSUME Init  PROVE TInv
  OBVIOUS
<1>1. JobsInv
  BY NoJobType DEF Init, VaultInit, JobsInv, NoJob, InActor, Mutations
<1>2. PICK p \in ApiPaths \ Dests, b \in Bodies, present \in BOOLEAN :
        LET c == [ver |-> 2, body |-> b, id |-> TRUE, by |-> "vault"]
            live(q) == present /\ q = p
        IN  /\ fs    = [q \in Paths |-> IF live(q) THEN c ELSE Absent("vault")]
            /\ cache = [q \in Paths |-> IF live(q) THEN c.ver ELSE 0]
            /\ fts   = [q \in Paths |-> IF live(q) THEN DocOf(c) ELSE NoDoc]
            /\ graph = IF present THEN Upsert(NewBacklinkGraph, p, LinksOf[b])
                                  ELSE NewBacklinkGraph
  BY DEF Init, VaultInit
<1> DEFINE c == [ver |-> 2, body |-> b, id |-> TRUE, by |-> "vault"]
<1>3. c \in Content /\ DocOf(c) \in Doc /\ NoDoc \in Doc
  BY DEF Content, DocOf, Doc, NoDoc, Texts
<1>4. DiskOK
  <2>1. fs \in [Paths -> Content]  BY <1>2, <1>3, ContentTypes
  <2>2. /\ editing = None /\ lastVer = 2 /\ events = <<>>
        /\ mode \in {"watch", "rescan"}
    BY DEF Init, VaultInit
  <2> QED BY <2>1, <2>2 DEF DiskOK
<1>5. IndexOK
  <2>1. p \in Paths /\ LinksOf[b] \in SUBSET OutLink
    BY PathAssumption, LinkAssumption DEF Texts
  <2>2. NewBacklinkGraph \in Graphs  BY DEF NewBacklinkGraph, Graphs
  <2>3. graph \in Graphs  BY <1>2, <2>1, <2>2, GraphTypes
  <2> QED BY <1>2, <1>3, <2>3 DEF Init, VaultInit, IndexOK
<1>6. WatchOK
  BY BudgetAssumption DEF Init, VaultInit, WatchOK
<1> QED BY <1>1, <1>4, <1>5, <1>6, TypeParts DEF JobsInv, TInv

\* Every step keeps it well typed.
LEMMA NextTypes == TInv /\ [Next]_vars => TInv'
<1> SUFFICES ASSUME TypeOK, JobsInv, [Next]_vars  PROVE TInv'
  BY DEF TInv
<1>1. DiskOK /\ IndexOK /\ WatchOK  BY TypeParts
<1>2. JobsInv'  BY NextJobs
<1>3. DiskOK' /\ IndexOK' /\ WatchOK'  BY <1>1, NextDisk, NextIndex, NextWatch
<1> QED BY <1>2, <1>3 DEF TInv, TypeOK, DiskOK, IndexOK, WatchOK, JobsInv

\* The inductive invariant: types, the shape of jobs and the exclusion.
THEOREM Typed == Spec => []TInv
  BY InitTypes, NextTypes, PTL DEF Spec

\* A vault with any number of notes, callers and bodies is well typed, and the
\* actor of a path executes at most one operation of that path at a time.
THEOREM VaultTypeCorrect == Spec => []TypeOK
  BY Typed, PTL DEF TInv

-----------------------------------------------------------------------------
(* Who changes a thread's job                                              *)

\* The job of a thread changes when the thread takes a step of its operation or,
\* being idle, gets a new one.
LEMMA JobFrame ==
  ASSUME TInv, [Next]_vars, NEW t \in Threads, job'[t] # job[t]
  PROVE  \/ job[t] = NoJob /\ job'[t].at = "dropCache"
         \/ job[t] = NoJob /\ job'[t].at = "queued" /\ job'[t].seen = Absent("vault")
         \/ Begin(t)
         \/ ThreadStep(t)
<1> USE DEF TInv
<1>0. job \in [Threads -> Job] /\ Loop \in Threads /\ Scan \in Threads /\ Paths \subseteq Threads
  BY DEF TypeOK, Threads
<1>a. \A p \in Paths : IndexJob(p).at = "queued" /\ IndexJob(p).seen = Absent("vault")
  BY DEF IndexJob, NoJob
<1>b. \A p, d : UnindexJob(p, d).at = "dropCache"
  BY DEF UnindexJob, NoJob
<1>1. ASSUME NEW s \in Slots, Invoke(s)
      PROVE  job[t] = NoJob /\ job'[t].at = "queued" /\ job'[t].seen = Absent("vault")
  <2>1. t = s /\ job[s] = NoJob  BY <1>0, <1>1 DEF Invoke
  <2>2. job'[s].at = "queued" /\ job'[s].seen = Absent("vault")
    BY <1>0, <1>1, <2>1 DEF Invoke, NoJob
  <2> QED BY <2>1, <2>2
<1>2. ASSUME NEW th \in Threads, Begin(th)  PROVE Begin(t)
  BY <1>0, <1>2 DEF Begin, Goto
<1>3. ASSUME NEW th \in Threads, ThreadStep(th)  PROVE ThreadStep(t)
  <2>1. Stays(th) \/ Finishes(th)  BY <1>3, DiskJobs, IndexJobs DEF ThreadStep
  <2>2. t = th  BY <1>0, <2>1 DEF Stays, Finishes, End
  <2> QED BY <1>3, <2>2
<1>4. CASE EditorStep
  BY <1>4 DEF EditorStep, Truncate, Save, RemoveByEditor
<1>5. ASSUME events # <<>>  PROVE Head(events).path \in Paths
  BY <1>5, OldestEvent DEF TypeOK, Event
<1>6. CASE HandleCreate \/ HandleWrite
  BY <1>0, <1>a, <1>b, <1>5, <1>6 DEF HandleCreate, HandleWrite, Receive, StartJob
<1>7. CASE HandleGone \/ HandleTmp \/ LoseEvent \/ Tick \/ TickRescan \/ ScanDone
  BY <1>7 DEF HandleGone, HandleTmp, LoseEvent, Tick, TickRescan, ScanDone
<1>8. ASSUME NEW p \in Paths, TimerFires(p) \/ ScanVisit(p)
      PROVE  \/ job[t] = NoJob /\ job'[t].at = "dropCache"
             \/ job[t] = NoJob /\ job'[t].at = "queued" /\ job'[t].seen = Absent("vault")
  BY <1>0, <1>a, <1>b, <1>8 DEF TimerFires, ScanVisit, StartJob
<1>9. CASE Idle \/ UNCHANGED vars
  BY <1>9 DEF Idle, vars
<1> QED BY <1>1, <1>2, <1>3, <1>4, <1>6, <1>7, <1>8, <1>9
  DEF Next, VaultNext, WatcherNext, HandleEvent, ScanStep

\* Where a step leaves its thread.
LEMMA Whereto ==
  ASSUME job \in [Threads -> Job], NEW t \in Threads
  PROVE  /\ \A a : Goto(t, a) => job'[t].at = a
         /\ End(t) => job'[t].at = "idle"
         /\ Begin(t) => job'[t].at \in {"read", "commit"}
         /\ DiskStep(t) => job'[t].at \in {"idle", "commit", "readback", "existing", "cache",
                                          "moveCache", "dropCache"}
         /\ IndexStep(t) /\ ~GraphLinks(t) => job'[t].at # "diff"
         /\ IndexStep(t) => job'[t].at # "commit"
<1>0. job[t] \in Job  OBVIOUS
<1>1. ASSUME NEW a, Goto(t, a)  PROVE job'[t].at = a
  BY <1>1 DEF Goto, Job
<1>2. ASSUME End(t)  PROVE job'[t].at = "idle"
  BY <1>2 DEF End, NoJob
<1>3. Begin(t) => job'[t].at \in {"read", "commit"}
  BY <1>1 DEF Begin, FirstStep
<1>4. ASSUME DiskStep(t)
      PROVE  job'[t].at \in {"idle", "commit", "readback", "existing", "cache",
                             "moveCache", "dropCache"}
  <2>1. CASE ReadNote(t)  BY <1>0, <1>2, <2>1 DEF ReadNote, Job
  <2>2. CASE CreateFile(t)  BY <1>0, <1>2, <2>2 DEF CreateFile, Job
  <2>3. CASE ReadBack(t)  BY <1>0, <1>2, <2>3 DEF ReadBack, Job
  <2>4. CASE WriteNote(t)  BY <1>0, <2>4 DEF WriteNote, Job
  <2>5. CASE WriteFails(t)  BY <1>2, <2>5 DEF WriteFails
  <2>6. CASE RenameNote(t)  BY <1>1, <1>2, <2>6 DEF RenameNote
  <2>7. CASE DeleteNote(t)  BY <1>1, <1>2, <2>7 DEF DeleteNote
  <2>8. CASE IndexRead(t)  BY <1>0, <1>2, <2>8 DEF IndexRead, Job
  <2>9. CASE WriteBack(t)  BY <1>1, <2>9 DEF WriteBack
  <2> QED BY <1>4, <2>1, <2>2, <2>3, <2>4, <2>5, <2>6, <2>7, <2>8, <2>9 DEF DiskStep
<1>5. ASSUME IndexStep(t)
      PROVE  job'[t].at # "commit" /\ (~GraphLinks(t) => job'[t].at # "diff")
  <2>1. CASE ExistingLinks(t)  BY <1>0, <2>1 DEF ExistingLinks, Job
  <2>2. CASE GraphLinks(t)  BY <1>0, <2>2 DEF GraphLinks, Job
  <2>3. CASE DropFts(t)
    <3>1. NoJob.at = "idle" /\ \A d : IndexJob(d).at = "queued"  BY DEF NoJob, IndexJob
    <3> QED BY <1>2, <2>3, <3>1 DEF DropFts
  <2>4. CASE CacheSet(t) \/ GraphDiff(t) \/ FtsAdd(t) \/ MoveCache(t) \/ MoveGraph(t) \/ MoveFts(t)
             \/ DropCache(t) \/ DropGraph(t)
    BY <1>1, <1>2, <2>4 DEF CacheSet, GraphDiff, FtsAdd, MoveCache, MoveGraph, MoveFts,
      DropCache, DropGraph
  <2> QED BY <1>5, <2>1, <2>2, <2>3, <2>4 DEF IndexStep
<1> QED BY <1>1, <1>2, <1>3, <1>4, <1>5

\* Two threads are not in the actor of one path at the same time.
LEMMA Alone ==
  ASSUME TInv, NEW t \in Threads, NEW u \in Threads, InActor(job[t]), InActor(job[u]),
         job[t].path = job[u].path
  PROVE  t = u
  BY DEF TInv, TypeOK

-----------------------------------------------------------------------------
(* No phantom backlinks                                                    *)

\* Remove forgets p and no other note.
LEMMA RemoveFree ==
  ASSUME NEW g \in Graphs, NEW p \in Paths, NEW q \in Paths, PhantomFree(g, q)
  PROVE  PhantomFree(Remove(g, p), q)
<1> DEFINE h == Remove(g, p)
<1>1. /\ h.out = [g.out EXCEPT ![p] = {}]
      /\ h.back = [x \in Targets |-> IF x \in LinkKeys(g.out[p])
                                        THEN Without(g.back[x], p) ELSE g.back[x]]
  BY DEF Remove
<1> HIDE DEF h
<1> SUFFICES ASSUME NEW x \in Targets, NEW s \in h.back[x], s.path = q
             PROVE  x \in LinkKeys(h.out[q])
  BY DEF PhantomFree, h
<1>2. s \in g.back[x]  BY <1>1 DEF Without
<1>3. x \in LinkKeys(g.out[q])  BY <1>2 DEF PhantomFree
<1>4. q # p  BY <1>1, <1>3 DEF Without
<1> QED BY <1>1, <1>3, <1>4 DEF Graphs

\* Upsert adds p under the targets of its links only.
LEMMA UpsertFree ==
  ASSUME NEW g \in Graphs, NEW p \in Paths, NEW q \in Paths, NEW links \in SUBSET OutLink,
         PhantomFree(g, q)
  PROVE  PhantomFree(Upsert(g, p, links), q)
<1> DEFINE h == Remove(g, p)
           u == Upsert(g, p, links)
<1>1. h \in Graphs  BY GraphTypes
<1>2. PhantomFree(h, q)  BY RemoveFree
<1>3. h.out[p] = {}  BY DEF Remove, Graphs
<1>4. /\ u.out = [h.out EXCEPT ![p] = links]
      /\ u.back = [x \in Targets |-> h.back[x] \cup Entries(p, links, x)]
  BY DEF Upsert
<1> HIDE DEF h, u
<1> SUFFICES ASSUME NEW x \in Targets, NEW s \in u.back[x], s.path = q
             PROVE  x \in LinkKeys(u.out[q])
  BY DEF PhantomFree, u
<1>5. CASE s \in h.back[x]
  <2>1. x \in LinkKeys(h.out[q])  BY <1>2, <1>5 DEF PhantomFree
  <2>2. q # p  BY <1>3, <2>1 DEF LinkKeys
  <2> QED BY <1>1, <1>4, <2>1, <2>2 DEF Graphs
<1>6. CASE s \in Entries(p, links, x)
  <2>1. q = p /\ x \in LinkKeys(links)  BY <1>6 DEF Entries, LinkKeys
  <2> QED BY <1>1, <1>4, <2>1 DEF Graphs
<1> QED BY <1>4, <1>5, <1>6

\* UpsertDiff is given links that were p's a moment ago; it leaves no phantom when
\* they still are, and when p has been removed in the meantime.
LEMMA UpsertDiffFree ==
  ASSUME NEW g \in Graphs, NEW p \in Paths, NEW q \in Paths, NEW old,
         NEW new \in SUBSET OutLink,
         PhantomFree(g, q), q = p => g.out[p] \in {old, {}}
  PROVE  PhantomFree(UpsertDiff(g, p, old, new), q)
<1>1. CASE LinkKeys(old) = LinkKeys(new)
  BY <1>1 DEF UpsertDiff
<1>2. CASE LinkKeys(old) # LinkKeys(new)
  <2> DEFINE u == UpsertDiff(g, p, old, new)
             added == {l \in new : l.target \notin LinkKeys(old)}
             dropped == LinkKeys(old) \ LinkKeys(new)
  <2>1. /\ u.out = [g.out EXCEPT ![p] = new]
        /\ u.back = [x \in Targets |->
                       (IF x \in dropped THEN Without(g.back[x], p) ELSE g.back[x])
                       \cup Entries(p, added, x)]
    BY <1>2 DEF UpsertDiff
  <2>2. LinkKeys(added) \subseteq LinkKeys(new)  BY DEF LinkKeys
  <2> HIDE DEF u, added
  <2> SUFFICES ASSUME NEW x \in Targets, NEW s \in u.back[x], s.path = q
               PROVE  x \in LinkKeys(u.out[q])
    BY DEF PhantomFree, u
  <2>3. CASE s \in Entries(p, added, x)
    <3>1. q = p /\ x \in LinkKeys(added)  BY <2>3 DEF Entries, LinkKeys
    <3> QED BY <2>1, <2>2, <3>1 DEF Graphs
  <2>4. CASE s \notin Entries(p, added, x)
    <3>1. s \in g.back[x]  BY <2>1, <2>4 DEF Without
    <3>2. x \in LinkKeys(g.out[q])  BY <3>1 DEF PhantomFree
    <3>3. CASE q # p  BY <2>1, <3>2, <3>3 DEF Graphs
    <3>4. CASE q = p
      <4>1. x \in LinkKeys(old)  BY <3>2, <3>4 DEF LinkKeys
      <4>2. x \notin dropped  BY <2>1, <2>4, <3>4 DEF Without
      <4> QED BY <2>1, <3>4, <4>1, <4>2 DEF Graphs
    <3> QED BY <3>3, <3>4
  <2> QED BY <2>3, <2>4
<1> QED BY <1>1, <1>2

\* Only the entry of the note that is given changes.
LEMMA GraphFrame ==
  ASSUME NEW g \in Graphs, NEW p \in Paths, NEW q \in Paths \ {p}, NEW old, NEW new
  PROVE  /\ Remove(g, p).out[q] = g.out[q]
         /\ Upsert(g, p, new).out[q] = g.out[q]
         /\ UpsertDiff(g, p, old, new).out[q] = g.out[q]
  BY DEF Remove, Upsert, UpsertDiff, Graphs

\* Between Links and UpsertDiff the links of a note stay what they were, or
\* RemoveFile takes them away.
DiffInv ==
  \A t \in Threads :
    job[t].at = "diff" /\ job[t].path \notin Dests =>
      graph.out[job[t].path] \in {job[t].old, {}}

GInv == TInv /\ NoPhantom /\ DiffInv

\* The steps that change the graph.
LEMMA GraphSteps ==
  ASSUME [Next]_vars, graph' # graph
  PROVE  \E th \in Threads : GraphDiff(th) \/ MoveGraph(th) \/ DropGraph(th)
<1>1. ASSUME NEW s \in Slots, Invoke(s)  PROVE FALSE
  BY <1>1 DEF Invoke, indexVars
<1>2. ASSUME NEW th \in Threads, Begin(th)  PROVE FALSE
  BY <1>2 DEF Begin, indexVars
<1>3. ASSUME NEW th \in Threads, DiskStep(th)  PROVE FALSE
  BY <1>3 DEF DiskStep, ReadNote, CreateFile, ReadBack, WriteNote, WriteFails, RenameNote,
    DeleteNote, IndexRead, WriteBack, indexVars
<1>4. ASSUME NEW th \in Threads, IndexStep(th)
      PROVE  GraphDiff(th) \/ MoveGraph(th) \/ DropGraph(th)
  BY <1>4 DEF IndexStep, ExistingLinks, CacheSet, GraphLinks, FtsAdd, MoveCache, MoveFts,
    DropCache, DropFts, indexVars
<1>5. CASE EditorStep
  BY <1>5 DEF EditorStep, Truncate, Save, RemoveByEditor, indexVars
<1>6. CASE HandleEvent \/ LoseEvent \/ Tick \/ TickRescan \/ ScanDone
  BY <1>6 DEF HandleEvent, HandleCreate, HandleWrite, HandleGone, HandleTmp,
    LoseEvent, Tick, TickRescan, ScanDone, quietVars, indexVars
<1>7. ASSUME NEW p \in Paths, TimerFires(p) \/ ScanVisit(p)  PROVE FALSE
  BY <1>7 DEF TimerFires, ScanVisit, quietVars, indexVars
<1>8. CASE Idle \/ UNCHANGED vars
  BY <1>8 DEF Idle, vars
<1> QED BY <1>1, <1>2, <1>3, <1>4, <1>5, <1>6, <1>7, <1>8
  DEF Next, VaultNext, WatcherNext, ThreadStep, ScanStep

\* What the actions on the graph rely on.
LEMMA GraphArgs ==
  ASSUME TInv, NEW th \in Threads
  PROVE  /\ graph \in Graphs
         /\ job[th].new \in SUBSET OutLink
         /\ LinksOf[job[th].seen.body] \in SUBSET OutLink
         /\ job[th].at # "idle" => job[th].path \in Paths
         /\ job[th].at \in {"diff", "moveGraph"} => InActor(job[th])
         /\ job[th].at = "moveGraph" => job[th].dst \in Dests /\ job[th].dst \in Paths
<1>1. job[th] \in Job /\ JobShape(job[th])  BY DEF TInv, JobsInv
<1> QED BY <1>1, PathAssumption, LinkAssumption
  DEF TInv, TypeOK, Job, Content, JobShape, InActor

\* No step leaves a phantom behind.
LEMMA NextPhantom == GInv /\ [Next]_vars => NoPhantom'
<1> SUFFICES ASSUME GInv, [Next]_vars, NEW q \in Paths \ Dests
             PROVE  PhantomFree(graph', q)
  BY DEF NoPhantom, PhantomFree
<1>0. TInv /\ PhantomFree(graph, q)  BY DEF GInv, NoPhantom
<1>1. CASE graph' = graph  BY <1>0, <1>1
<1>2. CASE graph' # graph
  <2>1. PICK th \in Threads : GraphDiff(th) \/ MoveGraph(th) \/ DropGraph(th)
    BY <1>2, GraphSteps
  <2> DEFINE j == job[th]
             p == j.path
  <2>2. p \in Paths  BY <1>0, <2>1, GraphArgs DEF GraphDiff, MoveGraph, DropGraph
  <2>3. CASE GraphDiff(th)
    <3>1. q = p => graph.out[p] \in {j.old, {}}  BY <2>3 DEF GInv, DiffInv, GraphDiff
    <3> QED BY <1>0, <2>2, <2>3, <3>1, GraphArgs, UpsertDiffFree DEF GraphDiff
  <2>4. CASE DropGraph(th)
    BY <1>0, <2>2, <2>4, GraphArgs, RemoveFree DEF DropGraph
  <2>5. CASE MoveGraph(th)
    <3> DEFINE h == Remove(graph, p)
               links == LinksOf[j.seen.body]
    <3>1. j.dst \in Dests /\ j.dst \in Paths /\ links \in SUBSET OutLink /\ graph \in Graphs
      BY <1>0, <2>5, GraphArgs DEF MoveGraph
    <3>2. h \in Graphs /\ PhantomFree(h, q)  BY <1>0, <2>2, <3>1, GraphTypes, RemoveFree
    <3>3. graph' = Upsert(h, j.dst, links)  BY <2>5 DEF MoveGraph
    <3> QED BY <3>1, <3>2, <3>3, UpsertFree
  <2> QED BY <2>1, <2>3, <2>4, <2>5
<1> QED BY <1>1, <1>2

\* No step but RemoveFile's changes the links that UpsertDiff relies on.
LEMMA NextDiff == GInv /\ [Next]_vars => DiffInv'
<1> SUFFICES ASSUME GInv, [Next]_vars, NEW t \in Threads,
                    job'[t].at = "diff", job'[t].path \notin Dests
             PROVE  graph'.out[job'[t].path] \in {job'[t].old, {}}
  BY DEF DiffInv
<1>0. TInv /\ job \in [Threads -> Job]  BY DEF GInv, TInv, TypeOK
<1>1. CASE job'[t] # job[t]
  <2>1. ThreadStep(t) /\ ~DiskStep(t)
    BY <1>0, <1>1, JobFrame, Whereto
  <2>3. GraphLinks(t)
    BY <1>0, <2>1, Whereto DEF ThreadStep
  <2> QED BY <1>0, <2>3 DEF GraphLinks, indexVars, Job
<1>2. CASE job'[t] = job[t]
  <2> DEFINE q == job[t].path
  <2>1. q \in Paths /\ InActor(job[t]) /\ graph \in Graphs  BY <1>0, <1>2, GraphArgs
  <2>2. graph.out[q] \in {job[t].old, {}}  BY <1>2 DEF GInv, DiffInv
  <2>3. CASE graph' = graph  BY <1>2, <2>2, <2>3
  <2>4. CASE graph' # graph
    <3>1. PICK th \in Threads : GraphDiff(th) \/ MoveGraph(th) \/ DropGraph(th)
      BY <2>4, GraphSteps
    <3> DEFINE j == job[th]
               p == j.path
    <3>2. p \in Paths  BY <1>0, <3>1, GraphArgs DEF GraphDiff, MoveGraph, DropGraph
    <3>3. CASE DropGraph(th)
      <4>1. graph' = Remove(graph, p)  BY <3>3 DEF DropGraph
      <4>2. q = p => graph'.out[q] = {}  BY <2>1, <4>1 DEF Remove, Graphs
      <4>3. q # p => graph'.out[q] = graph.out[q]  BY <2>1, <3>2, <4>1, GraphFrame
      <4> QED BY <1>2, <2>2, <4>2, <4>3
    <3>4. CASE GraphDiff(th) \/ MoveGraph(th)
      <4>1. th # t
        <5>1. job'[th].at # "diff"
          BY <1>0, <3>4, Whereto DEF GraphDiff, MoveGraph
        <5> QED BY <5>1
      <4>2. InActor(j)  BY <1>0, <3>4, GraphArgs DEF GraphDiff, MoveGraph
      <4>3. q # p  BY <1>0, <2>1, <4>1, <4>2, Alone
      <4>4. CASE GraphDiff(th)
        <5>1. graph'.out[q] = graph.out[q]
          BY <2>1, <3>2, <4>3, <4>4, GraphFrame DEF GraphDiff
        <5> QED BY <1>2, <2>2, <5>1
      <4>5. CASE MoveGraph(th)
        <5> DEFINE h == Remove(graph, p)
                   links == LinksOf[j.seen.body]
        <5>1. j.dst \in Dests /\ j.dst \in Paths /\ links \in SUBSET OutLink
          BY <1>0, <4>5, GraphArgs DEF MoveGraph
        <5>2. h \in Graphs /\ h.out[q] = graph.out[q]
          BY <2>1, <3>2, <4>3, <5>1, GraphTypes, GraphFrame
        <5>3. q # j.dst  BY <1>2, <5>1
        <5>4. graph' = Upsert(h, j.dst, links)  BY <4>5 DEF MoveGraph
        <5> HIDE DEF h, links
        <5>5. graph'.out[q] = h.out[q]  BY <2>1, <5>1, <5>2, <5>3, <5>4, GraphFrame
        <5> QED BY <1>2, <2>2, <5>2, <5>5
      <4> QED BY <3>4, <4>4, <4>5
    <3> QED BY <3>1, <3>3, <3>4
  <2> QED BY <2>3, <2>4
<1> QED BY <1>1, <1>2

\* The graph that New builds has no phantoms.
LEMMA InitGraph == Init => NoPhantom /\ DiffInv
<1> SUFFICES ASSUME Init  PROVE NoPhantom /\ DiffInv
  OBVIOUS
<1>1. DiffInv  BY DEF Init, VaultInit, DiffInv, NoJob
<1>2. PICK p \in ApiPaths \ Dests, b \in Bodies, present \in BOOLEAN :
        graph = IF present THEN Upsert(NewBacklinkGraph, p, LinksOf[b]) ELSE NewBacklinkGraph
  BY DEF Init, VaultInit
<1>3. NewBacklinkGraph \in Graphs  BY DEF NewBacklinkGraph, Graphs
<1>4. \A q \in Paths : PhantomFree(NewBacklinkGraph, q)
  BY DEF PhantomFree, NewBacklinkGraph
<1>5. p \in Paths /\ LinksOf[b] \in SUBSET OutLink
    BY PathAssumption, LinkAssumption DEF Texts
<1> QED BY <1>1, <1>2, <1>3, <1>4, <1>5, UpsertFree DEF NoPhantom

\* The inverse index never names a note under a target the note does not link to,
\* with any number of notes, callers, rescans and removals by timers: the stale
\* links that UpsertDiff may be given are harmless.
THEOREM NoPhantomBacklinks == Spec => []NoPhantom
<1>1. Init => GInv  BY InitTypes, InitGraph DEF GInv
<1>2. GInv /\ [Next]_vars => GInv'
  BY NextTypes, NextPhantom, NextDiff DEF GInv
<1>3. GInv => NoPhantom  BY DEF GInv
<1> QED BY <1>1, <1>2, <1>3, PTL DEF Spec

-----------------------------------------------------------------------------
(* No silent overwrite                                                     *)

\* A content whose version is at most n; a missing or an empty file has no id.
Well(c, n) == c.ver <= n /\ (c.ver < 2 => c.id = FALSE)

VerInv == lastVer >= 2 /\ \A q \in Paths : Well(fs[q], lastVer)

\* What a thread that is about to change its file remembers.
SeenInv ==
  \A t \in Threads :
    /\ job[t].at = "queued" => job[t].seen = Absent("vault")
    /\ job[t].at = "read" => job[t].op # "create"
    /\ job[t].at = "commit" => /\ Well(job[t].seen, lastVer)
                               /\ job[t].op = "index" => job[t].seen.ver >= 2
                               /\ job[t].op = "create" => job[t].seen.ver = 0

\* The threads that NoSilentOverwrite speaks of.
Careful(j) ==
  /\ j.at = "commit" /\ j.path \notin Dests
  /\ j.op \in {"trash", "delete"} => j.match # 0

\* Until a thread changes its file only the editor does.
HoldInv ==
  \A t \in Threads : Careful(job[t]) /\ job[t].op # "create" => ReplacesWhatItRead(t)

OInv == TInv /\ VerInv /\ SeenInv /\ HoldInv

\* The contents that the actions write are well versioned.
LEMMA WellFacts ==
  ASSUME lastVer \in Nat, lastVer >= 2
  PROVE  /\ \A who : Well(Absent(who), lastVer) /\ Well(Empty(who), lastVer)
         /\ \A b, i, who : Well(Fresh(b, i, who), lastVer + 1)
         /\ \A c \in Content : Well(c, lastVer) => Well(c, lastVer + 1)
<1>1. \A who : Well(Absent(who), lastVer) /\ Well(Empty(who), lastVer)
  BY DEF Well, Absent, Empty
<1>2. \A b, i, who : Well(Fresh(b, i, who), lastVer + 1)
  BY DEF Well, Fresh
<1>3. \A c \in Content : Well(c, lastVer) => Well(c, lastVer + 1)
  BY DEF Well, Content
<1> QED BY <1>1, <1>2, <1>3

\* Who changes the file of q, and to what.
ByEditor(q) == fs'[q].by = "editor" /\ (fs'[q].ver < 2 \/ fs'[q].ver = lastVer + 1)
ByActor(q)  == \E th \in Threads : InActor(job[th]) /\ job[th].path = q /\ DiskStep(th)

Changed(q) == fs'[q] = fs[q] \/ q \in Dests \/ ByActor(q) \/ ByEditor(q)

\* A step of a thread on the disk changes the file of its own path, or renames
\* onto a destination.
LEMMA DiskStepFile ==
  ASSUME TInv, VerInv, SeenInv, NEW th \in Threads, DiskStep(th), NEW q \in Paths
  PROVE  /\ lastVer' \in {lastVer, lastVer + 1}
         /\ Well(fs'[q], lastVer')
         /\ Changed(q)
<1> DEFINE j == job[th]
           p == j.path
<1>0. /\ j \in Job /\ JobShape(j) /\ fs \in [Paths -> Content] /\ lastVer \in Nat /\ lastVer >= 2
      /\ Well(fs[q], lastVer) /\ fs[q] \in Content
  BY DEF TInv, JobsInv, TypeOK, VerInv
<1>a. Well(fs[q], lastVer + 1)  BY <1>0, WellFacts
<1>b. ASSUME fs'[q] # fs[q], q = p, InActor(j)  PROVE Changed(q)
  BY <1>b DEF Changed, ByActor
<1>c. j.op # "none" => p \in Paths  BY <1>0 DEF JobShape
<1>1. CASE ReadNote(th) \/ ReadBack(th) \/ IndexRead(th)
  BY <1>0, <1>1 DEF ReadNote, ReadBack, IndexRead, diskVars, Changed
<1>2. CASE CreateFile(th) \/ WriteNote(th)
  <2>1. InActor(j) /\ p \in Paths
    BY <1>c, <1>2 DEF CreateFile, WriteNote, At, InActor, Mutations
  <2>2. CASE fs' = fs /\ lastVer' = lastVer  BY <1>0, <2>2 DEF Changed
  <2>3. ASSUME NEW b, NEW i, Store(p, Fresh(b, i, "vault")), lastVer' = lastVer + 1
        PROVE  lastVer' = lastVer + 1 /\ Well(fs'[q], lastVer') /\ Changed(q)
    <3>1. fs' = [fs EXCEPT ![p] = Fresh(b, i, "vault")]  BY <2>3 DEF Store
    <3>2. CASE q = p  BY <1>0, <1>b, <2>1, <2>3, <3>1, <3>2, WellFacts DEF Changed
    <3>3. CASE q # p  BY <1>0, <1>a, <2>3, <3>1, <3>3 DEF Changed
    <3> QED BY <2>3, <3>2, <3>3
  <2> QED BY <1>2, <2>2, <2>3 DEF CreateFile, WriteNote
<1>3. CASE WriteFails(th)
  <2>1. InActor(j) /\ p \in Paths  BY <1>c, <1>3 DEF WriteFails, At, InActor, Mutations
  <2>2. fs' = [fs EXCEPT ![p] = Empty("vault")] /\ lastVer' = lastVer
    BY <1>3 DEF WriteFails, Store
  <2>3. CASE q = p  BY <1>0, <1>b, <2>1, <2>2, <2>3, WellFacts DEF Changed
  <2>4. CASE q # p  BY <1>0, <2>2, <2>4 DEF Changed
  <2> QED BY <2>2, <2>3, <2>4
<1>4. CASE RenameNote(th)
  <2>1. InActor(j) /\ p \in Paths /\ j.dst \in Dests /\ j.dst \in Paths /\ lastVer' = lastVer
    BY <1>0, <1>4, PathAssumption DEF RenameNote, At, InActor, Mutations, JobShape
  <2>2. \/ fs' = fs
        \/ fs' = [fs EXCEPT ![j.dst] = fs[p], ![p] = Absent("vault")]
    BY <1>4 DEF RenameNote, RenameFile
  <2>3. CASE fs' = fs  BY <1>0, <2>1, <2>3 DEF Changed
  <2>4. CASE fs' = [fs EXCEPT ![j.dst] = fs[p], ![p] = Absent("vault")]
    <3>1. Well(fs[p], lastVer)  BY <2>1 DEF VerInv
    <3>2. CASE q = p  BY <1>0, <1>b, <2>1, <2>4, <3>2, WellFacts DEF Changed
    <3>3. CASE q # p /\ q = j.dst  BY <1>0, <2>1, <2>4, <3>1, <3>3 DEF Changed
    <3>4. CASE q # p /\ q # j.dst  BY <1>0, <2>1, <2>4, <3>4 DEF Changed
    <3> QED BY <2>1, <3>2, <3>3, <3>4
  <2> QED BY <2>2, <2>3, <2>4
<1>5. CASE DeleteNote(th)
  <2>1. InActor(j) /\ p \in Paths /\ lastVer' = lastVer
    BY <1>c, <1>5 DEF DeleteNote, At, InActor, Mutations
  <2>2. fs' = fs \/ fs' = [fs EXCEPT ![p] = Absent("vault")]
    BY <1>5 DEF DeleteNote, RemovePath
  <2>3. CASE q = p  BY <1>0, <1>b, <2>1, <2>2, <2>3, WellFacts DEF Changed
  <2>4. CASE q # p  BY <1>0, <2>1, <2>2, <2>4 DEF Changed
  <2> QED BY <2>1, <2>3, <2>4
<1>6. CASE WriteBack(th)
  <2>1. InActor(j) /\ p \in Paths /\ lastVer' = lastVer
    BY <1>c, <1>6 DEF WriteBack, At, InActor, Mutations
  <2> DEFINE c == [j.seen EXCEPT !.id = TRUE]
  <2>2. fs' = fs \/ fs' = [fs EXCEPT ![p] = c]
    BY <1>6 DEF WriteBack
  <2>3. Well(c, lastVer)
    <3>1. j.seen \in Content  BY <1>0 DEF Job
    <3>2. j.seen.ver >= 2 /\ j.seen.ver <= lastVer  BY <1>6 DEF SeenInv, WriteBack, At, Well
    <3>3. c.ver = j.seen.ver /\ j.seen.ver \in Nat  BY <3>1 DEF Content
    <3> QED BY <3>2, <3>3 DEF Well
  <2> HIDE DEF c
  <2>4. CASE q = p  BY <1>0, <1>b, <2>1, <2>2, <2>3, <2>4 DEF Changed
  <2>5. CASE q # p  BY <1>0, <2>1, <2>2, <2>5 DEF Changed
  <2> QED BY <2>1, <2>4, <2>5
<1> QED BY <1>1, <1>2, <1>3, <1>4, <1>5, <1>6 DEF DiskStep

\* Every change of a file is made by the actor of its path, by the editor, or by
\* a rename onto it.
LEMMA NextFile ==
  ASSUME TInv, VerInv, SeenInv, [Next]_vars, NEW q \in Paths
  PROVE  /\ lastVer' \in {lastVer, lastVer + 1}
         /\ Well(fs'[q], lastVer')
         /\ Changed(q)
<1>0. /\ fs \in [Paths -> Content] /\ lastVer \in Nat /\ lastVer >= 2
      /\ Well(fs[q], lastVer) /\ fs[q] \in Content /\ editing \in Paths \cup {None}
  BY DEF TInv, TypeOK, VerInv
<1>1. ASSUME fs' = fs, lastVer' = lastVer
      PROVE  Well(fs'[q], lastVer') /\ Changed(q)
  BY <1>0, <1>1 DEF Changed
<1>2. ASSUME NEW s \in Slots, Invoke(s)  PROVE fs' = fs /\ lastVer' = lastVer
  BY <1>2 DEF Invoke, diskVars
<1>3. ASSUME NEW th \in Threads, Begin(th) \/ IndexStep(th)  PROVE fs' = fs /\ lastVer' = lastVer
  BY <1>3 DEF Begin, IndexStep, ExistingLinks, CacheSet, GraphLinks, GraphDiff, FtsAdd,
    MoveCache, MoveGraph, MoveFts, DropCache, DropGraph, DropFts, noIndexStep, diskVars
<1>4. CASE EditorStep
  <2>1. ASSUME NEW p \in Paths, NEW c \in {Empty("editor"), Absent("editor")},
               fs' = [fs EXCEPT ![p] = c], lastVer' = lastVer
        PROVE  Well(fs'[q], lastVer') /\ Changed(q)
    <3>1. CASE q = p
      <4>1. fs'[q] = c  BY <1>0, <2>1, <3>1
      <4>2. Well(c, lastVer)  BY <1>0, <2>1, WellFacts
      <4>3. c.by = "editor" /\ c.ver < 2  BY <2>1 DEF Empty, Absent
      <4> QED BY <2>1, <4>1, <4>2, <4>3 DEF Changed, ByEditor
    <3>2. CASE q # p  BY <1>0, <2>1, <3>2 DEF Changed
    <3> QED BY <3>1, <3>2
  <2>2. ASSUME NEW p \in Paths, Truncate(p) \/ RemoveByEditor(p)
        PROVE  \E c \in {Empty("editor"), Absent("editor")} :
                 fs' = [fs EXCEPT ![p] = c] /\ lastVer' = lastVer
    BY <2>2 DEF Truncate, RemoveByEditor, Store, RemovePath
  <2>3. CASE Save
    <3>1. PICK b \in Texts, i \in BOOLEAN : fs' = [fs EXCEPT ![editing] = Fresh(b, i, "editor")]
      BY <2>3 DEF Save, Store, Texts
    <3>2. lastVer' = lastVer + 1 /\ editing \in Paths  BY <1>0, <2>3 DEF Save
    <3>3. CASE q = editing
      <4>1. fs'[q] = Fresh(b, i, "editor")  BY <1>0, <3>1, <3>3
      <4>2. fs'[q].by = "editor" /\ fs'[q].ver = lastVer + 1  BY <4>1 DEF Fresh
      <4> QED BY <1>0, <3>2, <4>1, <4>2, WellFacts DEF Changed, ByEditor
    <3>4. CASE q # editing  BY <1>0, <3>1, <3>2, <3>4, WellFacts DEF Changed
    <3> QED BY <3>2, <3>3, <3>4
  <2> QED BY <1>4, <2>1, <2>2, <2>3, PathAssumption DEF EditorStep
<1>5. CASE HandleEvent \/ LoseEvent \/ Tick \/ TickRescan \/ ScanDone
  BY <1>1, <1>5 DEF HandleEvent, HandleCreate, HandleWrite, HandleGone, HandleTmp,
    LoseEvent, Tick, TickRescan, ScanDone, quietVars, diskVars
<1>6. ASSUME NEW p \in Paths, TimerFires(p) \/ ScanVisit(p)  PROVE fs' = fs /\ lastVer' = lastVer
  BY <1>6 DEF TimerFires, ScanVisit, quietVars, diskVars
<1>7. CASE Idle \/ UNCHANGED vars
  BY <1>1, <1>7 DEF Idle, vars
<1> QED BY <1>1, <1>2, <1>3, <1>4, <1>5, <1>6, <1>7, DiskStepFile
  DEF Next, VaultNext, WatcherNext, ThreadStep, ScanStep

\* Versions do not decrease.
LEMMA NextVersion == lastVer \in Nat /\ [Next]_vars => lastVer' \in {lastVer, lastVer + 1}
<1> SUFFICES ASSUME [Next]_vars  PROVE lastVer' \in {lastVer, lastVer + 1}
  OBVIOUS
<1>1. ASSUME NEW s \in Slots, Invoke(s)  PROVE lastVer' = lastVer
  BY <1>1 DEF Invoke, diskVars
<1>2. ASSUME NEW th \in Threads, Begin(th) \/ IndexStep(th)  PROVE lastVer' = lastVer
  BY <1>2 DEF Begin, IndexStep, ExistingLinks, CacheSet, GraphLinks, GraphDiff, FtsAdd,
    MoveCache, MoveGraph, MoveFts, DropCache, DropGraph, DropFts, noIndexStep, diskVars
<1>3. ASSUME NEW th \in Threads, DiskStep(th)  PROVE lastVer' \in {lastVer, lastVer + 1}
  BY <1>3 DEF DiskStep, ReadNote, CreateFile, ReadBack, WriteNote, WriteFails, RenameNote,
    DeleteNote, IndexRead, WriteBack, diskVars
<1>4. CASE EditorStep
  BY <1>4 DEF EditorStep, Truncate, Save, RemoveByEditor
<1>5. CASE HandleEvent \/ LoseEvent \/ Tick \/ TickRescan \/ ScanDone
  BY <1>5 DEF HandleEvent, HandleCreate, HandleWrite, HandleGone, HandleTmp,
    LoseEvent, Tick, TickRescan, ScanDone, quietVars, diskVars
<1>6. ASSUME NEW p \in Paths, TimerFires(p) \/ ScanVisit(p)  PROVE lastVer' = lastVer
  BY <1>6 DEF TimerFires, ScanVisit, quietVars, diskVars
<1>7. CASE Idle \/ UNCHANGED vars
  BY <1>7 DEF Idle, vars
<1> QED BY <1>1, <1>2, <1>3, <1>4, <1>5, <1>6, <1>7
  DEF Next, VaultNext, WatcherNext, ThreadStep, ScanStep

\* No content has a version that was not given out yet.
LEMMA NextVer == TInv /\ VerInv /\ SeenInv /\ [Next]_vars => VerInv'
<1> SUFFICES ASSUME TInv, VerInv, SeenInv, [Next]_vars  PROVE VerInv'
  OBVIOUS
<1>1. lastVer' >= 2  BY NextVersion DEF TInv, TypeOK, VerInv
<1>2. \A q \in Paths : Well(fs'[q], lastVer')  BY NextFile
<1> QED BY <1>1, <1>2 DEF VerInv, Well

\* A step of a thread that ends before its change of the file has read the file.
LEMMA ReadsFirst ==
  ASSUME TInv, NEW t \in Threads, ThreadStep(t), job'[t].at = "commit"
  PROVE  /\ job[t].at = "read" /\ job[t].path \in Paths
         /\ fs' = fs /\ job'[t].seen = fs[job[t].path]
         /\ job'[t].op = job[t].op /\ job'[t].path = job[t].path
         /\ job[t].op = "index" => fs[job[t].path].ver >= 2
<1>0. /\ job \in [Threads -> Job] /\ job[t] \in Job /\ JobShape(job[t])
      /\ fs \in [Paths -> Content]
  BY DEF TInv, TypeOK, JobsInv
<1>1. DiskStep(t)  BY <1>0, Whereto DEF ThreadStep
<1>2. ReadNote(t) \/ IndexRead(t)
  <2>1. ~CreateFile(t)  BY <1>0, Whereto DEF CreateFile, Job
  <2>2. ~ReadBack(t)  BY <1>0, Whereto DEF ReadBack, Job
  <2>3. ~WriteNote(t)
    <3>1. WriteNote(t) => job'[t].at \in {"existing", "cache"}  BY <1>0 DEF WriteNote, Job
    <3> QED BY <3>1
  <2>4. ~WriteFails(t) /\ ~RenameNote(t) /\ ~DeleteNote(t) /\ ~WriteBack(t)
    BY <1>0, Whereto DEF WriteFails, RenameNote, DeleteNote, WriteBack
  <2> QED BY <1>1, <2>1, <2>2, <2>3, <2>4 DEF DiskStep
<1>3. ~End(t)  BY <1>0, Whereto
<1>4. job[t].at = "read" /\ fs' = fs /\ job[t].path \in Paths
  BY <1>0, <1>2 DEF ReadNote, IndexRead, At, Mutations, diskVars, JobShape
<1>5. CASE ReadNote(t)
  <2>1. job' = [job EXCEPT ![t].seen = fs[job[t].path], ![t].at = "commit"]
    BY <1>3, <1>5 DEF ReadNote
  <2>2. job[t].op # "index"  BY <1>5 DEF ReadNote, At, Mutations
  <2> QED BY <1>0, <1>4, <2>1, <2>2 DEF Job
<1>6. CASE IndexRead(t)
  <2> DEFINE c == fs[job[t].path]
  <2>1. /\ job' = [job EXCEPT ![t].seen = c, ![t].new = LinksOf[c.body],
                             ![t].at = IF c.id THEN "cache" ELSE "commit"]
        /\ c.ver # 0 /\ c.ver # 1
    BY <1>3, <1>6 DEF IndexRead, Live, IsEmpty
  <2>2. c.ver \in Nat  BY <1>0, <1>4 DEF Content
  <2> QED BY <1>0, <1>4, <2>1, <2>2 DEF Job
<1> QED BY <1>2, <1>5, <1>6

\* What a thread remembers until it changes its file stays well versioned.
LEMMA NextSeen == TInv /\ VerInv /\ SeenInv /\ [Next]_vars => SeenInv'
<1> SUFFICES ASSUME TInv, VerInv, SeenInv, [Next]_vars, NEW t \in Threads
    PROVE  /\ job'[t].at = "queued" => job'[t].seen = Absent("vault")
           /\ job'[t].at = "read" => job'[t].op # "create"
           /\ job'[t].at = "commit" => /\ Well(job'[t].seen, lastVer')
                                       /\ job'[t].op = "index" => job'[t].seen.ver >= 2
                                       /\ job'[t].op = "create" => job'[t].seen.ver = 0
  BY DEF SeenInv, Well, Absent
<1>0. /\ job \in [Threads -> Job] /\ job[t] \in Job /\ job[t].seen \in Content
      /\ lastVer \in Nat /\ lastVer >= 2 /\ fs \in [Paths -> Content]
  BY DEF TInv, TypeOK, VerInv, Job
<1>1. lastVer' \in {lastVer, lastVer + 1}  BY <1>0, NextVersion
<1>2. \A c \in Content : Well(c, lastVer) => Well(c, lastVer')  BY <1>0, <1>1, WellFacts
<1>3. CASE job'[t] = job[t]
  BY <1>0, <1>2, <1>3 DEF SeenInv
<1>4. CASE Begin(t)
  <2>1. /\ job'[t].seen = job[t].seen /\ job'[t].op = job[t].op
        /\ job'[t].at = FirstStep(job[t]) /\ job[t].at = "queued"
    BY <1>0, <1>4 DEF Begin, Goto, Job
  <2>2. job[t].seen = Absent("vault")  BY <2>1 DEF SeenInv
  <2>3. Well(Absent("vault"), lastVer') /\ Absent("vault").ver = 0
    BY <1>0, <1>2, <2>2, WellFacts DEF Absent
  <2> QED BY <2>1, <2>2, <2>3 DEF FirstStep
<1>5. CASE ThreadStep(t)
  <2>1. CASE job'[t].at = "commit"
    BY <1>0, <1>2, <1>5, <2>1, ReadsFirst DEF VerInv, SeenInv
  <2>2. job'[t].at # "read" /\ (job'[t].at = "queued" => job'[t].seen = Absent("vault"))
    <3>1. CASE DiskStep(t)  BY <1>0, <3>1, Whereto
    <3>2. CASE DropFts(t)
      <4>1. /\ NoJob.at = "idle"
            /\ \A d : IndexJob(d).at = "queued" /\ IndexJob(d).seen = Absent("vault")
        BY DEF NoJob, IndexJob
      <4> QED BY <1>0, <3>2, <4>1, Whereto DEF DropFts
    <3>3. CASE ExistingLinks(t)  BY <1>0, <3>3 DEF ExistingLinks, Job
    <3>4. CASE GraphLinks(t)  BY <1>0, <3>4 DEF GraphLinks, Job
    <3>5. CASE CacheSet(t) \/ GraphDiff(t) \/ FtsAdd(t) \/ MoveCache(t) \/ MoveGraph(t)
               \/ MoveFts(t) \/ DropCache(t) \/ DropGraph(t)
      BY <1>0, <3>5, Whereto DEF CacheSet, GraphDiff, FtsAdd, MoveCache, MoveGraph, MoveFts,
        DropCache, DropGraph
    <3> QED BY <1>5, <3>1, <3>2, <3>3, <3>4, <3>5 DEF ThreadStep, IndexStep
  <2> QED BY <2>1, <2>2
<1> QED BY <1>3, <1>4, <1>5, JobFrame

\* While a thread is about to change its file, only the editor changes it.
LEMMA NextHold == OInv /\ [Next]_vars => HoldInv'
<1> SUFFICES ASSUME OInv, [Next]_vars, NEW t \in Threads, Careful(job'[t]), job'[t].op # "create"
    PROVE  LET seen == job'[t].seen  found == fs'[job'[t].path]
           IN  \/ found.ver = seen.ver /\ found.id = seen.id
               \/ found.ver # seen.ver /\ found.by = "editor"
  BY DEF HoldInv, Careful, ReplacesWhatItRead
<1>0. /\ TInv /\ VerInv /\ SeenInv /\ job \in [Threads -> Job] /\ job[t] \in Job
      /\ JobShape(job[t]) /\ job'[t].at = "commit"
      /\ fs \in [Paths -> Content] /\ lastVer \in Nat
  BY DEF OInv, TInv, TypeOK, JobsInv, Careful
<1>1. CASE job'[t] # job[t]
  <2>1. ~Begin(t)
    <3>1. ASSUME Begin(t)  PROVE FALSE
      <4>1. job'[t].op = job[t].op /\ job'[t].match = job[t].match /\ job'[t].at = FirstStep(job[t])
        BY <1>0, <3>1 DEF Begin, Goto, Job
      <4> QED BY <1>0, <4>1 DEF FirstStep, Careful
    <3> QED BY <3>1
  <2>2. ThreadStep(t)  BY <1>0, <1>1, <2>1, JobFrame
  <2> QED BY <1>0, <2>2, ReadsFirst
<1>2. CASE job'[t] = job[t]
  <2> DEFINE q == job[t].path
             seen == job[t].seen
  <2>1. q \in Paths /\ InActor(job[t])
    BY <1>0, <1>2 DEF JobShape, InActor, Job
  <2>2. ReplacesWhatItRead(t)  BY <1>2 DEF OInv, HoldInv
  <2>3. Changed(q) /\ Well(fs'[q], lastVer')  BY <1>0, <2>1, NextFile
  <2>4. CASE fs'[q] = fs[q]  BY <1>2, <2>2, <2>4 DEF ReplacesWhatItRead
  <2>5. q \notin Dests  BY <1>2 DEF Careful
  <2>6. ~ByActor(q)
    <3>1. ASSUME DiskStep(t)  PROVE FALSE
      BY <1>0, <1>2, <3>1, ReadsFirst DEF ThreadStep
    <3> QED BY <1>0, <2>1, <3>1, Alone DEF ByActor
  <2>7. CASE ByEditor(q)
    <3>1. seen.ver \in Nat /\ Well(seen, lastVer)
      BY <1>0, <1>2 DEF SeenInv, Job, Content
    <3>2. fs'[q].ver = seen.ver => fs'[q].id = seen.id
      <4>1. CASE fs'[q].ver < 2
        <5>1. fs'[q].id = FALSE  BY <2>3, <4>1 DEF Well
        <5>2. seen.ver < 2 => seen.id = FALSE  BY <3>1 DEF Well
        <5> QED BY <4>1, <5>1, <5>2
      <4>2. CASE fs'[q].ver = lastVer + 1
        <5>1. seen.ver <= lastVer  BY <3>1 DEF Well
        <5> QED BY <1>0, <3>1, <4>2, <5>1
      <4> QED BY <2>7, <4>1, <4>2 DEF ByEditor
    <3> QED BY <1>2, <2>7, <3>2 DEF ByEditor
  <2> QED BY <2>3, <2>4, <2>5, <2>6, <2>7 DEF Changed
<1> QED BY <1>1, <1>2

\* The invariants hold of the vault that New has scanned.
LEMMA InitHold == Init => VerInv /\ SeenInv /\ HoldInv
<1> SUFFICES ASSUME Init  PROVE VerInv /\ SeenInv /\ HoldInv
  OBVIOUS
<1>1. \A t \in Threads : job[t].at = "idle"  BY DEF Init, VaultInit, NoJob
<1>2. PICK p \in ApiPaths \ Dests, b \in Bodies, present \in BOOLEAN :
        fs = [q \in Paths |-> IF present /\ q = p
                                THEN [ver |-> 2, body |-> b, id |-> TRUE, by |-> "vault"]
                                ELSE Absent("vault")]
  BY DEF Init, VaultInit
<1>3. lastVer = 2  BY DEF Init, VaultInit
<1>4. VerInv  BY <1>2, <1>3 DEF VerInv, Well, Absent
<1> QED BY <1>1, <1>4 DEF SeenInv, HoldInv, Careful

\* A thread that changes its file replaces what it has read.
LEMMA CommitSafe ==
  ASSUME OInv, [Next]_vars, NEW t \in Threads, Commits(t), Careful(job[t])
  PROVE  ReplacesWhatItRead(t)
<1>1. CASE job[t].op # "create"  BY <1>1 DEF OInv, HoldInv
<1>2. CASE job[t].op = "create"
  <2> DEFINE q == job[t].path
  <2>0. /\ TInv /\ VerInv /\ SeenInv /\ job[t] \in Job /\ JobShape(job[t])
        /\ fs \in [Paths -> Content] /\ job[t].at = "commit" /\ job'[t] # job[t]
        /\ fs'[q] # fs[q] /\ q \in Paths
    BY <1>2 DEF OInv, TInv, TypeOK, JobsInv, Commits, JobShape
  <2>1. ThreadStep(t)
    <3>1. job[t] # NoJob /\ ~Begin(t)  BY <2>0 DEF NoJob, Begin
    <3> QED BY <2>0, <3>1, JobFrame
  <2>2. DiskStep(t)
    BY <2>0, <2>1 DEF ThreadStep, IndexStep, ExistingLinks, CacheSet, GraphLinks, GraphDiff,
      FtsAdd, MoveCache, MoveGraph, MoveFts, DropCache, DropGraph, DropFts, At
  <2>3. CreateFile(t) \/ WriteFails(t)
    BY <1>2, <2>0, <2>2 DEF DiskStep, ReadNote, ReadBack, WriteNote, RenameNote, DeleteNote,
      IndexRead, WriteBack, At
  <2>4. fs[q].ver = 0
    BY <1>2, <2>0, <2>3 DEF CreateFile, WriteFails, Live
  <2>5. job[t].seen.ver = 0 /\ job[t].seen.id = FALSE /\ fs[q].id = FALSE
    BY <1>2, <2>0, <2>4 DEF SeenInv, VerInv, Well
  <2> QED BY <2>4, <2>5 DEF ReplacesWhatItRead
<1> QED BY <1>1, <1>2

\* Whatever interleaves with it, with any number of notes, callers and editors'
\* changes: an operation of the vault that changes a note's file replaces what it
\* has read and compared, or what the editor did since.
THEOREM ReadCheckWrite == Spec => NoSilentOverwrite
<1>1. Init => OInv  BY InitTypes, InitHold DEF OInv
<1>2. OInv /\ [Next]_vars => OInv'
  BY NextTypes, NextVer, NextSeen, NextHold DEF OInv
<1>3. OInv /\ [Next]_vars =>
        [\A th \in Threads :
           /\ Commits(th) /\ job[th].path \notin Dests
           /\ job[th].op \in {"trash", "delete"} => job[th].match # 0
           => ReplacesWhatItRead(th)]_vars
  BY CommitSafe DEF Commits, Careful
<1> QED BY <1>1, <1>2, <1>3, PTL DEF Spec, NoSilentOverwrite

-----------------------------------------------------------------------------
(* No ghosts at rest                                                       *)

\* The removal of p is among the events that have not been delivered.
GoneComing(p) == \E i \in 1..Len(events) : events[i].kind = "Gone" /\ events[i].path = p

\* A RemoveFile of p is that far.
Removing(p, at) ==
  \E th \in Threads : job[th].op = "unindex" /\ job[th].at = at /\ job[th].path = p

\* The operation has seen or made the note and will index it.
WillIndex(j) ==
  \/ j.at \in {"readback", "existing", "cache", "links", "diff", "fts"}
  \/ j.op = "index" /\ j.at = "commit"

\* The indexes have nothing of p, or a RemoveFile is about to take it out.
Swept(p) ==
  /\ \A th \in Threads : job[th].path = p => ~WillIndex(job[th])
  /\ cache[p] = 0
  /\ \/ Removing(p, "dropGraph")
     \/ graph.out[p] = {} /\ (Removing(p, "dropFts") \/ fts[p] = NoDoc)

\* A note that is gone is on its way out of the indexes: its removal has not been
\* delivered, or waits for its timer, or RemoveFile begins, or has swept.
GhostInv(p) ==
  mode = "watch" /\ p \notin Dests \cup missed \cup clobbered /\ ~Live(p) =>
    GoneComing(p) \/ p \in pending \/ Removing(p, "dropCache") \/ Swept(p)

\* A removal that waits has a timer.
TimerInv == \A p \in pending : timers[p] > 0

NInv == OInv /\ TimerInv /\ \A p \in Paths : GhostInv(p)

\* The job of a RemoveFile changes only when its thread takes its step.
LEMMA RemovalStays ==
  ASSUME TInv, [Next]_vars, NEW p \in Paths, NEW at \in {"dropCache", "dropGraph", "dropFts"},
         NEW th \in Threads, job[th].op = "unindex", job[th].at = at, job[th].path = p
  PROVE  \/ Removing(p, at)'
         \/ at = "dropCache" /\ DropCache(th)
         \/ at = "dropGraph" /\ DropGraph(th)
         \/ at = "dropFts" /\ DropFts(th)
<1>1. CASE job'[th] = job[th]  BY <1>1 DEF Removing
<1>2. CASE job'[th] # job[th]
  <2>1. ThreadStep(th)
    <3>1. job[th] # NoJob /\ ~Begin(th)  BY DEF NoJob, Begin
    <3> QED BY <1>2, <3>1, JobFrame
  <2>2. ~DiskStep(th)
    BY DEF DiskStep, ReadNote, CreateFile, ReadBack, WriteNote, WriteFails, RenameNote,
      DeleteNote, IndexRead, WriteBack, At
  <2> QED BY <2>1, <2>2 DEF ThreadStep, IndexStep, ExistingLinks, CacheSet, GraphLinks,
      GraphDiff, FtsAdd, MoveCache, MoveGraph, MoveFts, DropCache, DropGraph, DropFts, At
<1> QED BY <1>1, <1>2

\* The steps that do not change the files or the events, and how the others do.
LEMMA EventFrame ==
  ASSUME [Next]_vars
  PROVE  \/ UNCHANGED <<fs, events, mode>>
         \/ UNCHANGED <<fs, mode>> /\ (HandleEvent \/ LoseEvent)
         \/ mode' = mode /\ (EditorStep \/ \E th \in Threads : DiskStep(th))
<1>1. ASSUME NEW s \in Slots, Invoke(s)  PROVE UNCHANGED <<fs, events, mode>>
  BY <1>1 DEF Invoke, diskVars
<1>2. ASSUME NEW th \in Threads, Begin(th) \/ IndexStep(th)  PROVE UNCHANGED <<fs, events, mode>>
  BY <1>2 DEF Begin, IndexStep, ExistingLinks, CacheSet, GraphLinks, GraphDiff, FtsAdd,
    MoveCache, MoveGraph, MoveFts, DropCache, DropGraph, DropFts, noIndexStep, diskVars
<1>3. ASSUME NEW th \in Threads, DiskStep(th)  PROVE mode' = mode
  BY <1>3 DEF DiskStep, ReadNote, CreateFile, ReadBack, WriteNote, WriteFails, RenameNote,
    DeleteNote, IndexRead, WriteBack
<1>4. CASE EditorStep
  BY <1>4 DEF EditorStep, Truncate, Save, RemoveByEditor
<1>5. CASE HandleEvent \/ LoseEvent
  BY <1>5 DEF HandleEvent, HandleCreate, HandleWrite, HandleGone, HandleTmp, LoseEvent,
    quietVars, diskVars
<1>6. CASE Tick \/ TickRescan \/ ScanDone
  BY <1>6 DEF Tick, TickRescan, ScanDone, quietVars, diskVars
<1>7. ASSUME NEW p \in Paths, TimerFires(p) \/ ScanVisit(p)  PROVE UNCHANGED <<fs, events, mode>>
  BY <1>7 DEF TimerFires, ScanVisit, quietVars, diskVars
<1>8. CASE Idle \/ UNCHANGED vars
  BY <1>8 DEF Idle, vars
<1> QED BY <1>1, <1>2, <1>3, <1>4, <1>5, <1>6, <1>7, <1>8
  DEF Next, VaultNext, WatcherNext, ThreadStep, ScanStep

\* Events that are reported come after those that wait.
LEMMA Reported ==
  ASSUME mode = "watch", events \in Seq(Event), NEW es \in Seq(Event), Notify(es),
         NEW p
  PROVE  /\ GoneComing(p) => GoneComing(p)'
         /\ es # <<>> /\ Head(es) = Ev("Gone", p) => GoneComing(p)'
<1>1. events' = events \o es  BY DEF Notify
<1>2. Len(events') = Len(events) + Len(es) /\ Len(events) \in Nat /\ Len(es) \in Nat
  BY <1>1
<1>3. ASSUME GoneComing(p)  PROVE GoneComing(p)'
  <2>1. PICK i \in 1..Len(events) : events[i].kind = "Gone" /\ events[i].path = p
    BY <1>3 DEF GoneComing
  <2>2. events'[i] = events[i] /\ i \in 1..Len(events')  BY <1>1, <1>2
  <2> QED BY <2>1, <2>2 DEF GoneComing
<1>4. ASSUME es # <<>>, Head(es) = Ev("Gone", p)  PROVE GoneComing(p)'
  <2> DEFINE i == Len(events) + 1
  <2>1. Len(es) > 0 /\ Head(es) = es[1]  BY <1>4
  <2>2. i \in 1..Len(events')  BY <1>2, <2>1
  <2>3. events'[i] = es[1]  BY <1>1, <1>2, <2>1
  <2> QED BY <1>4, <2>1, <2>2, <2>3 DEF GoneComing, Ev
<1> QED BY <1>3, <1>4

\* A change of the disk is reported, and so is every removal of a note.
LEMMA RemovalReported ==
  ASSUME OInv, mode = "watch", EditorStep \/ \E th \in Threads : DiskStep(th),
         NEW p \in Paths \ Dests
  PROVE  /\ GoneComing(p) => GoneComing(p)'
         /\ Live(p) /\ ~Live(p)' => GoneComing(p)'
<1>0. /\ events \in Seq(Event) /\ fs \in [Paths -> Content] /\ lastVer \in Nat
      /\ editing \in Paths \cup {None} /\ SeenInv /\ TInv
  BY DEF OInv, TInv, TypeOK
<1>1. ASSUME UNCHANGED fs, UNCHANGED events
      PROVE  (GoneComing(p) => GoneComing(p)') /\ (Live(p) => Live(p)')
  BY <1>1 DEF GoneComing, Live
<1>2. ASSUME NEW q \in Paths, NEW c, Store(q, c), c.ver # 0
      PROVE  (GoneComing(p) => GoneComing(p)') /\ (Live(p) => Live(p)')
  <2>1. GoneComing(p) => GoneComing(p)'
    BY <1>0, <1>2, Reported, EventTypes DEF Store
  <2>2. fs' = [fs EXCEPT ![q] = c]  BY <1>2 DEF Store
  <2> QED BY <1>0, <1>2, <2>1, <2>2 DEF Live
<1>3. ASSUME NEW q \in Paths, NEW who, RemovePath(q, who)
      PROVE  (GoneComing(p) => GoneComing(p)') /\ (Live(p) /\ ~Live(p)' => GoneComing(p)')
  <2> DEFINE es == <<Ev("Gone", q)>>
  <2>1. es \in Seq(Event) /\ es # <<>> /\ Head(es) = Ev("Gone", q)  BY EventTypes
  <2>2. Notify(es) /\ fs' = [fs EXCEPT ![q] = Absent(who)]  BY <1>3 DEF RemovePath
  <2> HIDE DEF es
  <2>3. q # p => fs'[p] = fs[p]  BY <1>0, <2>2
  <2> QED BY <1>0, <2>1, <2>2, <2>3, Reported DEF Live
<1>4. ASSUME NEW q \in Paths, NEW d \in Dests, d \in Paths, RenameFile(q, d)
      PROVE  (GoneComing(p) => GoneComing(p)') /\ (Live(p) /\ ~Live(p)' => GoneComing(p)')
  <2>1. CASE q = d
    <3>1. fs' = fs /\ Notify(<<>>) /\ <<>> \in Seq(Event)
      BY <1>4, <2>1, EventTypes DEF RenameFile
    <3> QED BY <1>0, <3>1, Reported DEF Live
  <2>2. CASE q # d
    <3> DEFINE es == <<Ev("Gone", q), Ev("Create", d)>>
    <3>1. es \in Seq(Event) /\ es # <<>> /\ Head(es) = Ev("Gone", q)
      BY <1>4, EventTypes
    <3>2. Notify(es) /\ fs' = [fs EXCEPT ![d] = fs[q], ![q] = Absent("vault")]
      BY <1>4, <2>2 DEF RenameFile
    <3> HIDE DEF es
    <3>3. q # p => fs'[p] = fs[p]  BY <1>0, <1>4, <3>2
    <3> QED BY <1>0, <3>1, <3>2, <3>3, Reported DEF Live
  <2> QED BY <2>1, <2>2
<1>5. CASE EditorStep
  <2>1. ASSUME NEW q \in ApiPaths, Truncate(q)
        PROVE  (GoneComing(p) => GoneComing(p)') /\ (Live(p) => Live(p)')
    <3>1. Empty("editor").ver # 0  BY DEF Empty
    <3> QED BY <1>2, <2>1, <3>1, PathAssumption DEF Truncate
  <2>2. ASSUME NEW q \in ApiPaths, RemoveByEditor(q)
        PROVE  (GoneComing(p) => GoneComing(p)') /\ (Live(p) /\ ~Live(p)' => GoneComing(p)')
    BY <1>3, <2>2, PathAssumption DEF RemoveByEditor
  <2>3. CASE Save
    <3>1. PICK b \in Texts, i \in BOOLEAN : Store(editing, Fresh(b, i, "editor"))
      BY <2>3 DEF Save, Texts
    <3>2. editing \in Paths /\ Fresh(b, i, "editor").ver # 0  BY <1>0, <2>3 DEF Save, Fresh
    <3> QED BY <1>2, <3>1, <3>2
  <2> QED BY <1>5, <2>1, <2>2, <2>3 DEF EditorStep
<1>6. ASSUME NEW th \in Threads, DiskStep(th)
      PROVE  (GoneComing(p) => GoneComing(p)') /\ (Live(p) /\ ~Live(p)' => GoneComing(p)')
  <2> DEFINE j == job[th]
  <2>0. j \in Job /\ JobShape(j)  BY <1>0 DEF TInv, JobsInv
  <2>1. CASE ReadNote(th) \/ ReadBack(th) \/ IndexRead(th)
    BY <1>1, <2>1 DEF ReadNote, ReadBack, IndexRead, diskVars
  <2>2. CASE CreateFile(th)
    <3>1. j.path \in Paths  BY <2>0, <2>2 DEF JobShape, CreateFile, At
    <3>2. \A b, i : Fresh(b, i, "vault").ver # 0  BY <1>0 DEF Fresh
    <3>3. CASE UNCHANGED <<fs, lastVer, events>>  BY <1>1, <3>3
    <3>4. ASSUME NEW b \in Bodies, NEW i \in BOOLEAN, Store(j.path, Fresh(b, i, "vault"))
          PROVE  (GoneComing(p) => GoneComing(p)') /\ (Live(p) => Live(p)')
      BY <1>2, <3>1, <3>2, <3>4
    <3> QED BY <2>2, <3>3, <3>4 DEF CreateFile
  <2>3. CASE WriteNote(th)
    <3>1. j.path \in Paths  BY <2>0, <2>3 DEF JobShape, WriteNote, At
    <3>2. \A b, i : Fresh(b, i, "vault").ver # 0  BY <1>0 DEF Fresh
    <3> QED BY <1>2, <2>3, <3>1, <3>2 DEF WriteNote
  <2>4. CASE WriteFails(th)
    <3>1. j.path \in Paths  BY <2>0, <2>4 DEF JobShape, WriteFails, At
    <3>2. Empty("vault").ver # 0  BY DEF Empty
    <3> QED BY <1>2, <2>4, <3>1, <3>2 DEF WriteFails
  <2>5. CASE RenameNote(th)
    <3>1. j.path \in Paths /\ j.dst \in Dests /\ j.dst \in Paths
      BY <2>0, <2>5, PathAssumption DEF JobShape, RenameNote, At
    <3> QED BY <1>1, <1>4, <2>5, <3>1 DEF RenameNote
  <2>6. CASE DeleteNote(th)
    <3>1. j.path \in Paths  BY <2>0, <2>6 DEF JobShape, DeleteNote, At
    <3> QED BY <1>1, <1>3, <2>6, <3>1 DEF DeleteNote
  <2>7. CASE WriteBack(th)
    <3> DEFINE es == <<Ev("Tmp", j.path), Ev("Create", j.path)>>
               c == [j.seen EXCEPT !.id = TRUE]
    <3>1. j.path \in Paths  BY <2>0, <2>7 DEF JobShape, WriteBack, At
    <3>2. es \in Seq(Event)  BY <3>1, EventTypes
    <3>3. c.ver = j.seen.ver /\ j.seen.ver >= 2
      BY <1>0, <2>0, <2>7 DEF Job, Content, SeenInv, WriteBack, At
    <3>4. CASE fs' = [fs EXCEPT ![j.path] = c] /\ Notify(es)
      <4> HIDE DEF es, c
      <4>1. fs'[p] = fs[p] \/ fs'[p] = c  BY <1>0, <3>4
      <4> QED BY <1>0, <3>2, <3>3, <3>4, <4>1, Reported DEF Live
    <3>5. CASE UNCHANGED <<fs, editing, events>>  BY <1>1, <3>5
    <3> QED BY <2>7, <3>4, <3>5 DEF WriteBack
  <2> QED BY <1>6, <2>1, <2>2, <2>3, <2>4, <2>5, <2>6, <2>7 DEF DiskStep
<1> QED BY <1>5, <1>6

\* The removal of p is delivered, or lost, or still to come.
LEMMA RemovalDelivered ==
  ASSUME TInv, mode = "watch", HandleEvent \/ LoseEvent, NEW p \in Paths, GoneComing(p)
  PROVE  GoneComing(p)' \/ p \in pending' \/ p \in missed'
<1>0. events \in Seq(Event) /\ events # <<>> /\ events' = Tail(events)
  BY DEF TInv, TypeOK, HandleEvent, HandleCreate, HandleWrite, HandleGone, HandleTmp,
    LoseEvent, Receive
<1>1. PICK i \in 1..Len(events) : events[i].kind = "Gone" /\ events[i].path = p
  BY DEF GoneComing
<1>2. CASE i = 1
  <2>1. Head(events).kind = "Gone" /\ Head(events).path = p  BY <1>0, <1>1, <1>2
  <2>2. ~HandleCreate /\ ~HandleWrite /\ ~HandleTmp
    BY <2>1 DEF HandleCreate, HandleWrite, HandleTmp, Receive
  <2>3. HandleGone => p \in pending'  BY <2>1 DEF HandleGone, MarkRemoved
  <2>4. LoseEvent => p \in missed'  BY <2>1 DEF LoseEvent
  <2> QED BY <2>2, <2>3, <2>4 DEF HandleEvent
<1>3. CASE i # 1
  <2>1. i - 1 \in 1..Len(events') /\ events'[i - 1] = events[i]  BY <1>0, <1>1, <1>3
  <2> QED BY <1>1, <2>1 DEF GoneComing
<1> QED BY <1>2, <1>3

\* A removal that waits keeps waiting until RemoveFile begins.
LEMMA RemovalWaits ==
  ASSUME TInv, [Next]_vars, NEW p \in pending
  PROVE  p \in pending' \/ Removing(p, "dropCache")'
<1>0. job \in [Threads -> Job] /\ Loop \in Threads /\ p \in Threads /\ p \in Paths
  BY DEF TInv, TypeOK, Threads
<1>1. ASSUME NEW th \in Threads, NEW d, job' = [job EXCEPT ![th] = UnindexJob(p, d)]
      PROVE  Removing(p, "dropCache")'
  <2>1. job'[th] = UnindexJob(p, d)  BY <1>0, <1>1
  <2>2. job'[th].op = "unindex" /\ job'[th].at = "dropCache" /\ job'[th].path = p
    BY <2>1 DEF UnindexJob, NoJob
  <2> QED BY <2>2 DEF Removing
<1>2. CASE VaultNext /\ UNCHANGED watchVars  BY <1>2 DEF watchVars
<1>3. CASE HandleCreate
  <2>1. CASE UNCHANGED pending  BY <2>1
  <2>2. ASSUME NEW old \in pending, ClaimIfPending(old),
               StartJob(Loop, UnindexJob(old, Head(events).path))
        PROVE  p \in pending' \/ Removing(p, "dropCache")'
    BY <1>0, <1>1, <2>2 DEF ClaimIfPending, StartJob
  <2> QED BY <1>3, <2>1, <2>2 DEF HandleCreate, FindPairedRemoval
<1>4. CASE HandleGone  BY <1>4 DEF HandleGone, MarkRemoved
<1>5. CASE HandleWrite \/ HandleTmp \/ LoseEvent \/ Tick \/ TickRescan \/ ScanDone
  BY <1>5 DEF HandleWrite, HandleTmp, LoseEvent, Tick, TickRescan, ScanDone, watchVars
<1>6. ASSUME NEW q \in Paths, TimerFires(q)  PROVE p \in pending' \/ Removing(p, "dropCache")'
  BY <1>0, <1>1, <1>6 DEF TimerFires, ClaimIfPending, StartJob
<1>7. ASSUME NEW q \in Paths, ScanVisit(q)  PROVE p \in pending'
  BY <1>7 DEF ScanVisit
<1>8. CASE Idle \/ UNCHANGED vars  BY <1>8 DEF Idle, vars
<1> QED BY <1>2, <1>3, <1>4, <1>5, <1>6, <1>7, <1>8
  DEF Next, WatcherNext, HandleEvent, ScanStep

\* It waits for a timer.
LEMMA NextTimers == TInv /\ TimerInv /\ [Next]_vars => TimerInv'
<1> SUFFICES ASSUME TInv, TimerInv, [Next]_vars, NEW p \in pending'  PROVE timers'[p] > 0
  BY DEF TimerInv
<1>0. timers \in [Paths -> Nat] /\ pending \subseteq Paths  BY DEF TInv, TypeOK
<1>1. ASSUME pending' \subseteq pending, timers' = timers  PROVE timers'[p] > 0
  BY <1>1 DEF TimerInv
<1>2. CASE VaultNext /\ UNCHANGED watchVars  BY <1>1, <1>2 DEF watchVars
<1>3. CASE HandleCreate
  BY <1>1, <1>3 DEF HandleCreate, ClaimIfPending, FindPairedRemoval
<1>4. CASE HandleGone
  <2> DEFINE q == Head(events).path
  <2>1. q \in Paths  BY <1>4, OldestEvent DEF HandleGone, Receive, TInv, TypeOK, Event
  <2>2. /\ pending' = pending \cup {q}
        /\ timers' = [timers EXCEPT ![q] = IF q \in pending THEN @ ELSE @ + 1]
    BY <1>4 DEF HandleGone, MarkRemoved
  <2> HIDE DEF q
  <2> QED BY <1>0, <2>1, <2>2 DEF TimerInv
<1>5. CASE HandleWrite \/ HandleTmp \/ LoseEvent \/ Tick \/ TickRescan \/ ScanDone
  BY <1>1, <1>5 DEF HandleWrite, HandleTmp, LoseEvent, Tick, TickRescan, ScanDone, watchVars
<1>6. ASSUME NEW q \in Paths, TimerFires(q)  PROVE timers'[p] > 0
  BY <1>0, <1>6 DEF TimerFires, ClaimIfPending, TimerInv
<1>7. ASSUME NEW q \in Paths, ScanVisit(q)  PROVE timers'[p] > 0
  BY <1>1, <1>7 DEF ScanVisit
<1>8. CASE Idle \/ UNCHANGED vars  BY <1>1, <1>8 DEF Idle, vars
<1> QED BY <1>2, <1>3, <1>4, <1>5, <1>6, <1>7, <1>8
  DEF Next, WatcherNext, HandleEvent, ScanStep

\* Only an indexing that finds the note takes back that it was clobbered.
LEMMA ClobberFrame ==
  ASSUME TInv, [Next]_vars, NEW p \in clobbered
  PROVE  p \in clobbered' \/ Live(p)'
<1>1. ASSUME NEW s \in Slots, Invoke(s)  PROVE clobbered' = clobbered
  BY <1>1 DEF Invoke
<1>2. ASSUME NEW th \in Threads, Begin(th)  PROVE clobbered' = clobbered
  BY <1>2 DEF Begin
<1>3. ASSUME NEW th \in Threads, DiskStep(th)  PROVE p \in clobbered' \/ Live(p)'
  <2>1. CASE IndexRead(th)
    BY <2>1 DEF IndexRead, diskVars, Live
  <2> QED BY <1>3, <2>1 DEF DiskStep, ReadNote, CreateFile, ReadBack, WriteNote, WriteFails,
      RenameNote, DeleteNote, WriteBack
<1>4. ASSUME NEW th \in Threads, IndexStep(th)  PROVE p \in clobbered'
  BY <1>4 DEF IndexStep, ExistingLinks, CacheSet, GraphLinks, GraphDiff, FtsAdd,
    MoveCache, MoveGraph, MoveFts, DropCache, DropGraph, DropFts, Clobber
<1>5. CASE EditorStep
  BY <1>5 DEF EditorStep, Truncate, Save, RemoveByEditor
<1>6. CASE HandleEvent \/ LoseEvent \/ Tick \/ TickRescan \/ ScanDone
  BY <1>6 DEF HandleEvent, HandleCreate, HandleWrite, HandleGone, HandleTmp,
    LoseEvent, Tick, TickRescan, ScanDone, quietVars
<1>7. ASSUME NEW q \in Paths, TimerFires(q) \/ ScanVisit(q)  PROVE clobbered' = clobbered
  BY <1>7 DEF TimerFires, ScanVisit, quietVars
<1>8. CASE Idle \/ UNCHANGED vars
  BY <1>8 DEF Idle, vars
<1> QED BY <1>1, <1>2, <1>3, <1>4, <1>5, <1>6, <1>7, <1>8
  DEF Next, VaultNext, WatcherNext, ThreadStep, ScanStep

\* The events that are lost stay so.
LEMMA MissedFrame == [Next]_vars => missed \subseteq missed' /\ mode' = mode
<1> SUFFICES ASSUME [Next]_vars  PROVE missed \subseteq missed' /\ mode' = mode
  OBVIOUS
<1>1. mode' = mode  BY EventFrame
<1>2. UNCHANGED watchVars => missed' = missed  BY DEF watchVars
<1>3. HandleEvent \/ LoseEvent \/ Tick \/ TickRescan \/ ScanDone => missed \subseteq missed'
  BY DEF HandleEvent, HandleCreate, HandleWrite, HandleGone, HandleTmp,
    LoseEvent, Tick, TickRescan, ScanDone, watchVars
<1>4. \A q \in Paths : TimerFires(q) \/ ScanVisit(q) => missed' = missed
  BY DEF TimerFires, ScanVisit
<1>5. Idle \/ UNCHANGED vars => missed' = missed
  BY DEF Idle, vars
<1> QED BY <1>1, <1>2, <1>3, <1>4, <1>5 DEF Next, WatcherNext, ScanStep

\* A note that is gone is seen or made by no operation that indexes it.
LEMMA NoIndexing ==
  ASSUME OInv, [Next]_vars, NEW p \in Paths, ~Live(p), ~Live(p)',
         NEW th \in Threads, job'[th].path = p, WillIndex(job'[th])
  PROVE  job[th].path = p /\ WillIndex(job[th])
<1>0. /\ job \in [Threads -> Job] /\ job[th] \in Job /\ JobShape(job[th]) /\ TInv
      /\ fs \in [Paths -> Content] /\ lastVer \in Nat
  BY DEF OInv, TInv, TypeOK, JobsInv
<1>1. CASE job'[th] = job[th]  BY <1>1
<1>2. CASE job'[th] # job[th]
  <2>1. job'[th].at \notin {"idle", "queued", "read", "dropCache", "moveCache"}
    BY DEF WillIndex
  <2>2. ~Begin(th)
    <3>1. ASSUME Begin(th)  PROVE FALSE
      <4>1. job'[th].at = FirstStep(job[th]) /\ job'[th].op = job[th].op
        BY <1>0, <3>1 DEF Begin, Goto, Job
      <4> QED BY <2>1, <4>1 DEF FirstStep, WillIndex
    <3> QED BY <3>1
  <2>3. ThreadStep(th)  BY <1>0, <1>2, <2>1, <2>2, JobFrame
  <2>4. ~End(th)  BY <1>0, <2>1, Whereto
  <2>5. CASE DiskStep(th)
    <3>1. ~ReadNote(th)
      <4>1. ASSUME ReadNote(th)  PROVE FALSE
        <5>1. job'[th].at = "commit" /\ job'[th].op = job[th].op /\ job[th].op # "index"
          BY <1>0, <2>4, <4>1 DEF ReadNote, At, Mutations, Job
        <5> QED BY <5>1 DEF WillIndex
      <4> QED BY <4>1
    <3>2. ASSUME NEW c, c.ver # 0, Store(job[th].path, c), job'[th].path = job[th].path
          PROVE  FALSE
      <4>1. fs' = [fs EXCEPT ![p] = c]  BY <3>2 DEF Store
      <4> QED BY <1>0, <3>2, <4>1 DEF Live
    <3>3. \A b, i : Fresh(b, i, "vault").ver # 0  BY <1>0 DEF Fresh
    <3>4. ~CreateFile(th)
      <4>1. ASSUME CreateFile(th)  PROVE FALSE
        <5>1. PICK b \in Bodies, i \in BOOLEAN :
                /\ Store(job[th].path, Fresh(b, i, "vault"))
                /\ job' = [job EXCEPT ![th].seen = Fresh(b, i, "vault"),
                          ![th].new = LinksOf[b], ![th].at = "readback"]
          BY <2>4, <4>1 DEF CreateFile
        <5>2. job'[th].path = job[th].path  BY <1>0, <5>1 DEF Job
        <5> QED BY <3>2, <3>3, <5>1, <5>2
      <4> QED BY <4>1
    <3>5. ~WriteNote(th)
      <4>1. ASSUME WriteNote(th)  PROVE FALSE
        <5>1. PICK b, a :
                /\ Store(job[th].path, Fresh(b, job[th].seen.id, "vault"))
                /\ job' = [job EXCEPT ![th].seen = Fresh(b, job[th].seen.id, "vault"),
                          ![th].new = LinksOf[b], ![th].at = a]
          BY <4>1 DEF WriteNote
        <5>2. job'[th].path = job[th].path  BY <1>0, <5>1 DEF Job
        <5> QED BY <3>2, <3>3, <5>1, <5>2
      <4> QED BY <4>1
    <3>6. ~WriteFails(th) /\ ~RenameNote(th) /\ ~DeleteNote(th)
      BY <1>0, <2>1, <2>4, Whereto DEF WriteFails, RenameNote, DeleteNote
    <3>7. ~IndexRead(th)
      <4>1. ASSUME IndexRead(th)  PROVE FALSE
        <5>1. Live(job[th].path) /\ job'[th].path = job[th].path
          BY <1>0, <2>4, <4>1 DEF IndexRead, Job
        <5> QED BY <5>1
      <4> QED BY <4>1
    <3>8. CASE ReadBack(th)
      BY <1>0, <2>4, <3>8 DEF ReadBack, At, WillIndex, Job
    <3>9. CASE WriteBack(th)
      BY <1>0, <3>9 DEF WriteBack, At, WillIndex, Goto, Job
    <3> QED BY <2>5, <3>1, <3>4, <3>5, <3>6, <3>7, <3>8, <3>9 DEF DiskStep
  <2>6. CASE IndexStep(th)
    <3>1. CASE ExistingLinks(th)
      BY <1>0, <3>1 DEF ExistingLinks, At, WillIndex, Job
    <3>2. CASE GraphLinks(th)
      BY <1>0, <3>2 DEF GraphLinks, WillIndex, Job
    <3>3. CASE CacheSet(th) \/ GraphDiff(th)
      <4>1. Goto(th, "links") \/ Goto(th, "fts")  BY <2>4, <3>3 DEF CacheSet, GraphDiff
      <4>2. job'[th].path = job[th].path  BY <1>0, <4>1 DEF Goto, Job
      <4> QED BY <3>3, <4>2 DEF CacheSet, GraphDiff, WillIndex
    <3>4. ~FtsAdd(th) /\ ~MoveFts(th)  BY <2>4 DEF FtsAdd, MoveFts
    <3>5. ~MoveCache(th) /\ ~MoveGraph(th) /\ ~DropCache(th) /\ ~DropGraph(th)
      BY <1>0, Whereto DEF MoveCache, MoveGraph, DropCache, DropGraph, WillIndex
    <3>6. ~DropFts(th)
      <4>1. NoJob.at = "idle" /\ \A d : IndexJob(d).at = "queued"  BY DEF NoJob, IndexJob
      <4> QED BY <1>0, <2>1, <2>4, <4>1 DEF DropFts
    <3> QED BY <2>6, <3>1, <3>2, <3>3, <3>4, <3>5, <3>6 DEF IndexStep
  <2> QED BY <2>3, <2>5, <2>6 DEF ThreadStep
<1> QED BY <1>1, <1>2

\* The steps that change the cache and the full-text index.
LEMMA CacheSteps ==
  ASSUME [Next]_vars
  PROVE  /\ cache' = cache \/ \E th \in Threads : CacheSet(th) \/ MoveCache(th) \/ DropCache(th)
         /\ fts' = fts \/ \E th \in Threads : FtsAdd(th) \/ MoveFts(th) \/ DropFts(th)
<1>1. ASSUME NEW s \in Slots, Invoke(s)  PROVE UNCHANGED <<cache, fts>>
  BY <1>1 DEF Invoke, indexVars
<1>2. ASSUME NEW th \in Threads, Begin(th)  PROVE UNCHANGED <<cache, fts>>
  BY <1>2 DEF Begin, indexVars
<1>3. ASSUME NEW th \in Threads, DiskStep(th)  PROVE UNCHANGED <<cache, fts>>
  BY <1>3 DEF DiskStep, ReadNote, CreateFile, ReadBack, WriteNote, WriteFails, RenameNote,
    DeleteNote, IndexRead, WriteBack, indexVars
<1>4. ASSUME NEW th \in Threads, IndexStep(th)
      PROVE  /\ cache' = cache \/ CacheSet(th) \/ MoveCache(th) \/ DropCache(th)
             /\ fts' = fts \/ FtsAdd(th) \/ MoveFts(th) \/ DropFts(th)
  BY <1>4 DEF IndexStep, ExistingLinks, CacheSet, GraphLinks, GraphDiff, FtsAdd, MoveCache,
    MoveGraph, MoveFts, DropCache, DropGraph, DropFts, indexVars
<1>5. CASE EditorStep
  BY <1>5 DEF EditorStep, Truncate, Save, RemoveByEditor, indexVars
<1>6. CASE HandleEvent \/ LoseEvent \/ Tick \/ TickRescan \/ ScanDone
  BY <1>6 DEF HandleEvent, HandleCreate, HandleWrite, HandleGone, HandleTmp,
    LoseEvent, Tick, TickRescan, ScanDone, quietVars, indexVars
<1>7. ASSUME NEW p \in Paths, TimerFires(p) \/ ScanVisit(p)  PROVE UNCHANGED <<cache, fts>>
  BY <1>7 DEF TimerFires, ScanVisit, quietVars, indexVars
<1>8. CASE Idle \/ UNCHANGED vars
  BY <1>8 DEF Idle, vars
<1> QED BY <1>1, <1>2, <1>3, <1>4, <1>5, <1>6, <1>7, <1>8
  DEF Next, VaultNext, WatcherNext, ThreadStep, ScanStep

\* Where a thread is in the indexes and whose entries it touches.
LEMMA IndexArgs ==
  ASSUME TInv, NEW th \in Threads
  PROVE  /\ job[th].at # "idle" => job[th].path \in Paths
         /\ job[th].at \in {"moveCache", "moveGraph", "moveFts"} => job[th].dst \in Dests
         /\ WillIndex(job[th]) => InActor(job[th])
<1>1. job[th] \in Job /\ JobShape(job[th])  BY DEF TInv, JobsInv
<1> QED BY <1>1 DEF Job, JobShape, InActor, WillIndex

\* The cache entry of a note that no operation will index stays empty.
LEMMA CacheEmpty ==
  ASSUME TInv, [Next]_vars, NEW p \in Paths \ Dests, cache[p] = 0,
         \A th \in Threads : job[th].path = p => ~WillIndex(job[th])
  PROVE  cache'[p] = 0
<1>0. cache \in [Paths -> Nat]  BY DEF TInv, TypeOK
<1>1. ASSUME NEW th \in Threads, CacheSet(th)  PROVE cache'[p] = 0
  <2>1. job[th].path # p  BY <1>1 DEF CacheSet, WillIndex
  <2> QED BY <1>0, <1>1, <2>1 DEF CacheSet
<1>2. ASSUME NEW th \in Threads, MoveCache(th)  PROVE cache'[p] = 0
  <2>1. job[th].dst # p  BY <1>2, IndexArgs DEF MoveCache
  <2> QED BY <1>0, <1>2, <2>1 DEF MoveCache
<1>3. ASSUME NEW th \in Threads, DropCache(th)  PROVE cache'[p] = 0
  BY <1>0, <1>3 DEF DropCache
<1> QED BY <1>1, <1>2, <1>3, CacheSteps

\* So does its document.
LEMMA DocEmpty ==
  ASSUME TInv, [Next]_vars, NEW p \in Paths \ Dests,
         \A th \in Threads : job[th].path = p => ~WillIndex(job[th])
  PROVE  /\ fts[p] = NoDoc => fts'[p] = NoDoc
         /\ \A th \in Threads : DropFts(th) /\ job[th].path = p => fts'[p] = NoDoc
<1>0. fts \in [Paths -> Doc]  BY DEF TInv, TypeOK
<1>1. ASSUME NEW th \in Threads, FtsAdd(th)  PROVE fts'[p] = fts[p]
  <2>1. job[th].path # p  BY <1>1 DEF FtsAdd, WillIndex
  <2> QED BY <1>0, <1>1, <2>1 DEF FtsAdd
<1>2. ASSUME NEW th \in Threads, MoveFts(th)  PROVE fts'[p] = NoDoc \/ fts'[p] = fts[p]
  <2>1. job[th].dst # p  BY <1>2, IndexArgs DEF MoveFts
  <2> QED BY <1>0, <1>2, <2>1 DEF MoveFts
<1>3. ASSUME NEW th \in Threads, DropFts(th)
      PROVE  (fts'[p] = NoDoc \/ fts'[p] = fts[p]) /\ (job[th].path = p => fts'[p] = NoDoc)
  BY <1>0, <1>3 DEF DropFts
<1> QED BY <1>1, <1>2, <1>3, CacheSteps

\* So do its links.
LEMMA LinksEmpty ==
  ASSUME TInv, [Next]_vars, NEW p \in Paths \ Dests,
         \A th \in Threads : job[th].path = p => ~WillIndex(job[th])
  PROVE  /\ graph.out[p] = {} => graph'.out[p] = {}
         /\ \A th \in Threads : DropGraph(th) /\ job[th].path = p => graph'.out[p] = {}
<1>0. graph \in Graphs  BY DEF TInv, TypeOK
<1>a. ASSUME NEW g \in Graphs  PROVE Remove(g, p).out[p] = {}
  BY DEF Remove, Graphs
<1>1. ASSUME NEW th \in Threads, GraphDiff(th)  PROVE graph'.out[p] = graph.out[p]
  <2>1. job[th].path # p /\ job[th].path \in Paths
    BY <1>1, IndexArgs DEF GraphDiff, WillIndex
  <2> QED BY <1>0, <1>1, <2>1, GraphFrame DEF GraphDiff
<1>2. ASSUME NEW th \in Threads, MoveGraph(th), graph.out[p] = {}  PROVE graph'.out[p] = {}
  <2> DEFINE q == job[th].path
             d == job[th].dst
             h == Remove(graph, q)
             links == LinksOf[job[th].seen.body]
  <2>1. q \in Paths /\ d \in Paths /\ d # p /\ links \in SUBSET OutLink
    BY <1>2, GraphArgs DEF MoveGraph
  <2>2. h \in Graphs  BY <1>0, <2>1, GraphTypes
  <2>3. h.out[p] = {}
    BY <1>0, <1>2, <1>a, <2>1, GraphFrame
  <2>4. graph' = Upsert(h, d, links)  BY <1>2 DEF MoveGraph
  <2> HIDE DEF h, d, links
  <2> QED BY <2>1, <2>2, <2>3, <2>4, GraphFrame
<1>3. ASSUME NEW th \in Threads, DropGraph(th)
      PROVE  /\ graph.out[p] = {} => graph'.out[p] = {}
             /\ job[th].path = p => graph'.out[p] = {}
  <2>1. graph' = Remove(graph, job[th].path) /\ job[th].path \in Paths
    BY <1>3, IndexArgs DEF DropGraph
  <2> QED BY <1>0, <1>a, <2>1, GraphFrame
<1> QED BY <1>1, <1>2, <1>3, GraphSteps

\* RemoveFile goes on.
LEMMA DropsNext ==
  ASSUME TInv, NEW p \in Paths, NEW th \in Threads, job[th].op = "unindex", job[th].path = p
  PROVE  /\ DropCache(th) => Removing(p, "dropGraph")'
         /\ DropGraph(th) => Removing(p, "dropFts")'
<1>0. job \in [Threads -> Job]  BY DEF TInv, TypeOK
<1>1. ASSUME NEW a, Goto(th, a)
      PROVE  job'[th].op = job[th].op /\ job'[th].path = job[th].path /\ job'[th].at = a
  BY <1>0, <1>1 DEF Goto, Job
<1>2. ASSUME NEW a, Goto(th, a)  PROVE Removing(p, a)'
  BY <1>1, <1>2 DEF Removing
<1> QED BY <1>2 DEF DropCache, DropGraph

\* What has been swept stays so while the note is gone.
LEMMA SweptStays ==
  ASSUME OInv, [Next]_vars, NEW p \in Paths \ Dests, ~Live(p), ~Live(p)', Swept(p)
  PROVE  Swept(p)'
<1>0. TInv  BY DEF OInv
<1>1. \A th \in Threads : job[th].path = p => ~WillIndex(job[th])  BY DEF Swept
<1>2. \A th \in Threads : job'[th].path = p => ~WillIndex(job'[th])
  BY <1>1, NoIndexing
<1>3. cache'[p] = 0  BY <1>0, <1>1, CacheEmpty DEF Swept
<1>4. CASE Removing(p, "dropGraph")
  <2>1. PICK th \in Threads : /\ job[th].op = "unindex" /\ job[th].at = "dropGraph"
                             /\ job[th].path = p
    BY <1>4 DEF Removing
  <2>2. CASE Removing(p, "dropGraph")'
    BY <1>2, <1>3, <2>2 DEF Swept
  <2>3. CASE DropGraph(th)
    <3>1. graph'.out[p] = {}  BY <1>0, <1>1, <2>1, <2>3, LinksEmpty
    <3>2. Removing(p, "dropFts")'  BY <1>0, <2>1, <2>3, DropsNext
    <3> QED BY <1>2, <1>3, <3>1, <3>2 DEF Swept
  <2> QED BY <1>0, <2>1, <2>2, <2>3, RemovalStays
<1>5. CASE graph.out[p] = {} /\ Removing(p, "dropFts")
  <2>1. PICK th \in Threads : /\ job[th].op = "unindex" /\ job[th].at = "dropFts"
                             /\ job[th].path = p
    BY <1>5 DEF Removing
  <2>2. graph'.out[p] = {}  BY <1>0, <1>1, <1>5, LinksEmpty
  <2>3. Removing(p, "dropFts")' \/ fts'[p] = NoDoc
    BY <1>0, <1>1, <2>1, RemovalStays, DocEmpty
  <2> QED BY <1>2, <1>3, <2>2, <2>3 DEF Swept
<1>6. CASE graph.out[p] = {} /\ fts[p] = NoDoc
  <2>1. graph'.out[p] = {} /\ fts'[p] = NoDoc  BY <1>0, <1>1, <1>6, LinksEmpty, DocEmpty
  <2> QED BY <1>2, <1>3, <2>1 DEF Swept
<1> QED BY <1>4, <1>5, <1>6 DEF Swept

\* RemoveFile begins its sweep while no operation of the note's actor is at work.
LEMMA SweepBegins ==
  ASSUME TInv, NEW p \in Paths, NEW th \in Threads, DropCache(th), job[th].op = "unindex",
         job[th].path = p, p \notin clobbered'
  PROVE  Swept(p)'
<1>0. job \in [Threads -> Job] /\ cache \in [Paths -> Nat] /\ JobsInv
  BY DEF TInv, TypeOK
<1>1. cache'[p] = 0  BY <1>0 DEF DropCache
<1>2. Removing(p, "dropGraph")'  BY DropsNext
<1>3. busy[p] = None  BY DEF DropCache, Clobber
<1>4. ASSUME NEW t \in Threads, job'[t].path = p, WillIndex(job'[t])  PROVE FALSE
  <2>1. CASE t = th  BY <1>0, <1>4, <2>1, Whereto DEF DropCache, WillIndex
  <2>2. CASE t # th
    <3>1. job'[t] = job[t]  BY <1>0, <2>2 DEF DropCache, Goto
    <3>2. InActor(job[t])  BY <1>4, <3>1, IndexArgs
    <3>3. busy[p] = t  BY <1>0, <1>4, <3>1, <3>2 DEF JobsInv
    <3> QED BY <1>3, <3>3, NoneAssumption
  <2> QED BY <2>1, <2>2
<1> QED BY <1>1, <1>2, <1>4 DEF Swept

\* A note that is gone stays on its way out.
LEMMA NextGhost ==
  ASSUME OInv, [Next]_vars, NEW p \in Paths, GhostInv(p)
  PROVE  GhostInv(p)'
<1> SUFFICES ASSUME mode' = "watch", p \notin Dests \cup missed' \cup clobbered', ~Live(p)'
             PROVE  GoneComing(p)' \/ p \in pending' \/ Removing(p, "dropCache")' \/ Swept(p)'
  BY DEF GhostInv
<1>0. TInv  BY DEF OInv
<1>1. mode = "watch" /\ p \notin missed  BY MissedFrame
<1>2. p \notin clobbered  BY <1>0, ClobberFrame
<1>3. CASE Live(p)
  <2>1. EditorStep \/ \E th \in Threads : DiskStep(th)
    BY <1>3, EventFrame DEF Live
  <2> QED BY <1>1, <1>3, <2>1, RemovalReported
<1>4. CASE ~Live(p)
  <2>1. CASE GoneComing(p)
    <3>1. CASE UNCHANGED events  BY <2>1, <3>1 DEF GoneComing
    <3>2. CASE HandleEvent \/ LoseEvent  BY <1>0, <1>1, <2>1, <3>2, RemovalDelivered
    <3>3. CASE EditorStep \/ \E th \in Threads : DiskStep(th)
      BY <1>1, <2>1, <3>3, RemovalReported
    <3> QED BY <3>1, <3>2, <3>3, EventFrame
  <2>2. CASE p \in pending  BY <1>0, <2>2, RemovalWaits
  <2>3. CASE Removing(p, "dropCache")
    <3>1. PICK th \in Threads : /\ job[th].op = "unindex" /\ job[th].at = "dropCache"
                               /\ job[th].path = p
      BY <2>3 DEF Removing
    <3> QED BY <1>0, <3>1, RemovalStays, SweepBegins
  <2>4. CASE Swept(p)  BY <1>4, <2>4, SweptStays
  <2> QED BY <1>1, <1>2, <1>4, <2>1, <2>2, <2>3, <2>4 DEF GhostInv
<1> QED BY <1>3, <1>4

\* New lists only notes that are there.
LEMMA InitGhost == Init => TimerInv /\ \A p \in Paths : GhostInv(p)
<1> SUFFICES ASSUME Init, NEW p \in Paths, ~Live(p)  PROVE TimerInv /\ Swept(p)
  BY DEF GhostInv, TimerInv, Init
<1>1. TimerInv  BY DEF TimerInv, Init
<1>2. \A th \in Threads : ~WillIndex(job[th])
  BY DEF Init, VaultInit, WillIndex, NoJob
<1>3. PICK q \in ApiPaths \ Dests, b \in Bodies, present \in BOOLEAN :
        /\ fs = [r \in Paths |-> IF present /\ r = q
                THEN [ver |-> 2, body |-> b, id |-> TRUE, by |-> "vault"] ELSE Absent("vault")]
        /\ cache = [r \in Paths |-> IF present /\ r = q THEN 2 ELSE 0]
        /\ fts = [r \in Paths |-> IF present /\ r = q
                 THEN DocOf([ver |-> 2, body |-> b, id |-> TRUE, by |-> "vault"]) ELSE NoDoc]
        /\ graph = IF present THEN Upsert(NewBacklinkGraph, q, LinksOf[b])
                             ELSE NewBacklinkGraph
  BY DEF Init, VaultInit
<1>4. ~(present /\ p = q)  BY <1>3 DEF Live
<1>5. NewBacklinkGraph \in Graphs /\ NewBacklinkGraph.out[p] = {}
  BY DEF NewBacklinkGraph, Graphs
<1>6. q \in Paths  BY PathAssumption
<1>7. graph.out[p] = {}
  <2>1. CASE present  BY <1>3, <1>4, <1>5, <1>6, <2>1, GraphFrame
  <2>2. CASE ~present  BY <1>3, <1>5, <2>2
  <2> QED BY <2>1, <2>2
<1> QED BY <1>1, <1>2, <1>3, <1>4, <1>7 DEF Swept

\* A watched vault at rest lists no note that is gone, with any number of notes,
\* callers and editor's changes, whatever rename was paired with whatever removal,
\* unless the event was lost or RemoveFile overlapped an operation of the actor.
THEOREM NoGhostNotes == Spec => []NoGhost
<1>1. Init => NInv  BY InitTypes, InitHold, InitGhost DEF NInv, OInv
<1>2. NInv /\ [Next]_vars => NInv'
  BY NextTypes, NextVer, NextSeen, NextHold, NextTimers, NextGhost DEF NInv, OInv
<1>3. NInv => NoGhost
  <2> SUFFICES ASSUME NInv, AtRest, mode = "watch",
                      NEW p \in Paths \ (Dests \cup missed \cup clobbered), ~Live(p)
               PROVE  cache[p] = 0 /\ fts[p] = NoDoc /\ graph.out[p] = {}
    BY DEF NoGhost
  <2>1. ~GoneComing(p)  BY DEF AtRest, GoneComing
  <2>2. p \notin pending  BY DEF AtRest, NInv, TimerInv
  <2>3. \A at \in {"dropCache", "dropGraph", "dropFts"} : ~Removing(p, at)
    BY DEF AtRest, Removing, NoJob
  <2>4. Swept(p)  BY <2>1, <2>2, <2>3 DEF NInv, GhostInv
  <2> QED BY <2>3, <2>4 DEF Swept
<1> QED BY <1>1, <1>2, <1>3, PTL DEF Spec
=============================================================================
