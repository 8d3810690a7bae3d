------------------------ MODULE FederatedWritesProofs -----------------------
(***************************************************************************)
(* Proofs about the writes of the federation, for any number of callers,   *)
(* scopes, paths, keys, calls and crashes: an answered Delete is not       *)
(* forgotten in a crash, and Promote archives nothing it has not copied; a *)
(* call with a known key replays an answer given for that key; a deleted   *)
(* note is not listed any more; no two notes have one NoteID.              *)
(***************************************************************************)
EXTENDS FederatedWrites, TLAPS

-----------------------------------------------------------------------------
(* Types                                                                   *)

Notes == Note \cup {Nil}
Vaults == [Scopes -> [Place -> Notes]]
Jobs == PromoteJob \cup DeleteJob \cup QueryJob \cup {Nil}
PromoteAt == {"get", "mint", "create", "replace", "archive", "store"} \cup Finished
DeleteAt == {"delete", "add", "open", "write"} \cup Finished
QueryAt == {"fetch", "merge"} \cup Finished

\* A path has a place in either shelf, and the two are different.
LEMMA Places ==
  ASSUME NEW p \in Paths
  PROVE  Live(p) \in Place /\ ArchivePath(p) \in Place /\ \A x \in Paths : Live(p) # ArchivePath(x)
BY DEF Live, ArchivePath, Place, Shelf

\* One write to one vault: its type, and what it leaves alone.
LEMMA PutFacts ==
  ASSUME vault \in Vaults, NEW s \in Scopes, NEW p \in Paths, NEW n \in Notes, Put(s, Live(p), n)
  PROVE  /\ vault' \in Vaults
         /\ \A t \in Scopes, x \in Paths : vault'[t][ArchivePath(x)] = vault[t][ArchivePath(x)]
<1>1. Live(p) \in Place /\ \A x \in Paths : ArchivePath(x) \in Place /\ ArchivePath(x) # Live(p)
  BY Places
<1>2. vault' = [vault EXCEPT ![s] = [vault[s] EXCEPT ![Live(p)] = n]]  BY DEF Put
<1>3. [vault[s] EXCEPT ![Live(p)] = n] \in [Place -> Notes]  BY <1>1 DEF Vaults
<1>4. vault' \in Vaults  BY <1>2, <1>3 DEF Vaults
<1> QED BY <1>1, <1>2, <1>4 DEF Vaults

\* What the steps of Promote write into the record of their call.
LEMMA PromoteJobType ==
  ASSUME NEW j \in PromoteJob, NEW at \in PromoteAt, NEW n \in Notes, NEW i \in 0..MaxMint, NEW r \in Result
  PROVE  /\ [j EXCEPT !.at = at] \in PromoteJob
         /\ [j EXCEPT !.at = at, !.src = n] \in PromoteJob
         /\ [j EXCEPT !.at = at, !.res = r] \in PromoteJob
         /\ [j EXCEPT !.at = at, !.id = i] \in PromoteJob
BY DEF PromoteJob, PromoteAt, Notes

\* The same for Delete and for a query.
LEMMA OtherJobType ==
  /\ \A j \in DeleteJob, at \in DeleteAt : [j EXCEPT !.at = at] \in DeleteJob
  /\ \A j \in QueryJob, at \in QueryAt, rows \in SUBSET Paths, b \in BOOLEAN, h \in SUBSET Ref :
       /\ [j EXCEPT !.at = at, !.rows = rows, !.fresh = b] \in QueryJob
       /\ [j EXCEPT !.at = at, !.rows = rows] \in QueryJob
       /\ [j EXCEPT !.at = at, !.rows = rows, !.hidden = h] \in QueryJob
BY DEF DeleteJob, DeleteAt, QueryJob, QueryAt

\* The operation of a call tells the type of its record.
LEMMA HasJob ==
  ASSUME job \in [Clients -> Jobs], NEW c \in Clients, NEW at, NEW op, At(c, op, at)
  PROVE  /\ op = "promote" => job[c] \in PromoteJob
         /\ op = "delete" => job[c] \in DeleteJob
         /\ op = "query" => job[c] \in QueryJob
         /\ job[c].at = at /\ job[c].op = op /\ up
BY DEF Jobs, At, PromoteJob, DeleteJob, QueryJob

-----------------------------------------------------------------------------
(* The inductive invariant                                                 *)

\* What a Promote carries from one call of a vault to the next.
CopyInv ==
  \A c \in Clients : job[c] # Nil /\ job[c].op = "promote" =>
    /\ job[c].at \in {"mint", "create", "replace", "archive"} => job[c].src \in Note
    /\ job[c].at = "archive" => job[c].src.text \in copied
    /\ job[c].at \in {"archive", "store"} => job[c].res \in Result

\* A Delete that writes the tombstone file has put its tombstone in memory before.
FlushInv ==
  \A c \in Clients : job[c] # Nil /\ job[c].op = "delete" /\ job[c].at \in {"open", "write"} =>
    job[c].ref \in tomb

\* A file that can be read has the tombstones of all answered Deletes.
FileInv == ~broken /\ file # Torn => gone \subseteq file

IInv == TypeOK /\ CopyInv /\ FlushInv /\ FileInv /\ ArchivedWasCopied /\ AckedDeletesKept

\* One client's call goes on: the types of the jobs and what the other clients' calls
\* depend on.
LEMMA JobFrame ==
  ASSUME IInv, NEW c \in Clients, NEW k \in Jobs, job' = [job EXCEPT ![c] = k],
         copied \subseteq copied', tomb \subseteq tomb',
         k # Nil /\ k.op = "promote" =>
           /\ k.at \in {"mint", "create", "replace", "archive"} => k.src \in Note
           /\ k.at = "archive" => k.src.text \in copied'
           /\ k.at \in {"archive", "store"} => k.res \in Result,
         k # Nil /\ k.op = "delete" /\ k.at \in {"open", "write"} => k.ref \in tomb'
  PROVE  job' \in [Clients -> Jobs] /\ CopyInv' /\ FlushInv'
<1>1. job \in [Clients -> Jobs]  BY DEF IInv, TypeOK, Jobs
<1>2. job' \in [Clients -> Jobs] /\ job'[c] = k /\ \A d \in Clients \ {c} : job'[d] = job[d]
  BY <1>1
<1>3. CopyInv'  BY <1>2 DEF CopyInv, IInv
<1>4. FlushInv'  BY <1>2 DEF FlushInv, IInv
<1> QED BY <1>2, <1>3, <1>4

\* A step that forgets no tombstone, answers no Delete and leaves the file alone.
LEMMA GoneFrame ==
  ASSUME IInv, UNCHANGED <<file, broken, up>>, gone' \subseteq gone, tomb \subseteq tomb'
  PROVE  FileInv' /\ AckedDeletesKept'
BY DEF IInv, FileInv, AckedDeletesKept

\* A step that leaves the archives alone.
LEMMA ArchiveFrame ==
  ASSUME IInv, copied \subseteq copied',
         \A s \in Scopes, p \in Paths : vault'[s][ArchivePath(p)] = vault[s][ArchivePath(p)]
  PROVE  ArchivedWasCopied'
BY DEF IInv, ArchivedWasCopied, Has

\* The vaults are typed.
LEMMA VaultType ==
  ASSUME TypeOK
  PROVE  /\ vault \in Vaults
         /\ \A s \in Scopes, p \in Paths : vault[s][Live(p)] \in Notes /\ vault[s][ArchivePath(p)] \in Notes
<1>1. vault \in Vaults  BY DEF TypeOK, Vaults, Notes
<1>2. \A s \in Scopes, pl \in Place : vault[s][pl] \in Notes  BY <1>1 DEF Vaults
<1> QED BY <1>1, <1>2, Places

\* A new content gets a number of its own.
LEMMA Minted ==
  ASSUME TypeOK, MintOne
  PROVE  minted' \in 0..MaxMint /\ minted + 1 \in 1..MaxMint /\ minted + 1 \in 0..MaxMint
BY WritesAssumption DEF TypeOK, MintOne

\* A call is counted.
LEMMA Counted ==
  ASSUME TypeOK, calls < MaxCalls, calls' = calls + 1
  PROVE  calls' \in 0..MaxCalls
BY WritesAssumption DEF TypeOK

-----------------------------------------------------------------------------
(* Create and UpdateBody                                                   *)

\* Notes are created and changed.
LEMMA EditInv ==
  ASSUME IInv, NEW p \in Paths, NEW s \in Scopes,
         (\E id \in 0..MaxMint : Create(p, id)) \/ UpdateBody(s, p)
  PROVE  IInv'
<1>0. TypeOK /\ vault \in Vaults /\ Local \in Scopes  BY VaultType, WritesAssumption DEF IInv
<1>1. ASSUME NEW id \in 0..MaxMint, Create(p, id)  PROVE IInv'
  <2>1. MintOne /\ calls < MaxCalls /\ calls' = calls + 1  BY <1>1 DEF Create
  <2>2. minted' \in 0..MaxMint /\ minted + 1 \in 1..MaxMint /\ calls' \in 0..MaxCalls
    BY <1>0, <2>1, Minted, Counted
  <2> DEFINE n == [id |-> id, text |-> minted + 1]
  <2>3. n \in Notes  BY <2>2 DEF Notes, Note
  <2>4. Put(Local, Live(p), n) /\ gone' = gone \ {<<Local, p>>}  BY <1>1 DEF Create
  <2> HIDE DEF n
  <2>5. vault' \in Vaults /\ \A t \in Scopes, x \in Paths : vault'[t][ArchivePath(x)] = vault[t][ArchivePath(x)]
    BY <1>0, <2>3, <2>4, PutFacts
  <2>6. UNCHANGED <<snapshot, bodies, idem, tomb, file, flushing, up, job, crashes, acked, copied, aliased, broken>>
    BY <1>1 DEF Create
  <2>7. TypeOK'  BY <1>0, <2>2, <2>4, <2>5, <2>6 DEF TypeOK, Vaults, Notes
  <2>8. CopyInv' /\ FlushInv'  BY <2>6 DEF IInv, CopyInv, FlushInv
  <2> QED BY <2>4, <2>5, <2>6, <2>7, <2>8, GoneFrame, ArchiveFrame DEF IInv
<1>2. CASE UpdateBody(s, p)
  <2>1. MintOne /\ calls < MaxCalls /\ calls' = calls + 1 /\ Has(s, Live(p))  BY <1>2 DEF UpdateBody
  <2>2. minted' \in 0..MaxMint /\ minted + 1 \in 1..MaxMint /\ calls' \in 0..MaxCalls
    BY <1>0, <2>1, Minted, Counted
  <2> DEFINE n == [vault[s][Live(p)] EXCEPT !.text = minted + 1]
  <2>3. vault[s][Live(p)] \in Note  BY <1>0, <2>1, VaultType DEF Has, Notes
  <2>4. n \in Notes  BY <2>2, <2>3 DEF Notes, Note
  <2>5. Put(s, Live(p), n)  BY <1>2 DEF UpdateBody
  <2> HIDE DEF n
  <2>6. vault' \in Vaults /\ \A t \in Scopes, x \in Paths : vault'[t][ArchivePath(x)] = vault[t][ArchivePath(x)]
    BY <1>0, <2>4, <2>5, PutFacts
  <2>7. UNCHANGED <<snapshot, bodies, idem, tomb, file, flushing, up, job, crashes, acked, gone, copied, aliased, broken>>
    BY <1>2 DEF UpdateBody, ghosts
  <2>8. TypeOK'  BY <1>0, <2>2, <2>6, <2>7 DEF TypeOK, Vaults, Notes
  <2>9. CopyInv' /\ FlushInv'  BY <2>7 DEF IInv, CopyInv, FlushInv
  <2> QED BY <2>6, <2>7, <2>8, <2>9, GoneFrame, ArchiveFrame DEF IInv
<1> QED BY <1>1, <1>2

-----------------------------------------------------------------------------
(* Calls and their ends                                                    *)

\* A step of one call that leaves the stores and the ghosts alone.
LEMMA QuietFrame ==
  ASSUME IInv, NEW c \in Clients, NEW k \in Jobs, job' = [job EXCEPT ![c] = k],
         UNCHANGED <<vault, snapshot, bodies, idem, tomb, file, flushing, up, crashes, acked, gone, copied, aliased, broken>>,
         minted' \in 0..MaxMint, calls' \in 0..MaxCalls,
         k # Nil /\ k.op = "promote" =>
           /\ k.at \in {"mint", "create", "replace", "archive"} => k.src \in Note
           /\ k.at = "archive" => k.src.text \in copied
           /\ k.at \in {"archive", "store"} => k.res \in Result,
         k # Nil /\ k.op = "delete" /\ k.at \in {"open", "write"} => k.ref \in tomb
  PROVE  IInv'
<1>1. job' \in [Clients -> Jobs] /\ CopyInv' /\ FlushInv'  BY JobFrame
<1>2. FileInv' /\ AckedDeletesKept'  BY GoneFrame
<1>3. ArchivedWasCopied'  BY ArchiveFrame
<1>4. TypeOK'  BY <1>1 DEF IInv, TypeOK, Jobs
<1> QED BY <1>1, <1>2, <1>3, <1>4 DEF IInv

\* A client makes a call.
LEMMA CallInv ==
  ASSUME IInv, NEW c \in Clients,
         \/ \E in \in Promotions : PromoteCall(c, in)
         \/ \E s \in Scopes, p \in Paths : DeleteCall(c, s, p)
         \/ \E s \in Scopes : QueryCall(c, s)
  PROVE  IInv'
<1>1. ASSUME NEW in \in Promotions, PromoteCall(c, in)  PROVE IInv'
  <2> DEFINE hit == in.key \in DOMAIN idem
             k == [op |-> "promote", at |-> IF hit THEN "answered" ELSE "get",
                   in |-> in, src |-> Nil, id |-> 0,
                   res |-> IF hit THEN idem[in.key] ELSE Nil,
                   expect |-> IF in.key = NoKey THEN {} ELSE acked[in.key]]
  <2>1. Begin(c, k) /\ UNCHANGED <<stores, up, minted, crashes, ghosts>>  BY <1>1 DEF PromoteCall
  <2>2. in \in PromoteInput  BY WritesAssumption
  <2>3. in.key \in Keys \cup {NoKey}  BY <2>2 DEF PromoteInput
  <2>4. (IF in.key = NoKey THEN {} ELSE acked[in.key]) \subseteq Result
    <3>1. CASE in.key = NoKey  BY <3>1
    <3>2. CASE in.key # NoKey
      <4>1. in.key \in Keys  BY <2>3, <3>2
      <4>2. acked[in.key] \in SUBSET Result  BY <4>1 DEF IInv, TypeOK
      <4> QED BY <3>2, <4>2
    <3> QED BY <3>1, <3>2
  <2>5. (IF hit THEN idem[in.key] ELSE Nil) \in Result \cup {Nil}  BY DEF IInv, TypeOK
  <2>6. 0 \in 0..MaxMint  BY WritesAssumption
  <2>7. k \in PromoteJob  BY <2>2, <2>4, <2>5, <2>6 DEF PromoteJob, Finished
  <2>8. k.op = "promote" /\ k.at \in {"answered", "get"}  OBVIOUS
  <2> HIDE DEF k
  <2>9. job' = [job EXCEPT ![c] = k] /\ calls' \in 0..MaxCalls  BY <2>1, Counted DEF Begin, IInv
  <2> QED BY <2>1, <2>7, <2>8, <2>9, QuietFrame DEF stores, ghosts, Jobs, IInv, TypeOK
<1>2. ASSUME NEW s \in Scopes, NEW p \in Paths, DeleteCall(c, s, p)  PROVE IInv'
  <2> DEFINE k == [op |-> "delete", at |-> "delete", ref |-> <<s, p>>]
  <2>1. Begin(c, k) /\ UNCHANGED <<stores, up, minted, crashes, ghosts>>  BY <1>2 DEF DeleteCall
  <2>2. k \in DeleteJob  BY DEF DeleteJob, Ref
  <2>3. k.op = "delete" /\ k.at = "delete"  OBVIOUS
  <2> HIDE DEF k
  <2>4. job' = [job EXCEPT ![c] = k] /\ calls' \in 0..MaxCalls  BY <2>1, Counted DEF Begin, IInv
  <2> QED BY <2>1, <2>2, <2>3, <2>4, QuietFrame DEF stores, ghosts, Jobs, IInv, TypeOK
<1>3. ASSUME NEW s \in Scopes, QueryCall(c, s)  PROVE IInv'
  <2> DEFINE k == [op |-> "query", at |-> "fetch", scope |-> s, rows |-> {}, fresh |-> FALSE, hidden |-> gone]
  <2>1. Begin(c, k) /\ UNCHANGED <<stores, up, minted, crashes, ghosts>>  BY <1>3 DEF QueryCall
  <2>2. k \in QueryJob  BY DEF QueryJob, IInv, TypeOK
  <2>3. k.op = "query"  OBVIOUS
  <2> HIDE DEF k
  <2>4. job' = [job EXCEPT ![c] = k] /\ calls' \in 0..MaxCalls  BY <2>1, Counted DEF Begin, IInv
  <2> QED BY <2>1, <2>2, <2>3, <2>4, QuietFrame DEF stores, ghosts, Jobs, IInv, TypeOK
<1> QED BY <1>1, <1>2, <1>3

\* A client has its answer.
LEMMA DoneInv ==
  ASSUME IInv, NEW c \in Clients, Done(c)
  PROVE  IInv'
<1>1. job' = [job EXCEPT ![c] = Nil] /\ UNCHANGED <<stores, up, minted, calls, crashes, ghosts>>
  BY DEF Done, Return
<1> QED BY <1>1, QuietFrame DEF stores, ghosts, Jobs, IInv, TypeOK

-----------------------------------------------------------------------------
(* Promote                                                                 *)

\* A note that Get answers is a note.
LEMMA ReadType ==
  ASSUME TypeOK, NEW s \in Scopes, NEW p \in Paths
  PROVE  Read(s, p) \in Notes
<1>1. vault[s][Live(p)] \in Notes  BY VaultType
<1>2. s \in Remote => bodies[s][p] \in Notes  BY DEF TypeOK, Notes
<1> QED BY <1>1, <1>2 DEF Read

\* The source is read, or the call fails.
LEMMA GetInv ==
  ASSUME IInv, NEW c \in Clients, NEW match \in BOOLEAN, PromoteGet(c, match)
  PROVE  IInv'
<1>1. At(c, "promote", "get") /\ UNCHANGED <<stores, up, minted, calls, crashes, ghosts>>
  BY DEF PromoteGet
<1>2. job \in [Clients -> Jobs]  BY DEF IInv, TypeOK, Jobs
<1>3. job[c] \in PromoteJob  BY <1>1, <1>2, HasJob
<1> DEFINE src == Read(job[c].in.from, job[c].in.path)
           k1 == [job[c] EXCEPT !.at = "failed"]
           k2 == [job[c] EXCEPT !.at = "mint", !.src = src]
<1>4. job[c].in \in PromoteInput  BY <1>3 DEF PromoteJob
<1>5. job[c].in.from \in Scopes /\ job[c].in.path \in Paths  BY <1>4 DEF PromoteInput
<1>6. src \in Notes  BY <1>5, ReadType DEF IInv
<1>7. \/ job' = [job EXCEPT ![c] = k1]
      \/ src # Nil /\ job' = [job EXCEPT ![c] = k2]
  BY DEF PromoteGet, PromoteFail, Goto
<1>8. k1 \in PromoteJob /\ k1.at = "failed" /\ k1.op = "promote"
  BY <1>3 DEF PromoteJob, Finished
<1>9. src # Nil => k2 \in PromoteJob /\ k2.at = "mint" /\ k2.src \in Note /\ k2.op = "promote"
  BY <1>3, <1>6 DEF PromoteJob, Notes
<1> HIDE DEF k1, k2, src
<1> QED BY <1>1, <1>7, <1>8, <1>9, QuietFrame DEF stores, ghosts, Jobs, IInv, TypeOK

\* A new NoteID: the call goes on to its Create, and the calls that share the source
\* with it change nothing but the id that they will write.
LEMMA MintJobs ==
  ASSUME TypeOK, NEW c \in Clients, PromoteMint(c)
  PROVE  /\ job[c] \in PromoteJob /\ job[c].at = "mint" /\ job[c].op = "promote" /\ job[c] # Nil
         /\ minted' = minted + 1 /\ minted + 1 \in 1..MaxMint /\ minted' \in 0..MaxMint
         /\ job' \in [Clients -> Jobs] /\ aliased \subseteq aliased' /\ aliased' \subseteq aliased \cup {minted + 1}
         /\ job'[c].at = "create" /\ job'[c].id = minted + 1
         /\ \A d \in Clients :
              \/ d # c /\ job'[d] = job[d]
              \/ /\ job[d] \in PromoteJob /\ job[d] # Nil /\ job[d].op = "promote"
                 /\ job'[d] \in PromoteJob /\ job'[d].op = "promote" /\ job'[d].id = minted + 1
                 /\ d # c => job'[d].at = job[d].at /\ minted + 1 \in aliased'
                 /\ job'[d].in = job[d].in /\ job'[d].src = job[d].src
                 /\ job'[d].res = job[d].res /\ job'[d].expect = job[d].expect
<1>1. At(c, "promote", "mint") /\ MintOne  BY DEF PromoteMint
<1>2. job \in [Clients -> Jobs]  BY DEF TypeOK, Jobs
<1>3. job[c] \in PromoteJob /\ job[c].at = "mint" /\ job[c].op = "promote" /\ job[c] # Nil
  BY <1>1, <1>2, HasJob DEF At
<1>4. minted' = minted + 1 /\ minted + 1 \in 1..MaxMint /\ minted' \in 0..MaxMint /\ minted + 1 \in 0..MaxMint
  BY <1>1, Minted DEF MintOne
<1> DEFINE K(d) == [job[d] EXCEPT !.id = minted + 1]
           Kc == [job[c] EXCEPT !.at = "create", !.id = minted + 1]
<1>5. PICK others \in SUBSET {d \in Clients \ {c} : SharesSource(c, d)} :
        /\ job' = [d \in Clients |-> IF d = c THEN Kc ELSE IF d \in others THEN K(d) ELSE job[d]]
        /\ aliased' = IF others = {} THEN aliased ELSE aliased \cup {minted + 1}
  BY DEF PromoteMint
<1>6. \A d \in others : d # c /\ d \in Clients /\ job[d] \in PromoteJob /\ job[d] # Nil /\ job[d].op = "promote"
  BY <1>2 DEF SharesSource, Jobs, DeleteJob, QueryJob
<1>7. /\ Kc \in PromoteJob /\ Kc.at = "create" /\ Kc.id = minted + 1 /\ Kc.op = "promote"
      /\ Kc.in = job[c].in /\ Kc.src = job[c].src /\ Kc.res = job[c].res /\ Kc.expect = job[c].expect
  BY <1>3, <1>4 DEF PromoteJob
<1>8. \A d \in others :
        /\ K(d) \in PromoteJob /\ K(d).at = job[d].at /\ K(d).id = minted + 1 /\ K(d).op = "promote"
        /\ K(d).in = job[d].in /\ K(d).src = job[d].src /\ K(d).res = job[d].res /\ K(d).expect = job[d].expect
  BY <1>4, <1>6 DEF PromoteJob
<1> HIDE DEF K, Kc
<1>9. job' \in [Clients -> Jobs]
  <2>1. \A d \in Clients : (IF d = c THEN Kc ELSE IF d \in others THEN K(d) ELSE job[d]) \in Jobs
    BY <1>2, <1>7, <1>8 DEF Jobs
  <2> QED BY <1>5, <2>1
<1>10. job'[c] = Kc /\ \A d \in Clients \ {c} : job'[d] = IF d \in others THEN K(d) ELSE job[d]
  BY <1>5
<1>11. \A d \in others : minted + 1 \in aliased'  BY <1>5
<1>12. ASSUME NEW d \in Clients
       PROVE  \/ d # c /\ job'[d] = job[d]
              \/ /\ job[d] \in PromoteJob /\ job[d] # Nil /\ job[d].op = "promote"
                 /\ job'[d] \in PromoteJob /\ job'[d].op = "promote" /\ job'[d].id = minted + 1
                 /\ d # c => job'[d].at = job[d].at /\ minted + 1 \in aliased'
                 /\ job'[d].in = job[d].in /\ job'[d].src = job[d].src
                 /\ job'[d].res = job[d].res /\ job'[d].expect = job[d].expect
  <2>1. CASE d = c  BY <1>3, <1>7, <1>10, <2>1
  <2>2. CASE d \in others  BY <1>6, <1>8, <1>10, <1>11, <2>2
  <2>3. CASE d # c /\ d \notin others  BY <1>10, <2>3
  <2> QED BY <2>1, <2>2, <2>3
<1>13. aliased \subseteq aliased' /\ aliased' \subseteq aliased \cup {minted + 1}  BY <1>5
<1> QED BY <1>3, <1>4, <1>7, <1>9, <1>10, <1>12, <1>13

\* The NoteID is minted, and the note that was read enters the body cache.
LEMMA MintInv ==
  ASSUME IInv, NEW c \in Clients, PromoteMint(c)
  PROVE  IInv'
<1>1. UNCHANGED <<vault, snapshot, idem, tomb, file, flushing, up, calls, crashes, acked, gone, copied, broken>>
  BY DEF PromoteMint
<1>2. TypeOK /\ job[c] \in PromoteJob /\ job[c].src \in Note
  BY MintJobs DEF IInv, CopyInv
<1>3. bodies' \in [Remote -> [Paths -> Note \cup {Nil}]]
  <2> DEFINE in == job[c].in
  <2>1. bodies' = [s \in Remote |-> IF s = in.from THEN [bodies[s] EXCEPT ![in.path] = job[c].src]
                                                   ELSE bodies[s]]
    BY DEF PromoteMint
  <2> HIDE DEF in
  <2>2. \A s \in Remote : bodies[s] \in [Paths -> Note \cup {Nil}]  BY <1>2 DEF TypeOK
  <2>3. \A s \in Remote : [bodies[s] EXCEPT ![in.path] = job[c].src] \in [Paths -> Note \cup {Nil}]
    BY <1>2, <2>2
  <2> QED BY <2>1, <2>2, <2>3
<1>4. CopyInv'
  <2> SUFFICES ASSUME NEW d \in Clients, job'[d] # Nil, job'[d].op = "promote"
               PROVE  /\ job'[d].at \in {"mint", "create", "replace", "archive"} => job'[d].src \in Note
                      /\ job'[d].at = "archive" => job'[d].src.text \in copied'
                      /\ job'[d].at \in {"archive", "store"} => job'[d].res \in Result
    BY DEF CopyInv
  <2>1. CASE job'[d] = job[d]  BY <1>1, <2>1 DEF IInv, CopyInv
  <2>2. CASE d = c  BY <1>2, <2>2, MintJobs
  <2>3. CASE d # c /\ job'[d] # job[d]
    <3>1. /\ job[d] # Nil /\ job[d].op = "promote" /\ job'[d].at = job[d].at
          /\ job'[d].src = job[d].src /\ job'[d].res = job[d].res
      BY <1>2, <2>3, MintJobs
    <3> QED BY <1>1, <3>1 DEF IInv, CopyInv
  <2> QED BY <2>1, <2>2, <2>3
<1>5. FlushInv'
  <2> SUFFICES ASSUME NEW d \in Clients, job'[d] # Nil, job'[d].op = "delete", job'[d].at \in {"open", "write"}
               PROVE  job'[d].ref \in tomb'
    BY DEF FlushInv
  <2>1. job'[d] = job[d]  BY <1>2, MintJobs
  <2> QED BY <1>1, <2>1 DEF IInv, FlushInv
<1>6. TypeOK'  BY <1>1, <1>2, <1>3, MintJobs DEF TypeOK, Jobs
<1> QED BY <1>1, <1>4, <1>5, <1>6, GoneFrame, ArchiveFrame DEF IInv

\* The copy is created at the destination, or a conflict is met.
LEMMA CreateInv ==
  ASSUME IInv, NEW c \in Clients, PromoteCreate(c)
  PROVE  IInv'
<1>1. At(c, "promote", "create")
      /\ UNCHANGED <<snapshot, bodies, idem, tomb, file, flushing, up, calls, crashes, acked, aliased, broken>>
  BY DEF PromoteCreate
<1>2. job \in [Clients -> Jobs] /\ TypeOK  BY DEF IInv, TypeOK, Jobs
<1>3. job[c] \in PromoteJob /\ job[c].at = "create" /\ job[c].op = "promote" /\ job[c] # Nil
  BY <1>1, <1>2, HasJob DEF At
<1>4. job[c].src \in Note  BY <1>3 DEF IInv, CopyInv
<1> DEFINE in == job[c].in
           id == IF in.to \in Remote THEN minted + 1 ELSE job[c].id
<1>5. minted' \in 0..MaxMint /\ id \in 0..MaxMint
  <2>1. CASE in.to \in Remote
    <3>1. MintOne  BY <2>1 DEF PromoteCreate
    <3> QED BY <1>2, <2>1, <3>1, Minted
  <2>2. CASE in.to \notin Remote
    <3>1. minted' = minted  BY <2>2 DEF PromoteCreate
    <3>2. job[c].id \in 0..MaxMint  BY <1>3 DEF PromoteJob
    <3> QED BY <1>2, <2>2, <3>1, <3>2 DEF TypeOK
  <2> QED BY <2>1, <2>2
<1> DEFINE n == Copy(job[c].src, id)
           res == [ref |-> <<in.to, in.path>>, etag |-> n.text]
           k1 == [job[c] EXCEPT !.at = "archive", !.res = res]
           k2 == [job[c] EXCEPT !.at = "replace"]
           k3 == [job[c] EXCEPT !.at = "failed"]
<1>6. in \in PromoteInput  BY <1>3 DEF PromoteJob
<1>7. in.to \in Scopes /\ in.path \in Paths  BY <1>6 DEF PromoteInput
<1> HIDE DEF id
<1>8. n \in Note /\ n.text = job[c].src.text  BY <1>4, <1>5 DEF Copy, Note
<1>9. res \in Result  BY <1>7, <1>8 DEF Result, Ref, Note
<1>10. \/ /\ Put(in.to, Live(in.path), n) /\ job' = [job EXCEPT ![c] = k1]
          /\ copied' = copied \cup {n.text} /\ gone' = gone \ {<<in.to, in.path>>}
       \/ (job' = [job EXCEPT ![c] = k2] \/ job' = [job EXCEPT ![c] = k3]) /\ UNCHANGED <<vault, copied, gone>>
  BY DEF PromoteCreate, PromoteFail, Goto, id
<1>11. k1 \in PromoteJob /\ k1.src = job[c].src /\ k1.res = res
  <2> HIDE DEF res
  <2> QED BY <1>3, <1>9 DEF PromoteJob
<1>12. k2 \in PromoteJob /\ k2.at = "replace" /\ k2.src = job[c].src
  BY <1>3 DEF PromoteJob
<1>13. k3 \in PromoteJob /\ k3.at = "failed"  BY <1>3 DEF PromoteJob, Finished
<1>14. n.text \in 1..MaxMint  BY <1>8 DEF Note
<1> HIDE DEF k1, k2, k3, n, res
<1>15. CASE /\ Put(in.to, Live(in.path), n) /\ job' = [job EXCEPT ![c] = k1]
            /\ copied' = copied \cup {n.text} /\ gone' = gone \ {<<in.to, in.path>>}
  <2>1. vault' \in Vaults /\ \A t \in Scopes, x \in Paths : vault'[t][ArchivePath(x)] = vault[t][ArchivePath(x)]
    BY <1>2, <1>7, <1>8, <1>15, PutFacts, VaultType DEF Notes
  <2>2. k1 \in Jobs /\ k1.op # "delete"  BY <1>11 DEF Jobs, PromoteJob
  <2>3. job' \in [Clients -> Jobs] /\ CopyInv' /\ FlushInv'
    BY <1>1, <1>4, <1>8, <1>9, <1>11, <1>15, <2>2, JobFrame
  <2>4. TypeOK'  BY <1>1, <1>2, <1>5, <1>14, <1>15, <2>1, <2>3 DEF TypeOK, Vaults, Notes, Jobs
  <2> QED BY <1>1, <1>15, <2>1, <2>3, <2>4, GoneFrame, ArchiveFrame DEF IInv
<1>16. CASE (job' = [job EXCEPT ![c] = k2] \/ job' = [job EXCEPT ![c] = k3]) /\ UNCHANGED <<vault, copied, gone>>
  <2>1. k2 \in Jobs /\ k3 \in Jobs /\ k2.op = "promote" /\ k3.op = "promote"
    BY <1>12, <1>13 DEF Jobs, PromoteJob
  <2>2. calls' \in 0..MaxCalls  BY <1>1, <1>2 DEF TypeOK
  <2> QED BY <1>1, <1>4, <1>5, <1>12, <1>13, <1>16, <2>1, <2>2, QuietFrame
<1> QED BY <1>10, <1>15, <1>16

\* The destination is overwritten, or has gone meanwhile.
LEMMA ReplaceInv ==
  ASSUME IInv, NEW c \in Clients, NEW own \in BOOLEAN, PromoteReplace(c, own)
  PROVE  IInv'
<1>1. At(c, "promote", "replace")
      /\ UNCHANGED <<snapshot, bodies, idem, tomb, file, flushing, up, minted, calls, crashes, acked, gone, aliased, broken>>
  BY DEF PromoteReplace
<1>2. job \in [Clients -> Jobs] /\ TypeOK  BY DEF IInv, TypeOK, Jobs
<1>3. job[c] \in PromoteJob /\ job[c].at = "replace" /\ job[c].op = "promote" /\ job[c] # Nil
  BY <1>1, <1>2, HasJob DEF At
<1>4. job[c].src \in Note /\ job[c].id \in 0..MaxMint  BY <1>3 DEF IInv, CopyInv, PromoteJob
<1> DEFINE in == job[c].in
           old == vault[in.to][Live(in.path)]
           n == [id |-> IF own THEN old.id ELSE job[c].id, text |-> job[c].src.text]
           res == [ref |-> <<in.to, in.path>>, etag |-> n.text]
           k1 == [job[c] EXCEPT !.at = "archive", !.res = res]
           k3 == [job[c] EXCEPT !.at = "failed"]
<1>5. in \in PromoteInput  BY <1>3 DEF PromoteJob
<1>6. in.to \in Scopes /\ in.path \in Paths  BY <1>5 DEF PromoteInput
<1>7. old \in Notes  BY <1>2, <1>6, VaultType
<1>8. \/ /\ old # Nil /\ Put(in.to, Live(in.path), n) /\ job' = [job EXCEPT ![c] = k1]
         /\ copied' = copied \cup {n.text}
      \/ job' = [job EXCEPT ![c] = k3] /\ UNCHANGED <<vault, copied>>
  BY DEF PromoteReplace, PromoteFail, Goto
<1>9. old # Nil => n \in Note /\ n.text = job[c].src.text /\ n.text \in 1..MaxMint
  BY <1>4, <1>7 DEF Note, Notes
<1>10. old # Nil => res \in Result  BY <1>6, <1>9 DEF Result, Ref, Note
<1>11. old # Nil => k1 \in PromoteJob /\ k1.src = job[c].src /\ k1.res = res
  <2> HIDE DEF res
  <2> QED BY <1>3, <1>10 DEF PromoteJob
<1>12. k3 \in PromoteJob /\ k3.at = "failed"  BY <1>3 DEF PromoteJob, Finished
<1> HIDE DEF k1, k3, n, res, old
<1>13. CASE /\ old # Nil /\ Put(in.to, Live(in.path), n) /\ job' = [job EXCEPT ![c] = k1]
            /\ copied' = copied \cup {n.text}
  <2>1. vault' \in Vaults /\ \A t \in Scopes, x \in Paths : vault'[t][ArchivePath(x)] = vault[t][ArchivePath(x)]
    BY <1>2, <1>6, <1>9, <1>13, PutFacts, VaultType DEF Notes
  <2>2. k1 \in Jobs /\ k1.op # "delete"  BY <1>11, <1>13 DEF Jobs, PromoteJob
  <2>3. job' \in [Clients -> Jobs] /\ CopyInv' /\ FlushInv'
    BY <1>1, <1>4, <1>9, <1>10, <1>11, <1>13, <2>2, JobFrame
  <2>4. TypeOK'  BY <1>1, <1>2, <1>9, <1>13, <2>1, <2>3 DEF TypeOK, Vaults, Notes, Jobs
  <2> QED BY <1>1, <1>13, <2>1, <2>3, <2>4, GoneFrame, ArchiveFrame DEF IInv
<1>14. CASE job' = [job EXCEPT ![c] = k3] /\ UNCHANGED <<vault, copied>>
  <2>1. k3 \in Jobs /\ k3.op = "promote"  BY <1>12 DEF Jobs, PromoteJob
  <2>2. calls' \in 0..MaxCalls /\ minted' \in 0..MaxMint  BY <1>1, <1>2 DEF TypeOK
  <2> QED BY <1>1, <1>12, <1>14, <2>1, <2>2, QuietFrame
<1> QED BY <1>8, <1>13, <1>14

\* The source is moved to the archives if it is still the note that was copied.
LEMMA ArchiveInv ==
  ASSUME IInv, NEW c \in Clients, NEW moves \in BOOLEAN, PromoteArchive(c, moves)
  PROVE  IInv'
<1>1. At(c, "promote", "archive") /\ job' = [job EXCEPT ![c] = [job[c] EXCEPT !.at = "store"]]
      /\ UNCHANGED <<snapshot, bodies, idem, tomb, file, flushing, up, minted, calls, crashes, acked, gone, copied, aliased, broken>>
  BY DEF PromoteArchive, Goto, ghosts
<1>2. job \in [Clients -> Jobs] /\ TypeOK  BY DEF IInv, TypeOK, Jobs
<1>3. job[c] \in PromoteJob /\ job[c].at = "archive" /\ job[c].op = "promote" /\ job[c] # Nil
  BY <1>1, <1>2, HasJob DEF At
<1>4. job[c].src.text \in copied /\ job[c].res \in Result  BY <1>3 DEF IInv, CopyInv
<1> DEFINE k == [job[c] EXCEPT !.at = "store"]
           in == job[c].in
           note == vault[in.from][Live(in.path)]
<1>5. k \in PromoteJob /\ k.at = "store" /\ k.res = job[c].res /\ k.op = "promote"
  BY <1>3 DEF PromoteJob
<1> HIDE DEF k
<1>6. job' \in [Clients -> Jobs] /\ CopyInv' /\ FlushInv'
  <2>1. k \in Jobs  BY <1>5 DEF Jobs
  <2>2. job' = [job EXCEPT ![c] = k]  BY <1>1 DEF k
  <2> QED BY <1>1, <1>4, <1>5, <2>1, <2>2, JobFrame
<1>7. in \in PromoteInput  BY <1>3 DEF PromoteJob
<1>8. in.from \in Scopes /\ in.path \in Paths  BY <1>7 DEF PromoteInput
<1>9. CASE vault' = vault
  <2>1. TypeOK'  BY <1>1, <1>2, <1>6, <1>9 DEF TypeOK, Jobs
  <2> QED BY <1>1, <1>6, <1>9, <2>1, GoneFrame, ArchiveFrame DEF IInv
<1>10. CASE vault' # vault
  <2> DEFINE a == Live(in.path)
             b == ArchivePath(in.path)
             row == [vault[in.from] EXCEPT ![a] = Nil, ![b] = note]
  <2>1. note.text = job[c].src.text /\ vault' = [vault EXCEPT ![in.from] = row]
    BY <1>10 DEF PromoteArchive, SameSource
  <2>2. a \in Place /\ b \in Place /\ \A x \in Paths : ArchivePath(x) # a /\ ArchivePath(x) \in Place
    BY <1>8, Places
  <2>3. vault \in Vaults /\ note \in Notes  BY <1>2, <1>8, VaultType
  <2>4. row \in [Place -> Notes] /\ row[b] = note /\ \A pl \in Place \ {a, b} : row[pl] = vault[in.from][pl]
    <3> HIDE DEF note, a, b
    <3>1. Nil \in Notes  BY DEF Notes
    <3>2. vault[in.from] \in [Place -> Notes]  BY <1>8, <2>3 DEF Vaults
    <3> QED BY <2>2, <2>3, <3>1, <3>2
  <2> HIDE DEF row, a
  <2>5. vault' \in Vaults  BY <1>8, <2>1, <2>3, <2>4 DEF Vaults
  <2>6. ArchivedWasCopied'
    <3> SUFFICES ASSUME NEW s \in Scopes, NEW p \in Paths, vault'[s][ArchivePath(p)] # Nil
                 PROVE  vault'[s][ArchivePath(p)].text \in copied'
      BY DEF ArchivedWasCopied, Has
    <3>1. CASE s = in.from /\ ArchivePath(p) = b
      <4>1. vault'[s][ArchivePath(p)] = note  BY <1>8, <2>1, <2>3, <2>4, <3>1 DEF Vaults
      <4> QED BY <1>1, <1>4, <2>1, <4>1
    <3>2. CASE ~(s = in.from /\ ArchivePath(p) = b)
      <4>1. vault'[s][ArchivePath(p)] = vault[s][ArchivePath(p)]
        BY <1>8, <2>1, <2>2, <2>3, <2>4, <3>2 DEF Vaults
      <4> QED BY <1>1, <4>1 DEF IInv, ArchivedWasCopied, Has
    <3> QED BY <3>1, <3>2
  <2>7. TypeOK'  BY <1>1, <1>2, <1>6, <2>5 DEF TypeOK, Jobs, Vaults, Notes
  <2> QED BY <1>1, <1>6, <2>6, <2>7, GoneFrame DEF IInv
<1> QED BY <1>9, <1>10

\* The result enters the idempotency cache.
LEMMA StoreInv ==
  ASSUME IInv, NEW c \in Clients, PromoteStore(c)
  PROVE  IInv'
<1>1. At(c, "promote", "store") /\ job' = [job EXCEPT ![c] = [job[c] EXCEPT !.at = "answered"]]
      /\ UNCHANGED <<vault, snapshot, bodies, tomb, file, flushing, up, minted, calls, crashes, gone, copied, aliased, broken>>
  BY DEF PromoteStore, Goto
<1>2. job \in [Clients -> Jobs] /\ TypeOK  BY DEF IInv, TypeOK, Jobs
<1>3. job[c] \in PromoteJob /\ job[c].at = "store" /\ job[c].op = "promote" /\ job[c] # Nil
  BY <1>1, <1>2, HasJob DEF At
<1>4. job[c].res \in Result  BY <1>3 DEF IInv, CopyInv
<1> DEFINE k == [job[c] EXCEPT !.at = "answered"]
<1>5. k \in PromoteJob /\ k.at = "answered" /\ k.op = "promote"  BY <1>3 DEF PromoteJob, Finished
<1> HIDE DEF k
<1>6. job' \in [Clients -> Jobs] /\ CopyInv' /\ FlushInv'
  <2>1. k \in Jobs  BY <1>5 DEF Jobs
  <2>2. job' = [job EXCEPT ![c] = k]  BY <1>1 DEF k
  <2> QED BY <1>1, <1>5, <2>1, <2>2, JobFrame
<1>7. job[c].in \in PromoteInput  BY <1>3 DEF PromoteJob
<1>8. job[c].in.key \in Keys \cup {NoKey}  BY <1>7 DEF PromoteInput
<1>9. /\ DOMAIN idem' \subseteq Keys /\ \A x \in DOMAIN idem' : idem'[x] \in Result
      /\ acked' \in [Keys -> SUBSET Result]
  <2>1. CASE job[c].in.key = NoKey
    <3>1. idem' = idem /\ acked' = acked  BY <2>1 DEF PromoteStore
    <3> QED BY <1>2, <3>1 DEF TypeOK
  <2>2. CASE job[c].in.key # NoKey
    <3> DEFINE x0 == job[c].in.key
               r == job[c].res
    <3>1. x0 \in Keys  BY <1>8, <2>2
    <3>2. PICK evicted \in SUBSET DOMAIN idem :
            /\ idem' = StoreIdempotency(x0, r, evicted)
            /\ acked' = [x \in Keys |->
                  IF x = x0 THEN (acked[x0] \ (IF x0 \in evicted THEN acked[x0] ELSE {})) \cup {r}
                  ELSE IF x \in evicted THEN {} ELSE acked[x]]
      <4>1. PICK evicted \in IF Cardinality(DOMAIN idem) >= IdemMax THEN {{x} : x \in DOMAIN idem} ELSE {{}} :
            /\ idem' = StoreIdempotency(x0, r, evicted)
            /\ acked' = [x \in Keys |->
                  IF x = x0 THEN (acked[x0] \ (IF x0 \in evicted THEN acked[x0] ELSE {})) \cup {r}
                  ELSE IF x \in evicted THEN {} ELSE acked[x]]
        BY <2>2 DEF PromoteStore
      <4>2. evicted \in SUBSET DOMAIN idem  OBVIOUS
      <4> QED BY <4>1, <4>2
    <3>3. acked \in [Keys -> SUBSET Result]  BY <1>2 DEF TypeOK
    <3>4. \A x \in Keys : acked[x] \subseteq Result  BY <3>3
    <3>5. acked' \in [Keys -> SUBSET Result]
      <4> HIDE DEF r, x0
      <4>1. r \in Result  BY <1>4 DEF r
      <4> QED BY <3>1, <3>2, <3>4, <4>1
    <3>6. idem' = [x \in (DOMAIN idem \ evicted) \cup {x0} |-> IF x = x0 THEN r ELSE idem[x]]
      BY <3>2 DEF StoreIdempotency
    <3>7. DOMAIN idem \subseteq Keys /\ \A x \in DOMAIN idem : idem[x] \in Result  BY <1>2 DEF TypeOK
    <3> QED BY <1>4, <3>1, <3>5, <3>6, <3>7
  <2> QED BY <2>1, <2>2
<1>10. TypeOK'  BY <1>1, <1>2, <1>6, <1>9 DEF TypeOK, Jobs
<1> QED BY <1>1, <1>6, <1>10, GoneFrame, ArchiveFrame DEF IInv

\* The steps of the body cache on its own.
BodyStep == \E s \in Remote, p \in Paths : FillBody(s, p) \/ DropBody(s, p)

\* An entry of the idempotency cache, a listing of the summary cache or a cached note
\* expires, or a note is cached.
LEMMA ExpireInv ==
  ASSUME IInv, (\E k \in Keys : ExpireIdempotency(k)) \/ (\E s \in Remote : ExpireSnapshot(s)) \/ BodyStep
  PROVE  IInv'
<1>0. TypeOK  BY DEF IInv
<1>1. ASSUME NEW k \in Keys, ExpireIdempotency(k)  PROVE IInv'
  <2>1. UNCHANGED <<vault, snapshot, bodies, tomb, file, flushing, up, job, minted, calls, crashes, gone, copied, aliased, broken>>
    BY <1>1 DEF ExpireIdempotency
  <2>2. idem' = [x \in DOMAIN idem \ {k} |-> idem[x]] /\ acked' = [acked EXCEPT ![k] = {}]
    BY <1>1 DEF ExpireIdempotency
  <2>3. DOMAIN idem' \subseteq Keys /\ \A x \in DOMAIN idem' : idem'[x] \in Result
    BY <1>0, <2>2 DEF TypeOK
  <2>4. acked' \in [Keys -> SUBSET Result]  BY <1>0, <2>2 DEF TypeOK
  <2>5. TypeOK'  BY <1>0, <2>1, <2>3, <2>4 DEF TypeOK
  <2>6. CopyInv' /\ FlushInv'  BY <2>1 DEF IInv, CopyInv, FlushInv
  <2> QED BY <2>1, <2>5, <2>6, GoneFrame, ArchiveFrame DEF IInv
<1>2. ASSUME NEW s \in Remote, ExpireSnapshot(s)  PROVE IInv'
  <2>1. /\ UNCHANGED <<vault, bodies, idem, tomb, file, flushing, up, job, minted, calls, crashes,
                       acked, gone, copied, aliased, broken>>
        /\ snapshot' = [snapshot EXCEPT ![s] = Nil]
    BY <1>2 DEF ExpireSnapshot, ghosts
  <2>2. snapshot' \in [Remote -> (SUBSET Paths) \cup {Nil}]  BY <1>0, <2>1 DEF TypeOK
  <2>3. TypeOK'  BY <1>0, <2>1, <2>2 DEF TypeOK
  <2>4. CopyInv' /\ FlushInv'  BY <2>1 DEF IInv, CopyInv, FlushInv
  <2> QED BY <2>1, <2>3, <2>4, GoneFrame, ArchiveFrame DEF IInv
<1>3. ASSUME NEW s \in Remote, NEW p \in Paths, FillBody(s, p) \/ DropBody(s, p)  PROVE IInv'
  <2>1. UNCHANGED <<vault, snapshot, idem, tomb, file, flushing, up, job, minted, calls, crashes,
                    acked, gone, copied, aliased, broken>>
    BY <1>3 DEF FillBody, DropBody, ghosts
  <2>2. PICK n \in Notes : bodies' = [bodies EXCEPT ![s] = [bodies[s] EXCEPT ![p] = n]]
    <3>1. s \in Scopes  BY WritesAssumption
    <3>2. vault[s][Live(p)] \in Notes /\ Nil \in Notes  BY <1>0, <3>1, VaultType DEF Notes
    <3> QED BY <1>3, <3>2 DEF FillBody, DropBody
  <2>3. bodies' \in [Remote -> [Paths -> Note \cup {Nil}]]
    <3>1. bodies \in [Remote -> [Paths -> Note \cup {Nil}]]  BY <1>0 DEF TypeOK
    <3>2. [bodies[s] EXCEPT ![p] = n] \in [Paths -> Note \cup {Nil}]  BY <3>1 DEF Notes
    <3> QED BY <2>2, <3>1, <3>2
  <2>4. TypeOK'  BY <1>0, <2>1, <2>3 DEF TypeOK
  <2>5. CopyInv' /\ FlushInv'  BY <2>1 DEF IInv, CopyInv, FlushInv
  <2> QED BY <2>1, <2>4, <2>5, GoneFrame, ArchiveFrame DEF IInv
<1> QED BY <1>1, <1>2, <1>3 DEF BodyStep

-----------------------------------------------------------------------------
(* Delete and the tombstone file                                           *)

\* The next step of a Delete: the type of the record of its call.
LEMMA DeleteGoto ==
  ASSUME IInv, NEW c \in Clients, NEW at \in DeleteAt, NEW now, At(c, "delete", now), Goto(c, at)
  PROVE  \E k \in Jobs : /\ job' = [job EXCEPT ![c] = k]
                         /\ k.op = "delete" /\ k.at = at /\ k.ref = job[c].ref
<1>1. job \in [Clients -> Jobs]  BY DEF IInv, TypeOK, Jobs
<1>2. job[c] \in DeleteJob  BY <1>1, HasJob
<1> DEFINE k == [job[c] EXCEPT !.at = at]
<1>3. k \in DeleteJob  BY <1>2, OtherJobType
<1>4. k.op = "delete" /\ k.at = at /\ k.ref = job[c].ref  BY <1>2 DEF DeleteJob
<1>5. job' = [job EXCEPT ![c] = k]  BY DEF Goto
<1> HIDE DEF k
<1> QED BY <1>3, <1>4, <1>5 DEF Jobs

\* The vault deletes the note, or does not have it.
LEMMA DeleteVaultInv ==
  ASSUME IInv, NEW c \in Clients, DeleteVault(c)
  PROVE  IInv'
<1>1. At(c, "delete", "delete")
      /\ UNCHANGED <<bodies, idem, tomb, file, flushing, up, minted, calls, crashes, acked, gone, copied, aliased, broken>>
  BY DEF DeleteVault, ghosts
<1>2. job \in [Clients -> Jobs] /\ TypeOK /\ vault \in Vaults  BY VaultType DEF IInv, TypeOK, Jobs
<1>3. job[c] \in DeleteJob  BY <1>1, <1>2, HasJob
<1> DEFINE s == job[c].ref[1]
           p == job[c].ref[2]
<1>4. s \in Scopes /\ p \in Paths  BY <1>3 DEF DeleteJob, Ref
<1>5. PICK k \in Jobs : job' = [job EXCEPT ![c] = k] /\ k.op = "delete" /\ k.at \in {"add", "failed"}
  <2>1. Goto(c, "add") \/ Goto(c, "failed")  BY DEF DeleteVault
  <2>2. "add" \in DeleteAt /\ "failed" \in DeleteAt  BY DEF DeleteAt, Finished
  <2> QED BY <1>1, <2>1, <2>2, DeleteGoto
<1>6. job' \in [Clients -> Jobs] /\ CopyInv' /\ FlushInv'  BY <1>1, <1>5, JobFrame
<1>7. \/ Put(s, Live(p), Nil) /\ snapshot' = [x \in Remote |-> IF x = s THEN Nil ELSE snapshot[x]]
      \/ UNCHANGED <<vault, snapshot>>
  BY DEF DeleteVault
<1>8. /\ vault' \in Vaults /\ snapshot' \in [Remote -> (SUBSET Paths) \cup {Nil}]
      /\ \A t \in Scopes, x \in Paths : vault'[t][ArchivePath(x)] = vault[t][ArchivePath(x)]
  <2>1. CASE UNCHANGED <<vault, snapshot>>  BY <1>2, <2>1 DEF TypeOK
  <2>2. CASE Put(s, Live(p), Nil) /\ snapshot' = [x \in Remote |-> IF x = s THEN Nil ELSE snapshot[x]]
    <3>1. Nil \in Notes  BY DEF Notes
    <3>2. snapshot' \in [Remote -> (SUBSET Paths) \cup {Nil}]  BY <1>2, <2>2 DEF TypeOK
    <3> HIDE DEF s, p
    <3> QED BY <1>2, <1>4, <2>2, <3>1, <3>2, PutFacts
  <2> QED BY <1>7, <2>1, <2>2
<1>9. TypeOK'  BY <1>1, <1>2, <1>6, <1>8 DEF TypeOK, Vaults, Notes, Jobs
<1> QED BY <1>1, <1>6, <1>8, <1>9, GoneFrame, ArchiveFrame DEF IInv

\* The tombstone enters the map, and the file is truncated.
LEMMA AddInv ==
  ASSUME IInv, NEW c \in Clients, TombstoneAdd(c) \/ FlushOpen(c)
  PROVE  IInv'
<1>1. job \in [Clients -> Jobs] /\ TypeOK /\ "open" \in DeleteAt /\ "write" \in DeleteAt
  BY DEF IInv, TypeOK, Jobs, DeleteAt
<1>2. CASE TombstoneAdd(c)
  <2>1. /\ At(c, "delete", "add") /\ Goto(c, "open")
        /\ tomb' = tomb \cup {job[c].ref} /\ flushing' = c
        /\ UNCHANGED <<vault, snapshot, bodies, idem, file, up, minted, calls, crashes, acked, gone, copied, aliased, broken>>
    BY <1>2 DEF TombstoneAdd, ghosts
  <2>2. job[c] \in DeleteJob  BY <1>1, <2>1, HasJob
  <2>3. job[c].ref \in Ref  BY <2>2 DEF DeleteJob
  <2>4. PICK k \in Jobs : /\ job' = [job EXCEPT ![c] = k]
                          /\ k.op = "delete" /\ k.at = "open" /\ k.ref = job[c].ref
    BY <1>1, <2>1, DeleteGoto
  <2>5. job' \in [Clients -> Jobs] /\ CopyInv' /\ FlushInv'  BY <2>1, <2>4, JobFrame
  <2>6. TypeOK'  BY <1>1, <2>1, <2>3, <2>5 DEF TypeOK, Jobs
  <2> QED BY <2>1, <2>5, <2>6, GoneFrame, ArchiveFrame DEF IInv
<1>3. CASE FlushOpen(c)
  <2>1. /\ At(c, "delete", "open") /\ Goto(c, "write") /\ file' = Torn
        /\ UNCHANGED <<vault, snapshot, bodies, idem, tomb, flushing, up, minted, calls, crashes, acked, gone, copied, aliased, broken>>
    BY <1>3 DEF FlushOpen, ghosts
  <2>2. PICK k \in Jobs : /\ job' = [job EXCEPT ![c] = k]
                          /\ k.op = "delete" /\ k.at = "write" /\ k.ref = job[c].ref
    BY <1>1, <2>1, DeleteGoto
  <2>3. job[c].ref \in tomb  BY <2>1 DEF IInv, FlushInv, At
  <2>4. job' \in [Clients -> Jobs] /\ CopyInv' /\ FlushInv'  BY <2>1, <2>2, <2>3, JobFrame
  <2>5. TypeOK'  BY <1>1, <2>1, <2>4 DEF TypeOK, Jobs
  <2>6. FileInv' /\ AckedDeletesKept'  BY <2>1 DEF IInv, FileInv, AckedDeletesKept
  <2> QED BY <2>1, <2>4, <2>5, <2>6, ArchiveFrame DEF IInv
<1> QED BY <1>2, <1>3

\* The file is written, or its write fails; the Delete is answered.
LEMMA FlushedInv ==
  ASSUME IInv, NEW c \in Clients, FlushWrite(c) \/ FlushError(c)
  PROVE  IInv'
<1>1. /\ At(c, "delete", "open") \/ At(c, "delete", "write")
      /\ Goto(c, "answered") /\ flushing' = Nil
      /\ gone' \subseteq gone \cup {job[c].ref}
      /\ UNCHANGED <<vault, snapshot, bodies, idem, tomb, up, minted, calls, crashes, acked, copied, aliased>>
  BY DEF FlushWrite, FlushError, Unlock
<1>2. job \in [Clients -> Jobs] /\ TypeOK /\ "answered" \in DeleteAt
  BY DEF IInv, TypeOK, Jobs, DeleteAt, Finished
<1>3. job[c] \in DeleteJob /\ up  BY <1>1, <1>2, HasJob
<1>4. job[c].ref \in Ref  BY <1>3 DEF DeleteJob
<1>5. job[c].ref \in tomb  BY <1>1 DEF IInv, FlushInv, At
<1>6. PICK k \in Jobs : job' = [job EXCEPT ![c] = k] /\ k.op = "delete" /\ k.at = "answered"
  BY <1>1, <1>2, DeleteGoto
<1>7. job' \in [Clients -> Jobs] /\ CopyInv' /\ FlushInv'  BY <1>1, <1>6, JobFrame
<1>8. ArchivedWasCopied'  BY <1>1, ArchiveFrame
<1>9. CASE FlushWrite(c)
  <2>1. file' = tomb /\ broken' = broken  BY <1>9 DEF FlushWrite, WrittenTombstones
  <2>2. TypeOK'  BY <1>1, <1>2, <1>4, <1>7, <2>1 DEF TypeOK, Jobs
  <2>3. FileInv' /\ AckedDeletesKept'
    BY <1>1, <1>3, <1>5, <2>1 DEF IInv, FileInv, AckedDeletesKept
  <2> QED BY <1>7, <1>8, <2>2, <2>3 DEF IInv
<1>10. CASE FlushError(c)
  <2>1. file' = file /\ broken' = TRUE  BY <1>10 DEF FlushError
  <2>2. TypeOK'  BY <1>1, <1>2, <1>4, <1>7, <2>1 DEF TypeOK, Jobs
  <2>3. FileInv' /\ AckedDeletesKept'  BY <2>1 DEF FileInv, AckedDeletesKept
  <2> QED BY <1>7, <1>8, <2>2, <2>3 DEF IInv
<1> QED BY <1>9, <1>10

-----------------------------------------------------------------------------
(* Queries                                                                 *)

\* A query fetches its rows and merges them.
LEMMA QueryInv ==
  ASSUME IInv, NEW c \in Clients, QueryFetch(c) \/ QueryMerge(c)
  PROVE  IInv'
<1>1. job \in [Clients -> Jobs] /\ TypeOK /\ "merge" \in QueryAt /\ "replied" \in QueryAt
  BY DEF IInv, TypeOK, Jobs, QueryAt, Finished
<1>2. job[c] \in QueryJob  BY <1>1, HasJob DEF QueryFetch, QueryMerge
<1>3. job[c].scope \in Scopes /\ job[c].rows \subseteq Paths /\ job[c].fresh \in BOOLEAN /\ job[c].hidden \subseteq Ref
  BY <1>2 DEF QueryJob
<1> DEFINE s == job[c].scope
<1>4. CASE QueryFetch(c)
  <2> DEFINE k1 == [job[c] EXCEPT !.at = "merge", !.rows = Listing(s), !.fresh = TRUE]
             k2 == [job[c] EXCEPT !.at = "merge", !.rows = snapshot[s]]
  <2>1. UNCHANGED <<vault, snapshot, bodies, idem, tomb, file, flushing, up, minted, calls, crashes, acked, gone, copied, aliased, broken>>
    BY <1>4 DEF QueryFetch, stores, ghosts
  <2>2. \/ job' = [job EXCEPT ![c] = k1]
        \/ s \in Remote /\ snapshot[s] # Nil /\ job' = [job EXCEPT ![c] = k2]
    BY <1>4 DEF QueryFetch
  <2>3. k1 \in QueryJob
    <3>1. Listing(s) \in SUBSET Paths  BY DEF Listing
    <3> QED BY <1>1, <1>2, <3>1, OtherJobType
  <2>4. s \in Remote /\ snapshot[s] # Nil => k2 \in QueryJob
    <3>1. s \in Remote /\ snapshot[s] # Nil => snapshot[s] \in SUBSET Paths  BY <1>1 DEF TypeOK
    <3> QED BY <1>1, <1>2, <3>1, OtherJobType
  <2> HIDE DEF k1, k2
  <2>5. PICK k \in QueryJob : job' = [job EXCEPT ![c] = k]  BY <2>2, <2>3, <2>4
  <2>6. k \in Jobs /\ k.op = "query"  BY DEF Jobs, QueryJob
  <2>7. calls' \in 0..MaxCalls /\ minted' \in 0..MaxMint  BY <1>1, <2>1 DEF TypeOK
  <2> QED BY <2>1, <2>5, <2>6, <2>7, QuietFrame
<1>5. CASE QueryMerge(c)
  <2> DEFINE k == [job[c] EXCEPT !.at = "replied", !.rows = Visible(s, job[c].rows),
                                 !.hidden = job[c].hidden \cap gone]
  <2>1. UNCHANGED <<vault, bodies, idem, tomb, file, flushing, up, minted, calls, crashes, acked, gone, copied, aliased, broken>>
    BY <1>5 DEF QueryMerge, ghosts
  <2>2. snapshot' = [x \in Remote |-> IF x = s /\ job[c].fresh THEN job[c].rows ELSE snapshot[x]]
    BY <1>5 DEF QueryMerge
  <2>3. job' = [job EXCEPT ![c] = k]  BY <1>5 DEF QueryMerge
  <2>4. k \in QueryJob
    <3>1. Visible(s, job[c].rows) \in SUBSET Paths  BY <1>3 DEF Visible
    <3>2. job[c].hidden \cap gone \in SUBSET Ref  BY <1>3
    <3> QED BY <1>1, <1>2, <3>1, <3>2, OtherJobType
  <2>5. snapshot' \in [Remote -> (SUBSET Paths) \cup {Nil}]
    <3>1. \A x \in Remote : snapshot[x] \in (SUBSET Paths) \cup {Nil}  BY <1>1 DEF TypeOK
    <3> QED BY <1>3, <2>2, <3>1
  <2> HIDE DEF k
  <2>6. k \in Jobs /\ k.op = "query"  BY <2>4 DEF Jobs, QueryJob
  <2>7. job' \in [Clients -> Jobs] /\ CopyInv' /\ FlushInv'  BY <2>1, <2>3, <2>6, JobFrame
  <2>8. TypeOK'  BY <1>1, <2>1, <2>5, <2>7 DEF TypeOK, Jobs
  <2> QED BY <2>1, <2>7, <2>8, GoneFrame, ArchiveFrame DEF IInv
<1> QED BY <1>4, <1>5

-----------------------------------------------------------------------------
(* Crashes                                                                 *)

\* A gateway that is down has no calls and no caches.
DownInv ==
  ~up => (\A c \in Clients : job[c] = Nil) /\ (\A s \in Remote : snapshot[s] = Nil)

\* Only a running gateway takes a client's step, and it keeps running.
LEMMA DownStep ==
  ASSUME DownInv, Next
  PROVE  DownInv'
<1>1. ASSUME NEW c \in Clients, ClientStep(c)  PROVE up /\ up' = up
  <2>1. ASSUME NEW in \in Promotions, PromoteCall(c, in)  PROVE up /\ up' = up
    BY <2>1 DEF PromoteCall, Begin
  <2>2. ASSUME NEW match \in BOOLEAN, PromoteGet(c, match)  PROVE up /\ up' = up
    BY <2>2 DEF PromoteGet, At
  <2>3. PromoteMint(c) \/ PromoteCreate(c) \/ (\E own \in BOOLEAN : PromoteReplace(c, own))
        \/ (\E moves \in BOOLEAN : PromoteArchive(c, moves)) \/ PromoteStore(c) => up /\ up' = up
    BY DEF PromoteMint, PromoteCreate, PromoteReplace, PromoteArchive, PromoteStore, At
  <2>4. (\E s \in Scopes, p \in Paths : DeleteCall(c, s, p)) \/ (\E s \in Scopes : QueryCall(c, s)) => up /\ up' = up
    BY DEF DeleteCall, QueryCall, Begin
  <2>5. DeleteVault(c) \/ TombstoneAdd(c) \/ FlushOpen(c) \/ FlushWrite(c) \/ FlushError(c) => up /\ up' = up
    BY DEF DeleteVault, TombstoneAdd, FlushOpen, FlushWrite, FlushError, At
  <2>6. QueryFetch(c) \/ QueryMerge(c) \/ Done(c) => up /\ up' = up
    BY DEF QueryFetch, QueryMerge, Done, At
  <2> QED BY <1>1, <2>1, <2>2, <2>3, <2>4, <2>5, <2>6 DEF ClientStep
<1>2. (\E p \in Paths, id \in 0..MaxMint : Create(p, id)) \/ (\E s \in Scopes, p \in Paths : UpdateBody(s, p))
        => up /\ up' = up
  BY DEF Create, UpdateBody
<1>3. (\E k \in Keys : ExpireIdempotency(k)) \/ (\E s \in Remote : ExpireSnapshot(s)) \/ BodyStep
        => up /\ up' = up
  BY DEF ExpireIdempotency, ExpireSnapshot, BodyStep, FillBody, DropBody
<1>4. Crash => job' = [c \in Clients |-> Nil] /\ snapshot' = [s \in Remote |-> Nil]  BY DEF Crash
<1>5. Start => up'  BY DEF Start
<1> QED BY <1>1, <1>2, <1>3, <1>4, <1>5 DEF Next, DownInv, BodyStep

\* The gateway crashes and starts again.
LEMMA CrashInv ==
  ASSUME IInv, DownInv, Crash \/ Start
  PROVE  IInv'
<1>0. TypeOK  BY DEF IInv
<1>1. CASE Crash
  <2>1. /\ up' = FALSE /\ crashes' = crashes + 1 /\ crashes < MaxCrashes
        /\ job' = [c \in Clients |-> Nil]
        /\ idem' = [k \in {} |-> Nil] /\ acked' = [k \in Keys |-> {}]
        /\ snapshot' = [s \in Remote |-> Nil] /\ bodies' = [s \in Remote |-> [p \in Paths |-> Nil]]
        /\ tomb' = {} /\ flushing' = Nil
        /\ UNCHANGED <<vault, file, minted, calls, gone, copied, aliased, broken>>
    BY <1>1 DEF Crash
  <2>2. crashes' \in 0..MaxCrashes  BY <1>0, <2>1, WritesAssumption DEF TypeOK
  <2>3. job' \in [Clients -> Jobs]  BY <2>1 DEF Jobs
  <2>4. TypeOK'  BY <1>0, <2>1, <2>2, <2>3 DEF TypeOK, Jobs
  <2>5. CopyInv' /\ FlushInv'  BY <2>1 DEF CopyInv, FlushInv
  <2>6. FileInv' /\ AckedDeletesKept'  BY <2>1 DEF IInv, FileInv, AckedDeletesKept
  <2> QED BY <2>1, <2>4, <2>5, <2>6, ArchiveFrame DEF IInv
<1>2. CASE Start
  <2>1. /\ ~up /\ file # Torn /\ up' = TRUE /\ tomb' = file
        /\ UNCHANGED <<vault, snapshot, bodies, idem, file, flushing, job, minted, calls, crashes, acked, gone, copied, aliased, broken>>
    BY <1>2 DEF Start, ghosts
  <2>2. TypeOK'  BY <1>0, <2>1 DEF TypeOK
  <2>3. CopyInv' /\ FlushInv'  BY <2>1 DEF DownInv, CopyInv, FlushInv
  <2>4. FileInv' /\ AckedDeletesKept'  BY <2>1 DEF IInv, FileInv, AckedDeletesKept
  <2> QED BY <2>1, <2>2, <2>3, <2>4, ArchiveFrame DEF IInv
<1> QED BY <1>1, <1>2

-----------------------------------------------------------------------------
(* The theorems                                                            *)

\* The notes that are there at the start are numbered.
LEMMA InitInv == Init => IInv /\ DownInv
<1> SUFFICES ASSUME Init  PROVE IInv /\ DownInv  OBVIOUS
<1>1. Cardinality(Ref) \in 0..MaxMint /\ MaxMint \in Nat /\ MaxCalls \in Nat /\ MaxCrashes \in Nat
      /\ Number \in [Ref -> 1..Cardinality(Ref)]
  BY WritesAssumption
<1>2. \A r \in Ref : Number[r] \in 0..MaxMint /\ Number[r] \in 1..MaxMint  BY <1>1
<1>3. PICK held \in SUBSET Ref :
        vault = [s \in Scopes |-> [pl \in Place |->
                  IF pl[1] = "live" /\ <<s, pl[2]>> \in held
                  THEN [id |-> Number[<<s, pl[2]>>], text |-> Number[<<s, pl[2]>>]]
                  ELSE Nil]]
  BY DEF Init
<1>4. \A s \in Scopes, pl \in Place :
        (IF pl[1] = "live" /\ <<s, pl[2]>> \in held
         THEN [id |-> Number[<<s, pl[2]>>], text |-> Number[<<s, pl[2]>>]]
         ELSE Nil) \in Note \cup {Nil}
  BY <1>2 DEF Note
<1>5. vault \in [Scopes -> [Place -> Note \cup {Nil}]]  BY <1>3, <1>4
<1>6. \A s \in Scopes, p \in Paths : vault[s][ArchivePath(p)] = Nil
  <2>1. \A p \in Paths : ArchivePath(p) \in Place /\ ArchivePath(p)[1] # "live"
    BY DEF ArchivePath, Place, Shelf
  <2> QED BY <1>3, <2>1
<1>7. job = [c \in Clients |-> Nil]  BY DEF Init
<1>8. TypeOK
  <2>1. /\ snapshot = [s \in Remote |-> Nil] /\ acked = [k \in Keys |-> {}]
        /\ idem = [k \in {} |-> Nil] /\ flushing = Nil /\ up = TRUE
        /\ tomb = {} /\ file = {} /\ gone = {} /\ copied = {} /\ aliased = {} /\ broken = FALSE
        /\ bodies = [s \in Remote |-> [p \in Paths |-> Nil]]
        /\ minted = Cardinality(Ref) /\ calls = 0 /\ crashes = 0
    BY DEF Init
  <2>2. DOMAIN idem = {}  BY <2>1
  <2>3. minted \in 0..MaxMint /\ calls \in 0..MaxCalls /\ crashes \in 0..MaxCrashes
    BY <1>1, <2>1
  <2>4. job \in [Clients -> Jobs]  BY <1>7 DEF Jobs
  <2>5. snapshot \in [Remote -> (SUBSET Paths) \cup {Nil}] /\ acked \in [Keys -> SUBSET Result]
    BY <2>1
  <2> QED BY <1>5, <2>1, <2>2, <2>3, <2>4, <2>5 DEF TypeOK, Jobs
<1>9. CopyInv /\ FlushInv /\ DownInv  BY <1>7 DEF Init, CopyInv, FlushInv, DownInv
<1>10. FileInv /\ AckedDeletesKept  BY DEF Init, FileInv, AckedDeletesKept
<1>11. ArchivedWasCopied  BY <1>6 DEF ArchivedWasCopied, Has
<1> QED BY <1>8, <1>9, <1>10, <1>11 DEF IInv

\* Every step preserves the inductive invariant.
LEMMA NextInv == IInv /\ DownInv /\ [Next]_vars => (IInv /\ DownInv)'
<1> SUFFICES ASSUME IInv, DownInv, [Next]_vars  PROVE IInv' /\ DownInv'  OBVIOUS
<1>1. CASE Next
  <2>1. DownInv'  BY <1>1, DownStep
  <2>2. ASSUME NEW c \in Clients, ClientStep(c)  PROVE IInv'
    BY <2>2, CallInv, DoneInv, GetInv, MintInv, CreateInv, ReplaceInv, ArchiveInv, StoreInv, DeleteVaultInv,
       AddInv, FlushedInv, QueryInv DEF ClientStep
  <2>3. ASSUME NEW p \in Paths, NEW id \in 0..MaxMint, Create(p, id)  PROVE IInv'
    BY <2>3, EditInv, WritesAssumption
  <2>4. ASSUME NEW s \in Scopes, NEW p \in Paths, UpdateBody(s, p)  PROVE IInv'
    BY <2>4, EditInv
  <2> QED BY <1>1, <2>1, <2>2, <2>3, <2>4, ExpireInv, CrashInv DEF Next, BodyStep
<1>2. CASE UNCHANGED vars
  <2>1. UNCHANGED <<vault, snapshot, bodies, idem, tomb, file, flushing, up, job, minted, calls, crashes,
                    acked, gone, copied, aliased, broken>>
    BY <1>2 DEF vars, stores, ghosts
  <2>2. TypeOK'  BY <2>1 DEF IInv, TypeOK
  <2>3. CopyInv' /\ FlushInv' /\ DownInv'  BY <2>1 DEF IInv, CopyInv, FlushInv, DownInv
  <2> QED BY <2>1, <2>2, <2>3, GoneFrame, ArchiveFrame DEF IInv
<1> QED BY <1>1, <1>2

\* The inductive invariant holds of every behaviour.
LEMMA WritesInv == Spec => [](IInv /\ DownInv)
BY InitInv, NextInv, PTL DEF Spec

\* The stores, the caches and the calls of the federation keep their types.
THEOREM WritesTypeCorrect == Spec => []TypeOK
<1>1. IInv /\ DownInv => TypeOK  BY DEF IInv
<1> QED BY <1>1, WritesInv, PTL

\* An answered Delete survives a crash at any step, the rewrite of the tombstone file
\* included: a gateway that starts again has its tombstone, unless a write of the file
\* has failed (Add and flush of file_store.go).
THEOREM AnsweredDeletesSurvive == Spec => []AckedDeletesKept
<1>1. IInv /\ DownInv => AckedDeletesKept  BY DEF IInv
<1> QED BY <1>1, WritesInv, PTL

\* Promote archives no content that it has not copied, whatever the other callers do
\* between its read of the source and its Move (federation.go, Promote).
THEOREM ArchiveOnlyCopied == Spec => []ArchivedWasCopied
<1>1. IInv /\ DownInv => ArchivedWasCopied  BY DEF IInv
<1> QED BY <1>1, WritesInv, PTL

-----------------------------------------------------------------------------
(* Replays, hidden rows and NoteIDs: a known idempotency key is answered   *)
(* from the cache, no two notes get the same NoteID, and no query lists a  *)
(* note that was deleted before it began.                                  *)

-----------------------------------------------------------------------------
(* A client's step and its job                                             *)

\* Steps with the choices that they leave open.
GetOf(c) == \E match \in BOOLEAN : PromoteGet(c, match)
ReplaceOf(c) == \E own \in BOOLEAN : PromoteReplace(c, own)
ArchiveOf(c) == \E moves \in BOOLEAN : PromoteArchive(c, moves)

\* The steps of a Promote after its first, but for PromoteMint.
PromoteOn(c) == GetOf(c) \/ PromoteCreate(c) \/ ReplaceOf(c) \/ ArchiveOf(c) \/ PromoteStore(c)

\* They keep the operation and the expectations the call came with, and no job that
\* has ended takes one.
LEMMA PromoteGoesOn ==
  ASSUME TypeOK, NEW c \in Clients, PromoteOn(c)
  PROVE  /\ job[c] \in PromoteJob /\ job[c] # Nil /\ job[c].at \notin Finished
         /\ job'[c].op = "promote" /\ job'[c].expect = job[c].expect
         /\ \A d \in Clients \ {c} : job'[d] = job[d]
<1>1. job \in [Clients -> Jobs]  BY DEF TypeOK, Jobs
<1>2. \E at \in {"get", "create", "replace", "archive", "store"} : At(c, "promote", at)
  BY DEF PromoteOn, GetOf, ReplaceOf, ArchiveOf, PromoteGet, PromoteCreate, PromoteReplace, PromoteArchive, PromoteStore
<1>3. job[c] \in PromoteJob /\ job[c] # Nil /\ job[c].at \notin Finished
  BY <1>1, <1>2, HasJob DEF At, Finished
<1>4. \A k : job' = [job EXCEPT ![c] = k] /\ k.op = job[c].op /\ k.expect = job[c].expect =>
        job'[c].op = "promote" /\ job'[c].expect = job[c].expect /\ \A d \in Clients \ {c} : job'[d] = job[d]
  BY <1>1, <1>3 DEF PromoteJob
<1> DEFINE K1(at) == [job[c] EXCEPT !.at = at]
           K2 == [job[c] EXCEPT !.at = "mint", !.src = Read(job[c].in.from, job[c].in.path)]
           K3(r) == [job[c] EXCEPT !.at = "archive", !.res = r]
<1>6. \A at, r : /\ K1(at).op = job[c].op /\ K1(at).expect = job[c].expect
                 /\ K3(r).op = job[c].op /\ K3(r).expect = job[c].expect
  BY <1>3 DEF PromoteJob
<1>7. K2.op = job[c].op /\ K2.expect = job[c].expect
  BY <1>3 DEF PromoteJob
<1>8. \/ \E at : job' = [job EXCEPT ![c] = K1(at)]
      \/ job' = [job EXCEPT ![c] = K2]
      \/ \E r : job' = [job EXCEPT ![c] = K3(r)]
  <2>1. CASE GetOf(c)
    BY <2>1 DEF GetOf, PromoteGet, PromoteFail, Goto
  <2> DEFINE To(at) == job' = [job EXCEPT ![c].at = at]
             Copied(r) == job' = [job EXCEPT ![c].at = "archive", ![c].res = r]
  <2>2. CASE PromoteCreate(c)
    <3>1. (\E at : To(at)) \/ \E r : Copied(r)
      <4>1. CASE Has(job[c].in.to, Live(job[c].in.path))
        BY <2>2, <4>1 DEF PromoteCreate, PromoteFail, Goto
      <4>2. CASE ~Has(job[c].in.to, Live(job[c].in.path))
        <5>1. \E r : Copied(r)  BY <2>2, <4>2 DEF PromoteCreate
        <5> QED BY <5>1
      <4> QED BY <4>1, <4>2
    <3> QED BY <3>1
  <2>3. CASE ReplaceOf(c)
    <3>1. PICK own \in BOOLEAN : PromoteReplace(c, own)  BY <2>3 DEF ReplaceOf
    <3>2. (\E at : To(at)) \/ \E r : Copied(r)
      <4>1. CASE vault[job[c].in.to][Live(job[c].in.path)] = Nil
        BY <3>1, <4>1 DEF PromoteReplace, PromoteFail, Goto
      <4>2. CASE vault[job[c].in.to][Live(job[c].in.path)] # Nil
        <5>1. \E r : Copied(r)  BY <3>1, <4>2 DEF PromoteReplace
        <5> QED BY <5>1
      <4> QED BY <4>1, <4>2
    <3> QED BY <3>2
  <2>4. CASE ArchiveOf(c)
    BY <2>4 DEF ArchiveOf, PromoteArchive, Goto
  <2>5. CASE PromoteStore(c)
    BY <2>5 DEF PromoteStore, Goto
  <2> QED BY <2>1, <2>2, <2>3, <2>4, <2>5 DEF PromoteOn
<1> HIDE DEF K1, K2, K3
<1>9. PICK k : job' = [job EXCEPT ![c] = k] /\ k.op = job[c].op /\ k.expect = job[c].expect
  BY <1>6, <1>7, <1>8
<1> QED BY <1>3, <1>4, <1>9

\* The steps of a Delete and of a query after their first.
DeleteOn(c) == DeleteVault(c) \/ TombstoneAdd(c) \/ FlushOpen(c) \/ FlushWrite(c) \/ FlushError(c)
QueryOn(c) == QueryFetch(c) \/ QueryMerge(c)

\* They are not a Promote and know nothing of idempotency.
LEMMA OthersGoOn ==
  ASSUME TypeOK, NEW c \in Clients, DeleteOn(c) \/ QueryOn(c)
  PROVE  /\ job'[c] # Nil => job'[c].op # "promote"
         /\ \A d \in Clients \ {c} : job'[d] = job[d]
         /\ UNCHANGED <<idem, acked>>
<1>1. job \in [Clients -> Jobs]  BY DEF TypeOK, Jobs
<1>2. CASE DeleteOn(c)
  <2>1. \E at \in {"delete", "add", "open", "write"} : At(c, "delete", at)
    BY <1>2 DEF DeleteOn, DeleteVault, TombstoneAdd, FlushOpen, FlushWrite, FlushError
  <2>2. job[c] \in DeleteJob /\ job[c].op = "delete"  BY <1>1, <2>1, HasJob
  <2>3. \E at : job' = [job EXCEPT ![c] = [job[c] EXCEPT !.at = at]]
    BY <1>2 DEF DeleteOn, DeleteVault, TombstoneAdd, FlushOpen, FlushWrite, FlushError, Unlock, Goto
  <2>4. \A at : [job[c] EXCEPT !.at = at].op = "delete"  BY <2>2 DEF DeleteJob
  <2>5. UNCHANGED <<idem, acked>>
    BY <1>2 DEF DeleteOn, DeleteVault, TombstoneAdd, FlushOpen, FlushWrite, FlushError, ghosts
  <2> QED BY <1>1, <2>3, <2>4, <2>5
<1>3. CASE QueryOn(c)
  <2>1. \E at \in {"fetch", "merge"} : At(c, "query", at)
    BY <1>3 DEF QueryOn, QueryFetch, QueryMerge
  <2>2. job[c] \in QueryJob /\ job[c].op = "query"  BY <1>1, <2>1, HasJob
  <2> DEFINE s == job[c].scope
             K1 == [job[c] EXCEPT !.at = "merge", !.rows = Listing(s), !.fresh = TRUE]
             K2 == [job[c] EXCEPT !.at = "merge", !.rows = snapshot[s]]
             K3 == [job[c] EXCEPT !.at = "replied", !.rows = Visible(s, job[c].rows),
                                  !.hidden = job[c].hidden \cap gone]
  <2>3. K1.op = "query" /\ K2.op = "query" /\ K3.op = "query"
    BY <2>2 DEF QueryJob
  <2>4. \/ job' = [job EXCEPT ![c] = K1]
        \/ job' = [job EXCEPT ![c] = K2]
        \/ job' = [job EXCEPT ![c] = K3]
    BY <1>3 DEF QueryOn, QueryFetch, QueryMerge
  <2>5. UNCHANGED <<idem, acked>>
    BY <1>3 DEF QueryOn, QueryFetch, QueryMerge, stores, ghosts
  <2> HIDE DEF K1, K2, K3
  <2>6. PICK k : job' = [job EXCEPT ![c] = k] /\ k.op = "query"  BY <2>3, <2>4
  <2> QED BY <1>1, <2>5, <2>6
<1> QED BY <1>2, <1>3

\* The first step of a call, for any of the three operations, and the last.
CallOf(c) ==
  \/ \E in \in Promotions : PromoteCall(c, in)
  \/ \E s \in Scopes, p \in Paths : DeleteCall(c, s, p)
  \/ \E s \in Scopes : QueryCall(c, s)

\* A client's step is one of these.
LEMMA ClientSteps ==
  ASSUME NEW c \in Clients, ClientStep(c)
  PROVE  CallOf(c) \/ PromoteOn(c) \/ PromoteMint(c) \/ DeleteOn(c) \/ QueryOn(c) \/ Done(c)
BY DEF ClientStep, CallOf, PromoteOn, GetOf, ReplaceOf, ArchiveOf, DeleteOn, QueryOn

-----------------------------------------------------------------------------
(* Known keys                                                              *)

\* The cache answers with what was answered, and loses an entry only together with
\* what is expected of it.
ReplayInv ==
  /\ \A k \in DOMAIN idem : idem[k] \in acked[k]
  /\ \A k \in Keys : acked[k] # {} => k \in DOMAIN idem
  /\ ReplayKnown

\* A step of one client that leaves the cache alone.
LEMMA ReplayFrame ==
  ASSUME ReplayInv, NEW c \in Clients, UNCHANGED <<idem, acked>>,
         \A d \in Clients \ {c} : job'[d] = job[d],
         job'[c] # Nil /\ job'[c].op = "promote" /\ job'[c].expect # {} =>
           job'[c].at = "answered" /\ job'[c].res \in job'[c].expect
  PROVE  ReplayInv'
BY DEF ReplayInv, ReplayKnown

\* A result enters the cache, and another may have to leave it.
LEMMA ReplayStore ==
  ASSUME IInv, ReplayInv, NEW c \in Clients, PromoteStore(c)
  PROVE  (\A k \in DOMAIN idem : idem[k] \in acked[k])' /\ (\A k \in Keys : acked[k] # {} => k \in DOMAIN idem)'
<1> DEFINE k == job[c].in.key
           full == Cardinality(DOMAIN idem) >= IdemMax
<1>1. CASE k = NoKey
  BY <1>1 DEF PromoteStore, ReplayInv
<1>2. CASE k # NoKey
  <2>1. PICK evicted \in IF full THEN {{x} : x \in DOMAIN idem} ELSE {{}} :
          /\ idem' = StoreIdempotency(k, job[c].res, evicted)
          /\ acked' = [x \in Keys |->
                IF x = k THEN (acked[k] \ (IF k \in evicted THEN acked[k] ELSE {})) \cup {job[c].res}
                ELSE IF x \in evicted THEN {} ELSE acked[x]]
    BY <1>2 DEF PromoteStore
  <2>2. DOMAIN idem' = (DOMAIN idem \ evicted) \cup {k}
        /\ \A x \in DOMAIN idem' : idem'[x] = IF x = k THEN job[c].res ELSE idem[x]
    BY <2>1 DEF StoreIdempotency
  <2>3. DOMAIN idem \subseteq Keys  BY DEF IInv, TypeOK
  <2>4. k \in Keys
    <3>1. job \in [Clients -> Jobs]  BY DEF IInv, TypeOK, Jobs
    <3>2. job[c] \in PromoteJob  BY <3>1, HasJob DEF PromoteStore
    <3> QED BY <1>2, <3>2 DEF PromoteJob, PromoteInput
  <2> HIDE DEF k, full
  <2>5. \A x \in DOMAIN idem' : idem'[x] \in acked'[x]
    BY <2>1, <2>2, <2>3, <2>4 DEF ReplayInv
  <2>6. \A x \in Keys : acked'[x] # {} => x \in DOMAIN idem'
    BY <2>1, <2>2, <2>4 DEF ReplayInv
  <2> QED BY <2>5, <2>6
<1> QED BY <1>1, <1>2

\* Every step of a client keeps the promise.
LEMMA ReplayClient ==
  ASSUME IInv, ReplayInv, NEW c \in Clients, ClientStep(c)
  PROVE  ReplayInv'
<1>0. TypeOK /\ job \in [Clients -> Jobs]  BY DEF IInv, TypeOK, Jobs
<1>1. ASSUME NEW in \in Promotions, PromoteCall(c, in)  PROVE ReplayInv'
  <2> DEFINE hit == in.key \in DOMAIN idem
             k == [op |-> "promote", at |-> IF hit THEN "answered" ELSE "get",
                   in |-> in, src |-> Nil, id |-> 0, res |-> IF hit THEN idem[in.key] ELSE Nil,
                   expect |-> IF in.key = NoKey THEN {} ELSE acked[in.key]]
  <2>1. job' = [job EXCEPT ![c] = k] /\ UNCHANGED <<idem, acked>>
    BY <1>1 DEF PromoteCall, Begin, stores, ghosts
  <2>2. in.key \in Keys \cup {NoKey}  BY WritesAssumption DEF PromoteInput
  <2>3. k.expect # {} => k.at = "answered" /\ k.res \in k.expect  BY <2>2 DEF ReplayInv
  <2> HIDE DEF k
  <2> QED BY <1>0, <2>1, <2>3, ReplayFrame
<1>2. ASSUME (\E s \in Scopes, p \in Paths : DeleteCall(c, s, p)) \/ (\E s \in Scopes : QueryCall(c, s))
      PROVE  ReplayInv'
  <2>1. PICK k : job' = [job EXCEPT ![c] = k] /\ k.op # "promote"
    <3>1. ASSUME NEW s \in Scopes, NEW p \in Paths, DeleteCall(c, s, p)
          PROVE  \E k : job' = [job EXCEPT ![c] = k] /\ k.op # "promote"
      <4> DEFINE k == [op |-> "delete", at |-> "delete", ref |-> <<s, p>>]
      <4>1. job' = [job EXCEPT ![c] = k]  BY <3>1 DEF DeleteCall, Begin
      <4>2. k.op # "promote"  OBVIOUS
      <4> HIDE DEF k
      <4> QED BY <4>1, <4>2
    <3>2. ASSUME NEW s \in Scopes, QueryCall(c, s)
          PROVE  \E k : job' = [job EXCEPT ![c] = k] /\ k.op # "promote"
      <4> DEFINE k == [op |-> "query", at |-> "fetch", scope |-> s, rows |-> {},
                       fresh |-> FALSE, hidden |-> gone]
      <4>1. job' = [job EXCEPT ![c] = k]  BY <3>2 DEF QueryCall, Begin
      <4>2. k.op # "promote"  OBVIOUS
      <4> HIDE DEF k
      <4> QED BY <4>1, <4>2
    <3> QED BY <1>2, <3>1, <3>2
  <2>2. UNCHANGED <<idem, acked>>  BY <1>2 DEF DeleteCall, QueryCall, stores, ghosts
  <2> QED BY <1>0, <2>1, <2>2, ReplayFrame
<1>3. CASE PromoteOn(c)
  <2>1. job[c].expect = {}
    BY <1>0, <1>3, PromoteGoesOn DEF ReplayInv, ReplayKnown, Finished, PromoteJob
  <2>2. job'[c].expect = {} /\ \A d \in Clients \ {c} : job'[d] = job[d]
    BY <1>0, <1>3, <2>1, PromoteGoesOn
  <2>3. CASE PromoteStore(c)
    <3>1. ReplayKnown'  BY <2>2 DEF ReplayInv, ReplayKnown
    <3> QED BY <2>3, <3>1, ReplayStore DEF ReplayInv
  <2>4. CASE ~PromoteStore(c)
    <3>1. UNCHANGED <<idem, acked>>
      BY <1>3, <2>4 DEF PromoteOn, GetOf, ReplaceOf, ArchiveOf, PromoteGet, PromoteCreate, PromoteReplace,
                        PromoteArchive, stores, ghosts
    <3> QED BY <2>2, <3>1, ReplayFrame
  <2> QED BY <2>3, <2>4
<1>4. CASE DeleteOn(c) \/ QueryOn(c)
  <2>1. /\ job'[c] # Nil => job'[c].op # "promote"
        /\ \A d \in Clients \ {c} : job'[d] = job[d]
        /\ UNCHANGED <<idem, acked>>
    BY <1>0, <1>4, OthersGoOn
  <2> QED BY <2>1, ReplayFrame
<1>5. CASE Done(c)
  <2>1. job' = [job EXCEPT ![c] = Nil] /\ UNCHANGED <<idem, acked>>
    BY <1>5 DEF Done, Return, stores, ghosts
  <2> QED BY <1>0, <2>1, ReplayFrame
<1>6. CASE PromoteMint(c)
  <2>1. UNCHANGED <<idem, acked>>  BY <1>6 DEF PromoteMint
  <2>2. ReplayKnown'
    <3> SUFFICES ASSUME NEW d \in Clients, job'[d] # Nil, job'[d].op = "promote", job'[d].expect # {}
                 PROVE  job'[d].at = "answered" /\ job'[d].res \in job'[d].expect
      BY DEF ReplayKnown
    <3>1. CASE job'[d] = job[d]  BY <3>1 DEF ReplayInv, ReplayKnown
    <3>2. CASE job'[d] # job[d]
      <4>1. /\ job[d] # Nil /\ job[d].op = "promote" /\ job[d].expect = job'[d].expect
            /\ job'[d].res = job[d].res /\ (d # c => job'[d].at = job[d].at) /\ job[c].at = "mint"
        BY <1>0, <1>6, <3>2, MintJobs
      <4> QED BY <4>1 DEF ReplayInv, ReplayKnown
    <3> QED BY <3>1, <3>2
  <2> QED BY <2>1, <2>2 DEF ReplayInv
<1> QED BY <1>1, <1>2, <1>3, <1>4, <1>5, <1>6, ClientSteps DEF CallOf

\* So does every other step.
LEMMA ReplayNext == IInv /\ ReplayInv /\ [Next]_vars => ReplayInv'
<1> SUFFICES ASSUME IInv, ReplayInv, [Next]_vars  PROVE ReplayInv'  OBVIOUS
<1>1. ASSUME NEW c \in Clients, ClientStep(c)  PROVE ReplayInv'
  BY <1>1, ReplayClient
<1>2. UNCHANGED <<job, idem, acked>> => ReplayInv'
  BY DEF ReplayInv, ReplayKnown
<1>3. ASSUME NEW k \in Keys, ExpireIdempotency(k)  PROVE ReplayInv'
  <2>1. idem' = [x \in DOMAIN idem \ {k} |-> idem[x]] /\ acked' = [acked EXCEPT ![k] = {}] /\ job' = job
    BY <1>3 DEF ExpireIdempotency
  <2>2. acked \in [Keys -> SUBSET Result] /\ DOMAIN idem \subseteq Keys  BY DEF IInv, TypeOK
  <2> QED BY <2>1, <2>2 DEF ReplayInv, ReplayKnown
<1>4. CASE Crash
  <2>1. idem' = [k \in {} |-> Nil] /\ acked' = [k \in Keys |-> {}] /\ job' = [c \in Clients |-> Nil]
    BY <1>4 DEF Crash
  <2> QED BY <2>1 DEF ReplayInv, ReplayKnown
<1>5. (\E p \in Paths, id \in 0..MaxMint : Create(p, id)) \/ (\E s \in Scopes, p \in Paths : UpdateBody(s, p))
      \/ (\E s \in Remote : ExpireSnapshot(s)) \/ BodyStep \/ Start \/ UNCHANGED vars
        => UNCHANGED <<job, idem, acked>>
  BY DEF Create, UpdateBody, ExpireSnapshot, BodyStep, FillBody, DropBody, Start, vars, stores, ghosts
<1> QED BY <1>1, <1>2, <1>3, <1>4, <1>5 DEF Next, BodyStep

\* A call with a known key is answered from the cache with a result that was answered
\* for that key, and touches no vault (lookupIdempotency and storeIdempotency).
THEOREM KnownKeysReplayed == Spec => []ReplayKnown
<1>1. Init => ReplayInv
  <2> SUFFICES ASSUME Init  PROVE ReplayInv  OBVIOUS
  <2>1. idem = [k \in {} |-> Nil] /\ acked = [k \in Keys |-> {}] /\ job = [c \in Clients |-> Nil]
    BY DEF Init
  <2> QED BY <2>1 DEF ReplayInv, ReplayKnown
<1>2. (IInv /\ DownInv) /\ ReplayInv /\ [Next]_vars => ReplayInv'  BY ReplayNext
<1>3. ReplayInv => ReplayKnown  BY DEF ReplayInv
<1> QED BY <1>1, <1>2, <1>3, WritesInv, PTL DEF Spec

-----------------------------------------------------------------------------
(* Hidden rows                                                             *)

\* A note that was deleted and not created again is in no vault.
GoneInv == \A s \in Scopes, p \in Paths : <<s, p>> \in gone => vault[s][Live(p)] = Nil

\* Of the rows a query has fetched, and of those in a summary cache, the ones deleted
\* since have their tombstone in memory, whether or not the file could be written.
RowsInv ==
  /\ \A c \in Clients : job[c] # Nil /\ job[c].op = "query" /\ job[c].at = "merge" =>
       \A p \in job[c].rows : <<job[c].scope, p>> \in gone => <<job[c].scope, p>> \in tomb
  /\ \A s \in Remote : snapshot[s] # Nil =>
       \A p \in snapshot[s] : <<s, p>> \in gone => <<s, p>> \in tomb
  /\ NoGhostRow

\* A note is written where none is gone.
LEMMA GonePut ==
  ASSUME vault \in Vaults, GoneInv, NEW s \in Scopes, NEW p \in Paths, NEW n \in Notes,
         Put(s, Live(p), n), gone' \subseteq gone, n = Nil \/ <<s, p>> \notin gone'
  PROVE  GoneInv'
<1>1. \A x \in Paths : Live(x) \in Place /\ (Live(x) = Live(p) => x = p)
  BY DEF Live, Place, Shelf
<1>2. vault' = [vault EXCEPT ![s] = [vault[s] EXCEPT ![Live(p)] = n]]  BY DEF Put
<1>3. \A t \in Scopes, x \in Paths :
        vault'[t][Live(x)] = IF t = s /\ x = p THEN n ELSE vault[t][Live(x)]
  BY <1>1, <1>2 DEF Vaults
<1> QED BY <1>3 DEF GoneInv

\* Steps that answer only Deletes with a tombstone in memory.
LEMMA RowsFrame ==
  ASSUME RowsInv, NEW c \in Clients,
         \A d \in Clients \ {c} : job'[d] = job[d],
         gone' \subseteq gone \cup tomb', tomb \subseteq tomb',
         \A s \in Remote : snapshot'[s] \in {Nil, snapshot[s]},
         job'[c] # Nil /\ job'[c].op = "query" /\ job'[c].at = "merge" =>
           \A p \in job'[c].rows : <<job'[c].scope, p>> \in gone' => <<job'[c].scope, p>> \in tomb',
         job'[c] # Nil /\ job'[c].op = "query" /\ job'[c].at = "replied" =>
           \A p \in job'[c].rows : <<job'[c].scope, p>> \notin job'[c].hidden
  PROVE  RowsInv'
<1>1. \A d \in Clients \ {c} : job'[d] # Nil /\ job'[d].op = "query" /\ job'[d].at = "merge" =>
        \A p \in job'[d].rows : <<job'[d].scope, p>> \in gone' => <<job'[d].scope, p>> \in tomb'
  BY DEF RowsInv
<1>2. \A s \in Remote : snapshot'[s] # Nil =>
        \A p \in snapshot'[s] : <<s, p>> \in gone' => <<s, p>> \in tomb'
  BY DEF RowsInv
<1>3. NoGhostRow'  BY DEF RowsInv, NoGhostRow
<1> QED BY <1>1, <1>2, <1>3 DEF RowsInv

\* The same where no client takes a step.
LEMMA RowsQuiet ==
  ASSUME RowsInv, UNCHANGED <<job, tomb>>, gone' \subseteq gone,
         \A s \in Remote : snapshot'[s] \in {Nil, snapshot[s]}
  PROVE  RowsInv'
BY DEF RowsInv, NoGhostRow

\* A Promote writes where it has looked, and asks for no rows.
LEMMA PromoteRows ==
  ASSUME IInv, GoneInv, RowsInv, NEW c \in Clients, PromoteOn(c)
  PROVE  GoneInv' /\ RowsInv'
<1>0. TypeOK /\ vault \in Vaults /\ job \in [Clients -> Jobs]
  BY VaultType DEF IInv, TypeOK, Jobs
<1>1. job[c] \in PromoteJob /\ job'[c].op = "promote" /\ \A d \in Clients \ {c} : job'[d] = job[d]
  BY <1>0, PromoteGoesOn
<1>2. UNCHANGED <<snapshot, tomb>>
  BY DEF PromoteOn, GetOf, ReplaceOf, ArchiveOf, PromoteGet, PromoteCreate, PromoteReplace, PromoteArchive, PromoteStore, stores
<1> DEFINE in == job[c].in
<1>3. in.from \in Scopes /\ in.to \in Scopes /\ in.path \in Paths
  BY <1>1 DEF PromoteJob, PromoteInput
<1>4. At(c, "promote", "create") \/ At(c, "promote", "replace") => job[c].src \in Note
  BY DEF IInv, CopyInv, At
<1>5. gone' \subseteq gone
  BY DEF PromoteOn, GetOf, ReplaceOf, ArchiveOf, PromoteGet, PromoteCreate, PromoteReplace, PromoteArchive, PromoteStore, ghosts
<1>6. GoneInv'
  <2>1. CASE PromoteCreate(c) /\ ~Has(in.to, Live(in.path))
    <3> DEFINE id == IF in.to \in Remote THEN minted + 1 ELSE job[c].id
               n == Copy(job[c].src, id)
    <3>1. At(c, "promote", "create") /\ IF in.to \in Remote THEN MintOne ELSE UNCHANGED minted
      BY <2>1 DEF PromoteCreate
    <3>2. id \in 0..MaxMint  BY <1>0, <1>1, <3>1, Minted DEF PromoteJob
    <3>3. n \in Notes  BY <1>4, <3>1, <3>2 DEF Copy, Note, Notes
    <3>4. Put(in.to, Live(in.path), n) /\ gone' = gone \ {<<in.to, in.path>>}
      BY <2>1 DEF PromoteCreate
    <3> HIDE DEF n, in
    <3> QED BY <1>0, <1>3, <3>3, <3>4, GonePut
  <2>2. CASE ReplaceOf(c) /\ vault[in.to][Live(in.path)] # Nil
    <3>1. PICK own \in BOOLEAN : PromoteReplace(c, own)  BY <2>2 DEF ReplaceOf
    <3> DEFINE old == vault[in.to][Live(in.path)]
               n == [id |-> IF own THEN old.id ELSE job[c].id, text |-> job[c].src.text]
    <3>2. At(c, "promote", "replace") /\ Put(in.to, Live(in.path), n)  BY <2>2, <3>1 DEF PromoteReplace
    <3>3. old \in Note  BY <1>0, <1>3, <2>2, VaultType DEF Notes
    <3>4. n \in Notes  BY <1>1, <1>4, <3>2, <3>3 DEF Note, Notes, PromoteJob
    <3>5. <<in.to, in.path>> \notin gone  BY <1>3, <2>2 DEF GoneInv
    <3> HIDE DEF n, in
    <3> QED BY <1>0, <1>3, <1>5, <3>2, <3>4, <3>5, GonePut
  <2>3. CASE ArchiveOf(c)
    <3>1. \A x \in Paths : Live(x) \in Place /\ ArchivePath(x) \in Place
                           /\ \A y \in Paths : Live(x) # ArchivePath(y)
      BY Places
    <3>2. \/ vault' = [vault EXCEPT ![in.from] =
                 [[@ EXCEPT ![Live(in.path)] = Nil] EXCEPT ![ArchivePath(in.path)] = vault[in.from][Live(in.path)]]]
          \/ UNCHANGED vault
      <4>1. \/ vault' = [vault EXCEPT ![in.from][Live(in.path)] = Nil,
                                      ![in.from][ArchivePath(in.path)] = vault[in.from][Live(in.path)]]
            \/ UNCHANGED vault
        BY <2>3 DEF ArchiveOf, PromoteArchive
      <4> QED BY <1>0, <1>3, <3>1, <4>1 DEF Vaults
    <3> HIDE DEF in
    <3>3. \A s \in Scopes, x \in Paths : vault'[s][Live(x)] \in {vault[s][Live(x)], Nil}
      BY <1>0, <1>3, <3>1, <3>2 DEF Vaults
    <3> QED BY <1>5, <3>3 DEF GoneInv
  <2>4. CASE ~(PromoteCreate(c) /\ ~Has(in.to, Live(in.path))) /\ ~ArchiveOf(c)
             /\ ~(ReplaceOf(c) /\ vault[in.to][Live(in.path)] # Nil)
    <3>1. UNCHANGED vault
      BY <2>4 DEF PromoteOn, GetOf, ReplaceOf, PromoteGet, PromoteCreate, PromoteReplace, PromoteStore, Has, stores
    <3> QED BY <1>5, <3>1 DEF GoneInv
  <2> QED BY <2>1, <2>2, <2>3, <2>4
<1>7. RowsInv'  BY <1>1, <1>2, <1>5, RowsFrame
<1> QED BY <1>6, <1>7

\* A Delete is answered for a path where there is no note, and its tombstone is in
\* memory by then.
LEMMA DeleteRows ==
  ASSUME IInv, GoneInv, RowsInv, NEW c \in Clients, DeleteOn(c)
  PROVE  GoneInv' /\ RowsInv'
<1>0. TypeOK /\ vault \in Vaults /\ job \in [Clients -> Jobs]
  BY VaultType DEF IInv, TypeOK, Jobs
<1>1. \E at \in {"delete", "add", "open", "write"} : At(c, "delete", at)
  BY DEF DeleteOn, DeleteVault, TombstoneAdd, FlushOpen, FlushWrite, FlushError
<1>2. job[c] \in DeleteJob /\ job[c].op = "delete"  BY <1>0, <1>1, HasJob
<1>3. PICK at \in DeleteAt : job' = [job EXCEPT ![c] = [job[c] EXCEPT !.at = at]]
  BY DEF DeleteOn, DeleteVault, TombstoneAdd, FlushOpen, FlushWrite, FlushError, Unlock, Goto, DeleteAt, Finished
<1>4. job'[c].op = "delete" /\ \A d \in Clients \ {c} : job'[d] = job[d]
  BY <1>0, <1>2, <1>3 DEF DeleteJob
<1> DEFINE r == job[c].ref
<1>5. r[1] \in Scopes /\ r[2] \in Paths /\ r = <<r[1], r[2]>>  BY <1>2 DEF DeleteJob, Ref
<1>6. CASE DeleteVault(c)
  <2>1. UNCHANGED <<tomb, gone>>  BY <1>6 DEF DeleteVault, ghosts
  <2>2. \/ Put(r[1], Live(r[2]), Nil) /\ snapshot' = [x \in Remote |-> IF x = r[1] THEN Nil ELSE snapshot[x]]
        \/ UNCHANGED <<vault, snapshot>>
    BY <1>6 DEF DeleteVault
  <2> HIDE DEF r
  <2>3. GoneInv'
    <3>1. Put(r[1], Live(r[2]), Nil) => GoneInv'  BY <1>0, <1>5, <2>1, GonePut DEF Notes
    <3> QED BY <2>1, <2>2, <3>1 DEF GoneInv
  <2>4. \A s \in Remote : snapshot'[s] \in {Nil, snapshot[s]}  BY <2>2
  <2>5. RowsInv'  BY <1>4, <2>1, <2>4, RowsFrame
  <2> QED BY <2>3, <2>5
<1>7. CASE TombstoneAdd(c) \/ FlushOpen(c)
  <2>1. tomb \subseteq tomb' /\ UNCHANGED <<vault, snapshot, gone>>
    BY <1>7 DEF TombstoneAdd, FlushOpen, ghosts
  <2>2. RowsInv'  BY <1>4, <2>1, RowsFrame
  <2> QED BY <2>1, <2>2 DEF GoneInv
<1>8. CASE FlushWrite(c) \/ FlushError(c)
  <2>1. UNCHANGED <<vault, snapshot, tomb>>
        /\ gone' = gone \cup (IF Has(r[1], Live(r[2])) THEN {} ELSE {r})
    BY <1>8 DEF FlushWrite, FlushError, Unlock
  <2>2. r \in tomb
    BY <1>2, <1>8 DEF FlushWrite, FlushError, IInv, FlushInv, At
  <2> HIDE DEF r
  <2>3. GoneInv'  BY <1>5, <2>1 DEF GoneInv, Has
  <2>4. RowsInv'  BY <1>4, <2>1, <2>2, RowsFrame
  <2> QED BY <2>3, <2>4
<1> QED BY <1>6, <1>7, <1>8 DEF DeleteOn

\* A query fetches rows that are not gone, or rows of the cache, and what remains of
\* them is not hidden.
LEMMA QueryRows ==
  ASSUME IInv, GoneInv, RowsInv, NEW c \in Clients, QueryOn(c)
  PROVE  GoneInv' /\ RowsInv'
<1>0. TypeOK /\ vault \in Vaults /\ job \in [Clients -> Jobs]
  BY VaultType DEF IInv, TypeOK, Jobs
<1>1. \E at \in {"fetch", "merge"} : At(c, "query", at)  BY DEF QueryOn, QueryFetch, QueryMerge
<1>2. job[c] \in QueryJob /\ job[c].op = "query" /\ job[c] # Nil  BY <1>0, <1>1, HasJob DEF At
<1> DEFINE s == job[c].scope
<1>3. s \in Scopes /\ job[c].rows \subseteq Paths  BY <1>2 DEF QueryJob
<1>4. UNCHANGED <<vault, gone, tomb>>
  BY DEF QueryOn, QueryFetch, QueryMerge, stores, ghosts
<1>5. GoneInv'  BY <1>4 DEF GoneInv
<1>6. CASE QueryFetch(c)
  <2> DEFINE k1 == [job[c] EXCEPT !.at = "merge", !.rows = Listing(s), !.fresh = TRUE]
             k2 == [job[c] EXCEPT !.at = "merge", !.rows = snapshot[s]]
  <2>1. snapshot' = snapshot  BY <1>6 DEF QueryFetch, stores
  <2>2. \/ job' = [job EXCEPT ![c] = k1]
        \/ s \in Remote /\ snapshot[s] # Nil /\ job' = [job EXCEPT ![c] = k2]
    BY <1>6 DEF QueryFetch
  <2>3. /\ k1.at = "merge" /\ k1.scope = s /\ k1.rows = Listing(s)
        /\ k2.at = "merge" /\ k2.scope = s /\ k2.rows = snapshot[s]
    BY <1>2 DEF QueryJob
  <2>4. \A p \in Listing(s) : <<s, p>> \notin gone  BY <1>3 DEF Listing, Has, GoneInv
  <2>5. s \in Remote /\ snapshot[s] # Nil => \A p \in snapshot[s] : <<s, p>> \in gone => <<s, p>> \in tomb
    BY DEF RowsInv
  <2> HIDE DEF k1, k2, s
  <2>6. PICK k : /\ job' = [job EXCEPT ![c] = k] /\ k.at = "merge" /\ k.scope = s
                 /\ \A p \in k.rows : <<s, p>> \in gone => <<s, p>> \in tomb
    BY <2>2, <2>3, <2>4, <2>5
  <2>7. job'[c] = k /\ \A d \in Clients \ {c} : job'[d] = job[d]  BY <1>0, <2>6
  <2> QED BY <1>4, <1>5, <2>1, <2>6, <2>7, RowsFrame
<1>7. CASE QueryMerge(c)
  <2> DEFINE k == [job[c] EXCEPT !.at = "replied", !.rows = Visible(s, job[c].rows),
                                 !.hidden = job[c].hidden \cap gone]
  <2>1. snapshot' = [x \in Remote |-> IF x = s /\ job[c].fresh THEN job[c].rows ELSE snapshot[x]]
        /\ job' = [job EXCEPT ![c] = k]
    BY <1>7 DEF QueryMerge
  <2>2. k.at = "replied" /\ k.scope = s /\ k.rows = Visible(s, job[c].rows) /\ k.hidden \subseteq gone
        /\ k.op = "query"
    BY <1>2 DEF QueryJob
  <2>3. \A p \in job[c].rows : <<s, p>> \in gone => <<s, p>> \in tomb
    BY <1>2, <1>7 DEF RowsInv, QueryMerge, At
  <2>4. \A p \in k.rows : <<s, p>> \notin k.hidden  BY <2>2, <2>3 DEF Visible
  <2> HIDE DEF k, s
  <2>5. job'[c] = k /\ \A d \in Clients \ {c} : job'[d] = job[d]  BY <1>0, <2>1
  <2>6. \A x \in Remote : snapshot'[x] # Nil =>
          \A p \in snapshot'[x] : <<x, p>> \in gone' => <<x, p>> \in tomb'
    BY <1>4, <2>1, <2>3 DEF RowsInv
  <2>7. NoGhostRow'  BY <2>2, <2>4, <2>5 DEF RowsInv, NoGhostRow
  <2>8. \A d \in Clients : job'[d] # Nil /\ job'[d].op = "query" /\ job'[d].at = "merge" =>
          \A p \in job'[d].rows : <<job'[d].scope, p>> \in gone' => <<job'[d].scope, p>> \in tomb'
    BY <1>4, <2>2, <2>5 DEF RowsInv
  <2> QED BY <1>5, <2>6, <2>7, <2>8 DEF RowsInv
<1> QED BY <1>6, <1>7 DEF QueryOn

\* A Promote that mints an id asks for no rows either.
LEMMA MintRows ==
  ASSUME IInv, GoneInv, RowsInv, NEW c \in Clients, PromoteMint(c)
  PROVE  GoneInv' /\ RowsInv'
<1>1. UNCHANGED <<vault, snapshot, tomb, gone>>  BY DEF PromoteMint
<1>2. \A d \in Clients : job'[d] = job[d] \/ job'[d].op = "promote"  BY MintJobs DEF IInv
<1>3. NoGhostRow'  BY <1>2 DEF RowsInv, NoGhostRow
<1> QED BY <1>1, <1>2, <1>3 DEF GoneInv, RowsInv

\* Every step of a client.
LEMMA RowsClient ==
  ASSUME IInv, GoneInv, RowsInv, NEW c \in Clients, ClientStep(c)
  PROVE  GoneInv' /\ RowsInv'
<1>0. job \in [Clients -> Jobs]  BY DEF IInv, TypeOK, Jobs
<1>1. CASE CallOf(c) \/ Done(c)
  <2>1. UNCHANGED <<vault, snapshot, tomb, gone>>
    BY <1>1 DEF CallOf, PromoteCall, DeleteCall, QueryCall, Done, stores, ghosts
  <2>2. \A d \in Clients \ {c} : job'[d] = job[d]
    BY <1>0, <1>1 DEF CallOf, PromoteCall, DeleteCall, QueryCall, Begin, Done, Return
  <2>3. job'[c] # Nil /\ job'[c].op = "query" => job'[c].at = "fetch"
    <3>1. CASE Done(c)  BY <1>0, <3>1 DEF Done, Return
    <3>2. ASSUME NEW in \in Promotions, PromoteCall(c, in)  PROVE job'[c].op = "promote"
      BY <1>0, <3>2 DEF PromoteCall, Begin
    <3>3. ASSUME NEW s \in Scopes, NEW p \in Paths, DeleteCall(c, s, p)  PROVE job'[c].op = "delete"
      BY <1>0, <3>3 DEF DeleteCall, Begin
    <3>4. ASSUME NEW s \in Scopes, QueryCall(c, s)  PROVE job'[c].at = "fetch"
      BY <1>0, <3>4 DEF QueryCall, Begin
    <3> QED BY <1>1, <3>1, <3>2, <3>3, <3>4 DEF CallOf
  <2>4. RowsInv'  BY <2>1, <2>2, <2>3, RowsFrame
  <2> QED BY <2>1, <2>4 DEF GoneInv
<1> QED BY <1>1, PromoteRows, MintRows, DeleteRows, QueryRows, ClientSteps

\* Every step.
LEMMA RowsNext == IInv /\ DownInv /\ GoneInv /\ RowsInv /\ [Next]_vars => GoneInv' /\ RowsInv'
<1> SUFFICES ASSUME IInv, DownInv, GoneInv, RowsInv, [Next]_vars  PROVE GoneInv' /\ RowsInv'  OBVIOUS
<1>0. TypeOK /\ vault \in Vaults /\ Local \in Scopes  BY VaultType, WritesAssumption DEF IInv
<1>1. ASSUME NEW c \in Clients, ClientStep(c)  PROVE GoneInv' /\ RowsInv'
  BY <1>1, RowsClient
<1>2. ASSUME NEW p \in Paths, NEW id \in 0..MaxMint, Create(p, id)  PROVE GoneInv' /\ RowsInv'
  <2>1. MintOne /\ Put(Local, Live(p), [id |-> id, text |-> minted + 1])
        /\ gone' = gone \ {<<Local, p>>} /\ UNCHANGED <<snapshot, tomb, job>>
    BY <1>2 DEF Create
  <2>2. [id |-> id, text |-> minted + 1] \in Notes  BY <1>0, <2>1, Minted DEF Note, Notes
  <2>3. GoneInv'  BY <1>0, <2>1, <2>2, GonePut
  <2> QED BY <2>1, <2>3, RowsQuiet
<1>3. ASSUME NEW s \in Scopes, NEW p \in Paths, UpdateBody(s, p)  PROVE GoneInv' /\ RowsInv'
  <2> DEFINE n == [vault[s][Live(p)] EXCEPT !.text = minted + 1]
  <2>1. MintOne /\ Has(s, Live(p)) /\ Put(s, Live(p), n) /\ UNCHANGED <<snapshot, tomb, job, gone>>
    BY <1>3 DEF UpdateBody, ghosts
  <2>2. vault[s][Live(p)] \in Note  BY <1>0, <2>1, VaultType DEF Has, Notes
  <2>3. n \in Notes  BY <1>0, <2>1, <2>2, Minted DEF Note, Notes
  <2>4. <<s, p>> \notin gone  BY <2>1 DEF GoneInv, Has
  <2> HIDE DEF n
  <2>5. GoneInv'  BY <1>0, <2>1, <2>3, <2>4, GonePut
  <2> QED BY <2>1, <2>5, RowsQuiet
<1>4. ASSUME NEW s \in Remote, ExpireSnapshot(s)  PROVE GoneInv' /\ RowsInv'
  <2>1. snapshot' = [snapshot EXCEPT ![s] = Nil] /\ UNCHANGED <<vault, tomb, job, gone>>
    BY <1>4 DEF ExpireSnapshot, ghosts
  <2>2. \A x \in Remote : snapshot'[x] \in {Nil, snapshot[x]}
    BY <1>0, <2>1 DEF TypeOK
  <2> QED BY <2>1, <2>2, RowsQuiet DEF GoneInv
<1>5. CASE Crash
  <2>1. job' = [c \in Clients |-> Nil] /\ snapshot' = [s \in Remote |-> Nil] /\ UNCHANGED <<vault, gone>>
    BY <1>5 DEF Crash
  <2>2. RowsInv'  BY <2>1 DEF RowsInv, NoGhostRow
  <2> QED BY <2>1, <2>2 DEF GoneInv
<1>6. CASE (\E k \in Keys : ExpireIdempotency(k)) \/ BodyStep \/ UNCHANGED vars
  <2>1. UNCHANGED <<vault, snapshot, tomb, job, gone>>
    BY <1>6 DEF ExpireIdempotency, BodyStep, FillBody, DropBody, vars, stores, ghosts
  <2> QED BY <2>1, RowsQuiet DEF GoneInv
<1>7. CASE Start
  <2>1. ~up /\ UNCHANGED <<vault, snapshot, job, gone>>  BY <1>7 DEF Start, ghosts
  <2>2. RowsInv'  BY <2>1 DEF DownInv, RowsInv, NoGhostRow
  <2> QED BY <2>1, <2>2 DEF GoneInv
<1> QED BY <1>1, <1>2, <1>3, <1>4, <1>5, <1>6, <1>7 DEF Next, BodyStep

\* A query that begins after a Delete was answered does not list the note, whether its
\* rows come from the vault or from a summary cache filled before the Delete, and also
\* where the tombstone file could not be written (Query and Delete of federation.go).
THEOREM DeletedNotesHidden == Spec => []NoGhostRow
<1>1. Init => GoneInv /\ RowsInv
  <2> SUFFICES ASSUME Init  PROVE GoneInv /\ RowsInv  OBVIOUS
  <2>1. gone = {} /\ job = [c \in Clients |-> Nil] /\ snapshot = [s \in Remote |-> Nil]
    BY DEF Init
  <2> QED BY <2>1 DEF GoneInv, RowsInv, NoGhostRow
<1>2. (IInv /\ DownInv) /\ (GoneInv /\ RowsInv) /\ [Next]_vars => (GoneInv /\ RowsInv)'
  BY RowsNext
<1>3. GoneInv /\ RowsInv => NoGhostRow  BY DEF RowsInv
<1> QED BY <1>1, <1>2, <1>3, WritesInv, PTL DEF Spec

-----------------------------------------------------------------------------
(* NoteIDs                                                                 *)

\* A Promote that has minted the id of its copy and has not written it.
Holds(c) == job[c] # Nil /\ job[c].op = "promote" /\ job[c].at \in {"create", "replace"}

\* NoteIDs are minted in order; the one a Promote will write has no note yet, and no
\* other Promote will write it, but for the ids that calls share through a cached note.
MintedInv == \A s \in Scopes, a \in Place : Has(s, a) => vault[s][a].id <= minted
HeldInv ==
  /\ \A c \in Clients : Holds(c) =>
       /\ job[c].id \in 1..minted
       /\ job[c].id \notin aliased =>
            \A s \in Scopes, a \in Place : Has(s, a) => vault[s][a].id # job[c].id
  /\ \A c, d \in Clients : c # d /\ Holds(c) /\ Holds(d) /\ job[c].id = job[d].id =>
       job[c].id \in aliased
AliasInv == \A i \in aliased : i \in Nat /\ i <= minted

IdInv == MintedInv /\ UniqueIDs /\ HeldInv /\ AliasInv

\* One place gets a note whose id no other place has, or none.
LEMMA IdVault ==
  ASSUME vault \in Vaults, minted \in Nat, minted' \in Nat, minted <= minted', MintedInv, UniqueIDs,
         aliased' = aliased,
         NEW s \in Scopes, NEW pl \in Place, NEW n \in Notes, Put(s, pl, n),
         n # Nil => /\ n.id <= minted'
                    /\ \A t \in Scopes, a \in Place :
                         <<t, a>> # <<s, pl>> /\ Has(t, a) /\ n.id \notin {0} \cup aliased => vault[t][a].id # n.id
  PROVE  /\ MintedInv' /\ UniqueIDs'
         /\ \A t \in Scopes, a \in Place : vault'[t][a] = IF <<t, a>> = <<s, pl>> THEN n ELSE vault[t][a]
<1>1. vault' = [vault EXCEPT ![s] = [vault[s] EXCEPT ![pl] = n]]  BY DEF Put
<1>2. \A t \in Scopes, a \in Place : vault'[t][a] = IF <<t, a>> = <<s, pl>> THEN n ELSE vault[t][a]
  BY <1>1 DEF Vaults
<1>3. \A t \in Scopes, a \in Place : Has(t, a) => vault[t][a].id \in Nat
  BY DEF Vaults, Notes, Note, Has
<1>4. MintedInv'  BY <1>2, <1>3 DEF MintedInv, Has
<1>5. UniqueIDs'  BY <1>2 DEF UniqueIDs, Has
<1> QED BY <1>2, <1>4, <1>5

\* Nobody takes an id, and no note gets an id held by a call other than c.
LEMMA HeldFrame ==
  ASSUME HeldInv, minted \in Nat, minted' \in Nat, minted <= minted', aliased' = aliased, NEW c \in Clients,
         \A d \in Clients \ {c} : job'[d] = job[d],
         Holds(c)' => Holds(c) /\ job'[c].id = job[c].id,
         \A d \in Clients : Holds(d)' =>
           job[d].id \in aliased \/ \A s \in Scopes, a \in Place : Has(s, a)' => vault'[s][a].id # job[d].id
  PROVE  HeldInv'
<1>1. \A d \in Clients : Holds(d)' => Holds(d) /\ job'[d].id = job[d].id  BY DEF Holds
<1>2. \A d \in Clients : Holds(d)' => job'[d].id \in 1..minted'  BY <1>1 DEF HeldInv
<1> QED BY <1>1, <1>2 DEF HeldInv

\* A step in which no client takes part.
LEMMA HeldQuiet ==
  ASSUME HeldInv, minted \in Nat, minted' \in Nat, minted <= minted', job' = job, aliased' = aliased,
         \A d \in Clients : Holds(d) =>
           job[d].id \in aliased \/ \A s \in Scopes, a \in Place : Has(s, a)' => vault'[s][a].id # job[d].id
  PROVE  HeldInv'
<1>1. \A d \in Clients : Holds(d)' => Holds(d) /\ job'[d].id = job[d].id  BY DEF Holds
<1>2. \A d \in Clients : Holds(d)' => job'[d].id \in 1..minted'  BY <1>1 DEF HeldInv
<1>3. \A d \in Clients : Holds(d) <=> Holds(d)'  BY DEF Holds
<1> QED BY <1>1, <1>2, <1>3 DEF HeldInv

\* Notes stay as they are.
LEMMA IdSame ==
  ASSUME IdInv, minted \in Nat, minted' \in Nat, minted <= minted', UNCHANGED <<vault, aliased>>, vault \in Vaults,
         NEW c \in Clients, \A d \in Clients \ {c} : job'[d] = job[d],
         Holds(c)' => Holds(c) /\ job'[c].id = job[c].id
  PROVE  IdInv'
<1>1. \A s \in Scopes, a \in Place : Has(s, a) => vault[s][a].id \in Nat
  BY DEF Vaults, Notes, Note, Has
<1>2. MintedInv'  BY <1>1 DEF IdInv, MintedInv, Has
<1>3. UniqueIDs'  BY DEF IdInv, UniqueIDs, Has
<1>4. \A d \in Clients : Holds(d)' => Holds(d)  BY DEF Holds
<1>5. HeldInv'
  <2>1. \A d \in Clients : Holds(d)' =>
          job[d].id \in aliased \/ \A s \in Scopes, a \in Place : Has(s, a)' => vault'[s][a].id # job[d].id
    BY <1>4 DEF IdInv, HeldInv, Has
  <2> QED BY <2>1, HeldFrame DEF IdInv
<1>6. AliasInv'  BY DEF IdInv, AliasInv
<1> QED BY <1>2, <1>3, <1>5, <1>6 DEF IdInv

\* The types that these proofs use.
LEMMA IdTypes ==
  ASSUME IInv
  PROVE  /\ TypeOK /\ vault \in Vaults /\ job \in [Clients -> Jobs] /\ minted \in Nat
         /\ MintOne => minted' = minted + 1 /\ minted' \in Nat /\ minted + 1 \in 1..MaxMint
         /\ \A s \in Scopes, a \in Place : vault[s][a] \in Notes
         /\ \A s \in Scopes, a \in Place : Has(s, a) => vault[s][a] \in Note /\ vault[s][a].id \in Nat
<1>1. TypeOK /\ vault \in Vaults /\ job \in [Clients -> Jobs] /\ minted \in Nat
  BY VaultType DEF IInv, TypeOK, Jobs
<1>2. MintOne => minted' = minted + 1 /\ minted' \in Nat /\ minted + 1 \in 1..MaxMint
  BY <1>1, Minted DEF MintOne
<1>3. \A s \in Scopes, a \in Place : vault[s][a] \in Notes  BY <1>1 DEF Vaults
<1>4. \A s \in Scopes, a \in Place : Has(s, a) => vault[s][a] \in Note /\ vault[s][a].id \in Nat
  BY <1>3 DEF Has, Notes, Note
<1> QED BY <1>1, <1>2, <1>3, <1>4

\* An id is minted: no note has it, and the calls that get it from each other are on
\* record.
LEMMA MintIds ==
  ASSUME IInv, IdInv, NEW c \in Clients, PromoteMint(c)
  PROVE  IdInv'
<1>0. TypeOK /\ vault \in Vaults /\ minted \in Nat  BY IdTypes
<1>1. vault' = vault /\ minted' = minted + 1 /\ minted' \in Nat
  BY <1>0 DEF PromoteMint, MintOne
<1>2. aliased \subseteq aliased' /\ aliased' \subseteq aliased \cup {minted + 1}  BY <1>0, MintJobs
<1>3. \A s \in Scopes, a \in Place : Has(s, a) => vault[s][a].id \in Nat /\ vault[s][a].id <= minted
  BY IdTypes DEF IdInv, MintedInv
<1>4. MintedInv'  BY <1>0, <1>1, <1>3 DEF MintedInv, Has
<1>5. UniqueIDs'  BY <1>1, <1>2 DEF IdInv, UniqueIDs, Has
<1>6. AliasInv'  BY <1>0, <1>1, <1>2 DEF IdInv, AliasInv
<1>7. \A d \in Clients : Holds(d)' =>
        \/ d # c /\ Holds(d) /\ job'[d].id = job[d].id /\ job'[d] = job[d]
        \/ job'[d].id = minted + 1 /\ (d # c => minted + 1 \in aliased')
  <2> SUFFICES ASSUME NEW d \in Clients, Holds(d)'
               PROVE  \/ d # c /\ Holds(d) /\ job'[d].id = job[d].id /\ job'[d] = job[d]
                      \/ job'[d].id = minted + 1 /\ (d # c => minted + 1 \in aliased')
    OBVIOUS
  <2>1. CASE d # c /\ job'[d] = job[d]  BY <2>1 DEF Holds
  <2>2. CASE ~(d # c /\ job'[d] = job[d])  BY <1>0, <2>2, MintJobs
  <2> QED BY <2>1, <2>2
<1>8. \A d \in Clients : Holds(d)' =>
        /\ job'[d].id \in 1..minted'
        /\ job'[d].id \notin aliased' =>
             \A s \in Scopes, a \in Place : Has(s, a)' => vault'[s][a].id # job'[d].id
  <2> SUFFICES ASSUME NEW d \in Clients, Holds(d)'
               PROVE  /\ job'[d].id \in 1..minted'
                      /\ job'[d].id \notin aliased' =>
                           \A s \in Scopes, a \in Place : Has(s, a)' => vault'[s][a].id # job'[d].id
    OBVIOUS
  <2>1. CASE d # c /\ Holds(d) /\ job'[d].id = job[d].id
    BY <1>0, <1>1, <1>2, <2>1 DEF IdInv, HeldInv, Has
  <2>2. CASE job'[d].id = minted + 1
    BY <1>0, <1>1, <1>3, <2>2 DEF Has
  <2> QED BY <1>7, <2>1, <2>2
<1>9. \A d, e \in Clients : d # e /\ Holds(d)' /\ Holds(e)' /\ job'[d].id = job'[e].id =>
        job'[d].id \in aliased'
  <2> SUFFICES ASSUME NEW d \in Clients, NEW e \in Clients, d # e, Holds(d)', Holds(e)', job'[d].id = job'[e].id
               PROVE  job'[d].id \in aliased'
    OBVIOUS
  <2>1. CASE d # c /\ Holds(d) /\ job'[d].id = job[d].id
    <3>1. job[d].id \in 1..minted  BY <2>1 DEF IdInv, HeldInv
    <3>2. job'[e].id # minted + 1  BY <1>0, <2>1, <3>1
    <3>3. Holds(e) /\ job'[e].id = job[e].id  BY <1>7, <3>2
    <3> QED BY <1>2, <2>1, <3>3 DEF IdInv, HeldInv
  <2>2. CASE job'[d].id = minted + 1 /\ (d # c => minted + 1 \in aliased')
    <3>1. CASE d # c  BY <2>2, <3>1
    <3>2. CASE d = c
      <4>1. ~(Holds(e) /\ job'[e].id = job[e].id)
        <5>1. Holds(e) => job[e].id \in 1..minted  BY DEF IdInv, HeldInv
        <5> QED BY <1>0, <2>2, <5>1
      <4>2. e # c  BY <3>2
      <4> QED BY <1>7, <2>2, <4>1, <4>2
    <3> QED BY <3>1, <3>2
  <2> QED BY <1>7, <2>1, <2>2
<1> QED BY <1>4, <1>5, <1>6, <1>8, <1>9 DEF IdInv, HeldInv

\* Promote creates its copy under the id it holds, or a server does under one of its own.
LEMMA CreateIds ==
  ASSUME IInv, IdInv, NEW c \in Clients, PromoteCreate(c)
  PROVE  IdInv'
<1>0. TypeOK /\ vault \in Vaults /\ job \in [Clients -> Jobs] /\ minted \in Nat
  BY IdTypes
<1>1. At(c, "promote", "create") /\ aliased' = aliased  BY DEF PromoteCreate
<1>2. job[c] \in PromoteJob /\ job[c].src \in Note /\ Holds(c)
  BY <1>0, <1>1, HasJob DEF IInv, CopyInv, At, Holds
<1> DEFINE in == job[c].in
           id == IF in.to \in Remote THEN minted + 1 ELSE job[c].id
           n == Copy(job[c].src, id)
<1>3. /\ minted' \in Nat /\ minted <= minted' /\ id \in 0..MaxMint /\ id <= minted'
      /\ in.to \in Remote => minted' = minted + 1
      /\ in.to \notin Remote => minted' = minted
  <2>1. CASE in.to \in Remote
    <3>1. MintOne  BY <2>1 DEF PromoteCreate
    <3> QED BY <1>0, <2>1, <3>1, IdTypes
  <2>2. CASE in.to \notin Remote
    <3>1. minted' = minted  BY <2>2 DEF PromoteCreate
    <3>2. job[c].id \in 0..MaxMint /\ job[c].id \in 1..minted
      BY <1>2 DEF PromoteJob, IdInv, HeldInv
    <3> QED BY <1>0, <2>2, <3>1, <3>2
  <2> QED BY <2>1, <2>2
<1>4. in.from \in Scopes /\ in.to \in Scopes /\ in.path \in Paths
  BY <1>2 DEF PromoteJob, PromoteInput
<1>5. Live(in.path) \in Place  BY <1>4, Places
<1>6. CASE ~Has(in.to, Live(in.path))
  <2> DEFINE k == [job[c] EXCEPT !.at = "archive", !.res = [ref |-> <<in.to, in.path>>, etag |-> n.text]]
  <2>1. Put(in.to, Live(in.path), n) /\ job' = [job EXCEPT ![c] = k]
    BY <1>6 DEF PromoteCreate
  <2>2. k.at = "archive"  BY <1>2 DEF PromoteJob
  <2>3. n \in Notes /\ n.id = id  BY <1>2, <1>3 DEF Copy, Note, Notes
  <2>4. \A t \in Scopes, a \in Place : Has(t, a) /\ id \notin aliased => vault[t][a].id # id
    <3>1. CASE in.to \in Remote
      <4>1. \A t \in Scopes, a \in Place : Has(t, a) => vault[t][a].id \in Nat /\ vault[t][a].id <= minted
        BY IdTypes DEF IdInv, MintedInv
      <4> QED BY <1>0, <3>1, <4>1
    <3>2. CASE in.to \notin Remote  BY <1>2, <3>2 DEF IdInv, HeldInv
    <3> QED BY <3>1, <3>2
  <2>5. \A d \in Clients \ {c} : Holds(d) => job[d].id # id \/ id \in aliased
    <3>1. CASE in.to \in Remote
      <4>1. \A d \in Clients : Holds(d) => job[d].id \in 1..minted  BY DEF IdInv, HeldInv
      <4> QED BY <1>0, <3>1, <4>1
    <3>2. CASE in.to \notin Remote  BY <1>2, <3>2 DEF IdInv, HeldInv
    <3> QED BY <3>1, <3>2
  <2> HIDE DEF n, k, in, id
  <2>6. /\ MintedInv' /\ UniqueIDs'
        /\ \A t \in Scopes, a \in Place :
             vault'[t][a] = IF <<t, a>> = <<in.to, Live(in.path)>> THEN n ELSE vault[t][a]
    <3>1. n # Nil => /\ n.id <= minted'
                     /\ \A t \in Scopes, a \in Place :
                          <<t, a>> # <<in.to, Live(in.path)>> /\ Has(t, a) /\ n.id \notin {0} \cup aliased
                            => vault[t][a].id # n.id
      BY <1>3, <2>3, <2>4
    <3>2. MintedInv /\ UniqueIDs  BY DEF IdInv
    <3> HIDE DEF in
    <3> QED BY <1>0, <1>1, <1>3, <1>4, <1>5, <2>1, <2>3, <3>1, <3>2, IdVault
  <2>7. \A d \in Clients \ {c} : job'[d] = job[d]  BY <1>0, <2>1
  <2>8. ~Holds(c)'  BY <1>0, <2>1, <2>2 DEF Holds
  <2>9. \A d \in Clients : Holds(d)' =>
          job[d].id \in aliased \/ \A s \in Scopes, a \in Place : Has(s, a)' => vault'[s][a].id # job[d].id
    <3> SUFFICES ASSUME NEW d \in Clients, Holds(d)', job[d].id \notin aliased,
                        NEW s \in Scopes, NEW a \in Place, Has(s, a)'
                 PROVE  vault'[s][a].id # job[d].id
      OBVIOUS
    <3>1. d # c /\ Holds(d)  BY <2>7, <2>8 DEF Holds
    <3>2. CASE <<s, a>> = <<in.to, Live(in.path)>>  BY <2>3, <2>5, <2>6, <3>1, <3>2
    <3>3. CASE <<s, a>> # <<in.to, Live(in.path)>>  BY <2>6, <3>1, <3>3 DEF IdInv, HeldInv, Has
    <3> QED BY <3>2, <3>3
  <2>10. HeldInv'  BY <1>0, <1>1, <1>3, <2>7, <2>8, <2>9, HeldFrame DEF IdInv
  <2>11. AliasInv'  BY <1>0, <1>1, <1>3 DEF IdInv, AliasInv
  <2> QED BY <2>6, <2>10, <2>11 DEF IdInv
<1>7. CASE Has(in.to, Live(in.path))
  <2> DEFINE k1 == [job[c] EXCEPT !.at = "replace"]
             k2 == [job[c] EXCEPT !.at = "failed"]
  <2>1. vault' = vault /\ (job' = [job EXCEPT ![c] = k1] \/ job' = [job EXCEPT ![c] = k2])
    BY <1>7 DEF PromoteCreate, PromoteFail, Goto
  <2>2. k1.id = job[c].id /\ k2.at = "failed"  BY <1>2 DEF PromoteJob
  <2> HIDE DEF k1, k2, in, id
  <2>3. \A d \in Clients \ {c} : job'[d] = job[d]  BY <1>0, <2>1
  <2>4. Holds(c)' => Holds(c) /\ job'[c].id = job[c].id  BY <1>0, <1>2, <2>1, <2>2 DEF Holds
  <2> QED BY <1>0, <1>1, <1>3, <2>1, <2>3, <2>4, IdSame
<1> QED BY <1>6, <1>7

\* A Replace writes the id that its call holds, or leaves the note its own.
LEMMA ReplaceIds ==
  ASSUME IInv, IdInv, NEW c \in Clients, NEW own \in BOOLEAN, PromoteReplace(c, own)
  PROVE  IdInv'
<1>0. TypeOK /\ vault \in Vaults /\ job \in [Clients -> Jobs] /\ minted \in Nat
  BY IdTypes
<1>1. At(c, "promote", "replace") /\ minted' = minted /\ aliased' = aliased  BY DEF PromoteReplace
<1>2. job[c] \in PromoteJob /\ job[c].src \in Note /\ Holds(c)
  BY <1>0, <1>1, HasJob DEF IInv, CopyInv, At, Holds
<1> DEFINE in == job[c].in
           old == vault[in.to][Live(in.path)]
           n == [id |-> IF own THEN old.id ELSE job[c].id, text |-> job[c].src.text]
<1>3. in.to \in Scopes /\ in.path \in Paths  BY <1>2 DEF PromoteJob, PromoteInput
<1>4. Live(in.path) \in Place  BY <1>3, Places
<1>5. CASE old = Nil
  <2> DEFINE k == [job[c] EXCEPT !.at = "failed"]
  <2>1. vault' = vault /\ job' = [job EXCEPT ![c] = k]
    BY <1>5 DEF PromoteReplace, PromoteFail, Goto
  <2>2. k.at = "failed"  BY <1>2 DEF PromoteJob
  <2> HIDE DEF k
  <2>3. ~Holds(c)' /\ \A d \in Clients \ {c} : job'[d] = job[d]  BY <1>0, <2>1, <2>2 DEF Holds
  <2> QED BY <1>0, <1>1, <2>1, <2>3, IdSame
<1>6. CASE old # Nil
  <2> DEFINE k == [job[c] EXCEPT !.at = "archive", !.res = [ref |-> <<in.to, in.path>>, etag |-> n.text]]
  <2>1. Put(in.to, Live(in.path), n) /\ job' = [job EXCEPT ![c] = k]
    BY <1>6 DEF PromoteReplace
  <2>2. k.at = "archive"  BY <1>2 DEF PromoteJob
  <2>3. Has(in.to, Live(in.path)) /\ old \in Note  BY <1>3, <1>4, <1>6, IdTypes DEF Has
  <2>4. n \in Notes /\ n.id = IF own THEN old.id ELSE job[c].id
    BY <1>2, <2>3 DEF Note, Notes, PromoteJob
  <2>5. n.id <= minted
    <3>1. old.id <= minted  BY <1>3, <1>4, <2>3 DEF IdInv, MintedInv
    <3>2. job[c].id <= minted  BY <1>0, <1>2 DEF IdInv, HeldInv
    <3> QED BY <2>4, <3>1, <3>2
  <2>6. \A t \in Scopes, a \in Place :
          <<t, a>> # <<in.to, Live(in.path)>> /\ Has(t, a) /\ n.id \notin {0} \cup aliased => vault[t][a].id # n.id
    <3>1. CASE own  BY <1>3, <1>4, <2>3, <2>4, <3>1 DEF IdInv, UniqueIDs
    <3>2. CASE ~own  BY <1>2, <2>4, <3>2 DEF IdInv, HeldInv
    <3> QED BY <3>1, <3>2
  <2>7. \A d \in Clients \ {c} : Holds(d) => job[d].id # n.id \/ job[d].id \in aliased
    <3>1. CASE own  BY <1>3, <1>4, <2>3, <2>4, <3>1 DEF IdInv, HeldInv
    <3>2. CASE ~own  BY <1>2, <2>4, <3>2 DEF IdInv, HeldInv
    <3> QED BY <3>1, <3>2
  <2> HIDE DEF n, k, in, old
  <2>8. /\ MintedInv' /\ UniqueIDs'
        /\ \A t \in Scopes, a \in Place :
             vault'[t][a] = IF <<t, a>> = <<in.to, Live(in.path)>> THEN n ELSE vault[t][a]
    BY <1>0, <1>1, <1>3, <1>4, <2>1, <2>4, <2>5, <2>6, IdVault DEF IdInv
  <2>9. \A d \in Clients \ {c} : job'[d] = job[d]  BY <1>0, <2>1
  <2>10. ~Holds(c)'  BY <1>0, <2>1, <2>2 DEF Holds
  <2>11. \A d \in Clients : Holds(d)' =>
           job[d].id \in aliased \/ \A s \in Scopes, a \in Place : Has(s, a)' => vault'[s][a].id # job[d].id
    <3> SUFFICES ASSUME NEW d \in Clients, Holds(d)', job[d].id \notin aliased,
                        NEW s \in Scopes, NEW a \in Place, Has(s, a)'
                 PROVE  vault'[s][a].id # job[d].id
      OBVIOUS
    <3>1. d # c /\ Holds(d)  BY <2>9, <2>10 DEF Holds
    <3>2. CASE <<s, a>> = <<in.to, Live(in.path)>>  BY <2>7, <2>8, <3>1, <3>2
    <3>3. CASE <<s, a>> # <<in.to, Live(in.path)>>  BY <2>8, <3>1, <3>3 DEF IdInv, HeldInv, Has
    <3> QED BY <3>2, <3>3
  <2>12. HeldInv'  BY <1>0, <1>1, <2>9, <2>10, <2>11, HeldFrame DEF IdInv
  <2>13. AliasInv'  BY <1>1 DEF IdInv, AliasInv
  <2> QED BY <2>8, <2>12, <2>13 DEF IdInv
<1> QED BY <1>5, <1>6

\* The archived note takes its id along.
LEMMA ArchiveIds ==
  ASSUME IInv, IdInv, NEW c \in Clients, NEW moves \in BOOLEAN, PromoteArchive(c, moves)
  PROVE  IdInv'
<1>0. TypeOK /\ vault \in Vaults /\ job \in [Clients -> Jobs] /\ minted \in Nat
  BY IdTypes
<1>1. At(c, "promote", "archive") /\ minted' = minted /\ aliased' = aliased
  BY DEF PromoteArchive, ghosts
<1>2. job[c] \in PromoteJob  BY <1>0, <1>1, HasJob
<1> DEFINE in == job[c].in
           note == vault[in.from][Live(in.path)]
           k == [job[c] EXCEPT !.at = "store"]
<1>3. in.from \in Scopes /\ in.path \in Paths  BY <1>2 DEF PromoteJob, PromoteInput
<1>4. Live(in.path) \in Place /\ ArchivePath(in.path) \in Place /\ Live(in.path) # ArchivePath(in.path)
  BY <1>3, Places
<1>5. ~Holds(c)' /\ \A d \in Clients \ {c} : job'[d] = job[d]
  <2>1. job' = [job EXCEPT ![c] = k]  BY DEF PromoteArchive, Goto
  <2>2. k.at = "store"  BY <1>2 DEF PromoteJob
  <2> HIDE DEF k
  <2> QED BY <1>0, <2>1, <2>2 DEF Holds
<1>6. CASE vault' = vault  BY <1>0, <1>1, <1>5, <1>6, IdSame
<1>7. CASE vault' # vault
  <2>1. vault' = [vault EXCEPT ![in.from][Live(in.path)] = Nil, ![in.from][ArchivePath(in.path)] = note]
        /\ note # Nil
    BY <1>7 DEF PromoteArchive
  <2>2. vault' = [vault EXCEPT ![in.from] =
          [[vault[in.from] EXCEPT ![Live(in.path)] = Nil] EXCEPT ![ArchivePath(in.path)] = note]]
    BY <1>0, <1>3, <1>4, <2>1 DEF Vaults
  <2>3. Has(in.from, Live(in.path))  BY <2>1 DEF Has
  <2> DEFINE p1 == Live(in.path)
             p2 == ArchivePath(in.path)
             f == in.from
  <2> HIDE DEF note, p1, p2, f
  <2>4. \A t \in Scopes, a \in Place :
          vault'[t][a] = IF <<t, a>> = <<f, p2>> THEN note
                         ELSE IF <<t, a>> = <<f, p1>> THEN Nil ELSE vault[t][a]
    BY <1>0, <1>3, <1>4, <2>2 DEF Vaults, p1, p2, f
  <2>5. f \in Scopes /\ p1 \in Place /\ p2 \in Place /\ note = vault[f][p1] /\ Has(f, p1)
    BY <1>3, <1>4, <2>3 DEF p1, p2, f, note
  <2>6. \A t \in Scopes, a \in Place : Has(t, a)' =>
          \/ <<t, a>> = <<f, p2>> /\ vault'[t][a] = vault[f][p1]
          \/ <<t, a>> # <<f, p2>> /\ <<t, a>> # <<f, p1>> /\ Has(t, a) /\ vault'[t][a] = vault[t][a]
    BY <2>4, <2>5 DEF Has
  <2>7. MintedInv'  BY <1>1, <2>5, <2>6 DEF IdInv, MintedInv
  <2>8. UniqueIDs'  BY <1>1, <2>5, <2>6 DEF IdInv, UniqueIDs
  <2>9. \A d \in Clients : Holds(d)' =>
          job[d].id \in aliased \/ \A s \in Scopes, a \in Place : Has(s, a)' => vault'[s][a].id # job[d].id
    <3>1. \A d \in Clients : Holds(d)' => Holds(d)  BY <1>5 DEF Holds
    <3> QED BY <2>5, <2>6, <3>1 DEF IdInv, HeldInv
  <2>10. HeldInv'  BY <1>0, <1>1, <1>5, <2>9, HeldFrame DEF IdInv
  <2>11. AliasInv'  BY <1>1 DEF IdInv, AliasInv
  <2> QED BY <2>7, <2>8, <2>10, <2>11 DEF IdInv
<1> QED BY <1>6, <1>7

\* The other steps of a client mint nothing and take no id.
LEMMA ClientIds ==
  ASSUME IInv, IdInv, NEW c \in Clients, ClientStep(c)
  PROVE  IdInv'
<1>0. TypeOK /\ vault \in Vaults /\ job \in [Clients -> Jobs] /\ minted \in Nat
  BY IdTypes
<1>1. CASE CallOf(c) \/ Done(c)
  <2>1. UNCHANGED <<vault, minted, aliased>>
    BY <1>1 DEF CallOf, PromoteCall, DeleteCall, QueryCall, Done, stores, ghosts
  <2>2. \A d \in Clients \ {c} : job'[d] = job[d]
    BY <1>0, <1>1 DEF CallOf, PromoteCall, DeleteCall, QueryCall, Begin, Done, Return
  <2>3. ~Holds(c)'
    <3>1. CASE Done(c)  BY <1>0, <3>1 DEF Done, Return, Holds
    <3>2. ASSUME NEW in \in Promotions, PromoteCall(c, in)  PROVE job'[c].at \notin {"create", "replace"}
      BY <1>0, <3>2 DEF PromoteCall, Begin
    <3>3. ASSUME NEW s \in Scopes, NEW p \in Paths, DeleteCall(c, s, p)  PROVE job'[c].op = "delete"
      BY <1>0, <3>3 DEF DeleteCall, Begin
    <3>4. ASSUME NEW s \in Scopes, QueryCall(c, s)  PROVE job'[c].op = "query"
      BY <1>0, <3>4 DEF QueryCall, Begin
    <3> QED BY <1>1, <3>1, <3>2, <3>3, <3>4 DEF CallOf, Holds
  <2> QED BY <1>0, <2>1, <2>2, <2>3, IdSame
<1>2. CASE DeleteOn(c) \/ QueryOn(c)
  <2>1. ~Holds(c)' /\ \A d \in Clients \ {c} : job'[d] = job[d]
    BY <1>0, <1>2, OthersGoOn DEF Holds
  <2>2. UNCHANGED <<minted, aliased>>
    BY <1>2 DEF DeleteOn, QueryOn, DeleteVault, TombstoneAdd, FlushOpen, FlushWrite, FlushError,
                QueryFetch, QueryMerge, stores, ghosts
  <2>3. CASE UNCHANGED vault  BY <1>0, <2>1, <2>2, <2>3, IdSame
  <2>4. CASE ~UNCHANGED vault
    <3>1. DeleteVault(c)
      BY <1>2, <2>4 DEF DeleteOn, QueryOn, TombstoneAdd, FlushOpen, FlushWrite, FlushError, QueryFetch, QueryMerge, stores
    <3> DEFINE r == job[c].ref
    <3>2. Put(r[1], Live(r[2]), Nil)  BY <2>4, <3>1 DEF DeleteVault
    <3>3. r[1] \in Scopes /\ r[2] \in Paths
      <4>1. job[c] \in DeleteJob  BY <1>0, <3>1, HasJob DEF DeleteVault
      <4> QED BY <4>1 DEF DeleteJob, Ref
    <3>4. Live(r[2]) \in Place /\ Nil \in Notes  BY <3>3, Places DEF Notes
    <3> HIDE DEF r
    <3>5. /\ MintedInv' /\ UniqueIDs'
          /\ \A t \in Scopes, a \in Place :
               vault'[t][a] = IF <<t, a>> = <<r[1], Live(r[2])>> THEN Nil ELSE vault[t][a]
      BY <1>0, <2>2, <3>2, <3>3, <3>4, IdVault DEF IdInv
    <3>6. \A d \in Clients : Holds(d)' =>
            job[d].id \in aliased \/ \A s \in Scopes, a \in Place : Has(s, a)' => vault'[s][a].id # job[d].id
      <4>1. \A d \in Clients : Holds(d)' => Holds(d)  BY <2>1 DEF Holds
      <4> QED BY <3>5, <4>1 DEF IdInv, HeldInv, Has
    <3>7. HeldInv'  BY <1>0, <2>1, <2>2, <3>6, HeldFrame DEF IdInv
    <3>8. AliasInv'  BY <2>2 DEF IdInv, AliasInv
    <3> QED BY <3>5, <3>7, <3>8 DEF IdInv
  <2> QED BY <2>3, <2>4
<1>3. CASE GetOf(c) \/ PromoteStore(c)
  <2>1. UNCHANGED <<vault, minted, aliased>> /\ \A d \in Clients \ {c} : job'[d] = job[d]
    BY <1>0, <1>3, PromoteGoesOn DEF PromoteOn, GetOf, PromoteGet, PromoteStore, stores, ghosts
  <2>2. job[c] \in PromoteJob  BY <1>0, <1>3, PromoteGoesOn DEF PromoteOn
  <2> DEFINE k(at) == [job[c] EXCEPT !.at = at]
             k1 == [job[c] EXCEPT !.at = "mint", !.src = Read(job[c].in.from, job[c].in.path)]
  <2>3. job' = [job EXCEPT ![c] = k("failed")] \/ job' = [job EXCEPT ![c] = k("answered")]
        \/ job' = [job EXCEPT ![c] = k1]
    BY <1>3 DEF GetOf, PromoteGet, PromoteStore, PromoteFail, Goto
  <2>4. k("failed").at = "failed" /\ k("answered").at = "answered" /\ k1.at = "mint"
    BY <2>2 DEF PromoteJob
  <2> HIDE DEF k, k1
  <2>5. ~Holds(c)'  BY <1>0, <2>3, <2>4 DEF Holds
  <2> QED BY <1>0, <2>1, <2>5, IdSame
<1> QED BY <1>1, <1>2, <1>3, MintIds, CreateIds, ReplaceIds, ArchiveIds, ClientSteps DEF PromoteOn, ReplaceOf, ArchiveOf

\* Every step.
LEMMA IdNext == IInv /\ IdInv /\ [Next]_vars => IdInv'
<1> SUFFICES ASSUME IInv, IdInv, [Next]_vars  PROVE IdInv'  OBVIOUS
<1>0. TypeOK /\ vault \in Vaults /\ minted \in Nat /\ Local \in Scopes
  BY IdTypes, WritesAssumption
<1>1. ASSUME NEW c \in Clients, ClientStep(c)  PROVE IdInv'  BY <1>1, ClientIds
<1>2. ASSUME NEW p \in Paths, NEW id \in 0..MaxMint, Create(p, id)  PROVE IdInv'
  <2> DEFINE n == [id |-> id, text |-> minted + 1]
  <2>1. MintOne /\ id \in {0, minted + 1} /\ Put(Local, Live(p), n) /\ job' = job /\ aliased' = aliased
    BY <1>2 DEF Create
  <2>2. minted' = minted + 1 /\ minted' \in Nat /\ n \in Notes
    BY <1>0, <2>1, IdTypes, Minted DEF Note, Notes
  <2>3. n.id \in {0, minted + 1} /\ n.id <= minted'  BY <1>0, <2>1, <2>2
  <2>4. Live(p) \in Place  BY Places
  <2> HIDE DEF n
  <2>5. \A t \in Scopes, a \in Place : Has(t, a) /\ n.id # 0 => vault[t][a].id # n.id
    BY <1>0, <2>3, IdTypes DEF IdInv, MintedInv
  <2>6. /\ MintedInv' /\ UniqueIDs'
        /\ \A t \in Scopes, a \in Place :
             vault'[t][a] = IF <<t, a>> = <<Local, Live(p)>> THEN n ELSE vault[t][a]
    BY <1>0, <2>1, <2>2, <2>3, <2>4, <2>5, IdVault DEF IdInv
  <2>7. \A d \in Clients : Holds(d) =>
          job[d].id \in aliased \/ \A s \in Scopes, a \in Place : Has(s, a)' => vault'[s][a].id # job[d].id
    <3>1. \A d \in Clients : Holds(d) => job[d].id \in 1..minted  BY DEF IdInv, HeldInv
    <3>2. \A d \in Clients : Holds(d) => job[d].id # n.id  BY <1>0, <2>3, <3>1
    <3> QED BY <2>6, <3>2 DEF IdInv, HeldInv, Has
  <2>8. HeldInv'  BY <1>0, <2>1, <2>2, <2>7, HeldQuiet DEF IdInv
  <2>9. AliasInv'  BY <1>0, <2>1, <2>2 DEF IdInv, AliasInv
  <2> QED BY <2>6, <2>8, <2>9 DEF IdInv
<1>3. ASSUME NEW s \in Scopes, NEW p \in Paths, UpdateBody(s, p)  PROVE IdInv'
  <2> DEFINE n == [vault[s][Live(p)] EXCEPT !.text = minted + 1]
  <2>1. MintOne /\ Has(s, Live(p)) /\ Put(s, Live(p), n) /\ job' = job /\ aliased' = aliased
    BY <1>3 DEF UpdateBody, ghosts
  <2>2. Live(p) \in Place  BY Places
  <2>3. vault[s][Live(p)] \in Note  BY <2>1, <2>2, IdTypes
  <2>4. minted' = minted + 1 /\ minted' \in Nat /\ n \in Notes /\ n.id = vault[s][Live(p)].id
    BY <1>0, <2>1, <2>3, IdTypes, Minted DEF Note, Notes
  <2> HIDE DEF n
  <2>5. n.id <= minted'
    <3>1. vault[s][Live(p)].id \in Nat /\ vault[s][Live(p)].id <= minted
      BY <2>1, <2>2, IdTypes DEF IdInv, MintedInv
    <3> QED BY <1>0, <2>4, <3>1
  <2>6. \A t \in Scopes, a \in Place :
          <<t, a>> # <<s, Live(p)>> /\ Has(t, a) /\ n.id \notin {0} \cup aliased => vault[t][a].id # n.id
    BY <2>1, <2>2, <2>4 DEF IdInv, UniqueIDs
  <2>7. /\ MintedInv' /\ UniqueIDs'
        /\ \A t \in Scopes, a \in Place :
             vault'[t][a] = IF <<t, a>> = <<s, Live(p)>> THEN n ELSE vault[t][a]
    BY <1>0, <2>1, <2>2, <2>4, <2>5, <2>6, IdVault DEF IdInv
  <2>8. \A d \in Clients : Holds(d) =>
          job[d].id \in aliased \/ \A t \in Scopes, a \in Place : Has(t, a)' => vault'[t][a].id # job[d].id
    BY <2>1, <2>2, <2>4, <2>7 DEF IdInv, HeldInv, Has
  <2>9. HeldInv'  BY <1>0, <2>1, <2>4, <2>8, HeldQuiet DEF IdInv
  <2>10. AliasInv'  BY <1>0, <2>1, <2>4 DEF IdInv, AliasInv
  <2> QED BY <2>7, <2>9, <2>10 DEF IdInv
<1>4. CASE (\E k \in Keys : ExpireIdempotency(k)) \/ (\E s \in Remote : ExpireSnapshot(s))
           \/ BodyStep \/ Crash \/ Start \/ UNCHANGED vars
  <2>1. UNCHANGED <<vault, minted, aliased>>
    BY <1>4 DEF ExpireIdempotency, ExpireSnapshot, BodyStep, FillBody, DropBody, Crash, Start, vars, stores, ghosts
  <2>2. job' = job \/ job' = [c \in Clients |-> Nil]
    BY <1>4 DEF ExpireIdempotency, ExpireSnapshot, BodyStep, FillBody, DropBody, Crash, Start, vars
  <2>3. MintedInv' /\ UniqueIDs' /\ AliasInv'  BY <2>1 DEF IdInv, MintedInv, UniqueIDs, AliasInv, Has
  <2>4. HeldInv'
    <3>1. CASE job' = job  BY <2>1, <3>1 DEF IdInv, HeldInv, Holds, Has
    <3>2. CASE job' = [c \in Clients |-> Nil]  BY <3>2 DEF HeldInv, Holds
    <3> QED BY <2>2, <3>1, <3>2
  <2> QED BY <2>3, <2>4 DEF IdInv
<1> QED BY <1>1, <1>2, <1>3, <1>4 DEF Next, BodyStep

\* The notes of the start have different numbers.
LEMMA IdInit == Init => IdInv
<1> SUFFICES ASSUME Init  PROVE IdInv  OBVIOUS
<1>1. PICK held \in SUBSET Ref :
        vault = [s \in Scopes |-> [pl \in Place |->
                  IF pl[1] = "live" /\ <<s, pl[2]>> \in held
                  THEN [id |-> Number[<<s, pl[2]>>], text |-> Number[<<s, pl[2]>>]]
                  ELSE Nil]]
  BY DEF Init
<1>2. \A s \in Scopes, pl \in Place : Has(s, pl) =>
        pl = <<"live", pl[2]>> /\ <<s, pl[2]>> \in Ref /\ vault[s][pl].id = Number[<<s, pl[2]>>]
  BY <1>1 DEF Has, Place, Ref
<1> DEFINE R(s, pl) == <<s, pl[2]>>
<1>3. \A s \in Scopes, pl \in Place : Has(s, pl) => R(s, pl) \in Ref /\ vault[s][pl].id = Number[R(s, pl)]
  BY <1>2
<1>4. \A s, t \in Scopes : \A a, b \in Place :
        Has(s, a) /\ Has(t, b) /\ R(s, a) = R(t, b) => <<s, a>> = <<t, b>>
  BY <1>2
<1> HIDE DEF R
<1>5. MintedInv
  <2>1. \A r \in Ref : Number[r] <= Cardinality(Ref)  BY WritesAssumption
  <2>2. minted = Cardinality(Ref)  BY DEF Init
  <2> QED BY <1>3, <2>1, <2>2 DEF MintedInv
<1>6. UniqueIDs
  <2>1. \A a, b \in Ref : a # b => Number[a] # Number[b]  BY WritesAssumption
  <2> QED BY <1>3, <1>4, <2>1 DEF UniqueIDs
<1>7. HeldInv /\ AliasInv  BY DEF Init, HeldInv, Holds, AliasInv
<1> QED BY <1>5, <1>6, <1>7 DEF IdInv

\* No two notes of the federation get the same NoteID, whichever promotions copy a note,
\* keep its source or overwrite another, but for an id that overlapping promotions of one
\* cached note write into the map they share (Promote and SetNoteID).
THEOREM NoteIDsUnique == Spec => []UniqueIDs
<1>1. (IInv /\ DownInv) /\ IdInv /\ [Next]_vars => IdInv'  BY IdNext
<1>2. IdInv => UniqueIDs  BY DEF IdInv
<1> QED BY <1>1, <1>2, IdInit, WritesInv, PTL DEF Spec
=============================================================================
