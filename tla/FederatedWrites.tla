-------------------------- MODULE FederatedWrites --------------------------
(***************************************************************************)
(* Writes that span the vaults of a federation: Promote with its           *)
(* idempotency cache, Delete with its tombstones, and the queries those    *)
(* tombstones protect (internal/application/federation.go, the write paths *)
(* of service.go, and storage/tombstone/file_store.go).                    *)
(*                                                                         *)
(* The calls of concurrent clients interleave between any two calls to a   *)
(* vault; one vault executes one call at a time (LocalVault and            *)
(* SharedVault have the vaults themselves).  The gateway may crash between *)
(* any two steps, in the middle of a write of the tombstone file too.      *)
(*                                                                         *)
(* A note is its NoteID and a number for its content, which stands for the *)
(* title, tags, fields and body that Create sends; its ETag is the content *)
(* alone.  The archives/ copy of a path is the same path in the other      *)
(* shelf.                                                                  *)
(***************************************************************************)
EXTENDS Integers, FiniteSets

CONSTANTS
  Clients,     \* concurrent callers
  Scopes,      \* registered scopes
  Local,       \* the first registered one, where Create goes
  Remote,      \* scopes read through a RemoteVault and its caches
  Paths,       \* paths of notes
  Keys,        \* idempotency keys
  NoKey,       \* the empty idempotency key
  Nil,         \* no note, no job, no result
  Torn,        \* a tombstone file that does not parse
  Promotions,  \* the promotions that clients ask for
  Number,      \* NoteID and content of each note that is there at the start
  IdemMax,     \* size of the idempotency cache (10000 in the code)
  MaxMint,     \* bound: NoteIDs and contents ever made
  MaxCalls,    \* bound: calls ever made
  MaxCrashes   \* bound: crashes of the gateway

Ref == Scopes \X Paths
PromoteInput == [from: Scopes, to: Scopes, path: Paths, key: Keys \cup {NoKey},
                 overwrite: BOOLEAN, keep: BOOLEAN]

ASSUME WritesAssumption ==
  /\ Promotions \subseteq PromoteInput
  /\ Local \in Scopes /\ Remote \subseteq Scopes
  /\ NoKey \notin Keys
  /\ Nil \notin Keys
  /\ IdemMax \in Nat \ {0}
  /\ MaxMint \in Nat /\ MaxCalls \in Nat /\ MaxCrashes \in Nat
  /\ Cardinality(Ref) \in 0..MaxMint
  /\ Number \in [Ref -> 1..Cardinality(Ref)]
  /\ \A a, b \in Ref : a # b => Number[a] # Number[b]

VARIABLES
  vault,     \* [Scopes -> [Place -> note or Nil]]
  snapshot,  \* summary cache of a remote scope: paths last listed, or Nil
  bodies,    \* body cache of a remote scope: for each path a note, or Nil
  idem,      \* idempotency cache: key -> result
  tomb,      \* tombstone store, in memory
  file,      \* tombstone file: its refs, or Torn
  flushing,  \* the client that holds the store's lock while it writes
  up,        \* the gateway is running
  job,       \* what each client's call is doing
  minted,    \* NoteIDs and contents made so far
  calls,     \* calls made so far
  crashes,   \* crashes so far
  acked,     \* ghost: results each key was answered with, while they are kept
  gone,      \* ghost: refs whose Delete was answered and not created again
  copied,    \* ghost: contents a Promote has put in a destination
  aliased,   \* ghost: NoteIDs written into a map that two calls share
  broken     \* ghost: a write of the tombstone file has failed

stores == <<vault, snapshot, bodies, idem, tomb, file, flushing>>
ghosts == <<acked, gone, copied, aliased, broken>>
vars == <<stores, up, job, minted, calls, crashes, ghosts>>

Shelf == {"live", "archives"}
Place == Shelf \X Paths
Note == [id: 0..MaxMint, text: 1..MaxMint]
Result == [ref: Ref, etag: 1..MaxMint]

Live(p) == <<"live", p>>
ArchivePath(p) == <<"archives", p>>

Init ==
  /\ \E held \in SUBSET Ref :
       vault = [s \in Scopes |-> [pl \in Place |->
                  IF pl[1] = "live" /\ <<s, pl[2]>> \in held
                  THEN [id |-> Number[<<s, pl[2]>>], text |-> Number[<<s, pl[2]>>]]
                  ELSE Nil]]
  /\ snapshot = [s \in Remote |-> Nil]
  /\ bodies = [s \in Remote |-> [p \in Paths |-> Nil]]
  /\ idem = [k \in {} |-> Nil]
  /\ tomb = {} /\ file = {}
  /\ flushing = Nil
  /\ up = TRUE
  /\ job = [c \in Clients |-> Nil]
  /\ minted = Cardinality(Ref) /\ calls = 0 /\ crashes = 0
  /\ acked = [k \in Keys |-> {}]
  /\ gone = {} /\ copied = {} /\ aliased = {} /\ broken = FALSE

-----------------------------------------------------------------------------
(* The vaults, one call at a time. *)

Has(s, pl) == vault[s][pl] # Nil
Put(s, pl, n) == vault' = [vault EXCEPT ![s][pl] = n]
Listing(s) == {p \in Paths : Has(s, Live(p))}

(* Calls of the clients. *)
Begin(c, j) ==
  /\ up /\ job[c] = Nil /\ calls < MaxCalls
  /\ calls' = calls + 1
  /\ job' = [job EXCEPT ![c] = j]

Goto(c, at) == job' = [job EXCEPT ![c].at = at]
At(c, op, at) == up /\ job[c] # Nil /\ job[c].op = op /\ job[c].at = at
Return(c) == job' = [job EXCEPT ![c] = Nil]
MintOne == minted < MaxMint /\ minted' = minted + 1

(* Create goes to the local vault.  A note made in an editor has no NoteID. *)
Create(p, id) ==
  /\ up /\ MintOne /\ calls < MaxCalls /\ calls' = calls + 1
  /\ id \in {0, minted + 1}
  /\ ~Has(Local, Live(p))
  /\ Put(Local, Live(p), [id |-> id, text |-> minted + 1])
  /\ gone' = gone \ {<<Local, p>>}
  /\ UNCHANGED <<snapshot, bodies, idem, tomb, file, flushing, up, job, crashes,
                 acked, copied, aliased, broken>>

(* UpdateBody, PatchFrontMatter and Replace of a note in its own scope. *)
UpdateBody(s, p) ==
  /\ up /\ MintOne /\ calls < MaxCalls /\ calls' = calls + 1
  /\ Has(s, Live(p))
  /\ Put(s, Live(p), [vault[s][Live(p)] EXCEPT !.text = minted + 1])
  /\ UNCHANGED <<snapshot, bodies, idem, tomb, file, flushing, up, job, crashes, ghosts>>

-----------------------------------------------------------------------------
(* Promote. *)

(* lookupIdempotency: a known key is answered from the cache. *)
PromoteCall(c, in) ==
  LET hit == in.key \in DOMAIN idem
  IN /\ Begin(c, [op |-> "promote", at |-> IF hit THEN "answered" ELSE "get",
                  in |-> in, src |-> Nil, id |-> 0,
                  res |-> IF hit THEN idem[in.key] ELSE Nil,
                  expect |-> IF in.key = NoKey THEN {} ELSE acked[in.key]])
     /\ UNCHANGED <<stores, up, minted, crashes, ghosts>>

(* A call that ends without a result. *)
PromoteFail(c) == Goto(c, "failed")

(* What Get answers.  A remote note may come from the body cache and be old *)
(* or deleted since; RemoteCache says what keeps and what drops an entry.   *)
Read(s, p) == IF s \in Remote /\ bodies[s][p] # Nil THEN bodies[s][p] ELSE vault[s][Live(p)]

(* The source note, and the if_match of the caller (match: it was given and *)
(* still agrees, or was not given; an error of Get is no agreement).        *)
PromoteGet(c, match) ==
  /\ At(c, "promote", "get")
  /\ LET src == Read(job[c].in.from, job[c].in.path)
     IN IF src = Nil \/ ~match
        THEN PromoteFail(c)
        ELSE job' = [job EXCEPT ![c].at = "mint", ![c].src = src]
  /\ UNCHANGED <<stores, up, minted, calls, crashes, ghosts>>

(* Another call holds a note that was read from the same cached one.        *)
SharesSource(c, d) ==
  /\ job[d] # Nil /\ job[d].op = "promote" /\ job[d].at \in {"mint", "create", "replace"}
  /\ job[d].in.from = job[c].in.from /\ job[d].in.path = job[c].in.path
  /\ job[c].in.from \in Remote /\ job[d].src.text = job[c].src.text

(* The note of a remote scope enters the body cache, however late; then     *)
(* SetNoteID writes a new NoteID into its front matter map, and so into the *)
(* source of every call that got the same map from the cache.               *)
PromoteMint(c) ==
  /\ At(c, "promote", "mint") /\ MintOne
  /\ LET in == job[c].in
     IN bodies' = [s \in Remote |-> IF s = in.from THEN [bodies[s] EXCEPT ![in.path] = job[c].src]
                                                   ELSE bodies[s]]
  /\ \E others \in SUBSET {d \in Clients \ {c} : SharesSource(c, d)} :
       /\ job' = [d \in Clients |->
                     IF d = c THEN [job[c] EXCEPT !.at = "create", !.id = minted + 1]
                     ELSE IF d \in others THEN [job[d] EXCEPT !.id = minted + 1]
                     ELSE job[d]]
       /\ aliased' = IF others = {} THEN aliased ELSE aliased \cup {minted + 1}
  /\ UNCHANGED <<vault, snapshot, idem, tomb, file, flushing, up, calls, crashes,
                 acked, gone, copied, broken>>

\* Mutant: the copy keeps the NoteID of its source.
CopyWithSourceID(src, id) == src

\* Mutant: the copy gets a NoteID that was not minted for it.
CopyWithNextID(src, id) == [src EXCEPT !.id = id + 1]

(* The copy that Promote makes has a NoteID of its own. *)
Copy(src, id) == [src EXCEPT !.id = id]

(* Create at the destination; on a conflict, Replace if the caller asked.   *)
(* RemoteVault's Create does not send the NoteID: the server mints one.     *)
PromoteCreate(c) ==
  /\ At(c, "promote", "create")
  /\ IF job[c].in.to \in Remote THEN MintOne ELSE UNCHANGED minted
  /\ LET in == job[c].in
         pl == Live(in.path)
         n == Copy(job[c].src, IF in.to \in Remote THEN minted + 1 ELSE job[c].id)
     IN IF ~Has(in.to, pl)
        THEN /\ Put(in.to, pl, n)
             /\ job' = [job EXCEPT ![c].at = "archive",
                          ![c].res = [ref |-> <<in.to, in.path>>, etag |-> n.text]]
             /\ copied' = copied \cup {n.text}
             /\ gone' = gone \ {<<in.to, in.path>>}
        ELSE /\ IF in.overwrite THEN Goto(c, "replace") ELSE PromoteFail(c)
             /\ UNCHANGED <<vault, copied, gone>>
  /\ UNCHANGED <<snapshot, bodies, idem, tomb, file, flushing, up, calls, crashes,
                 acked, aliased, broken>>

(* Replace has no if_match, and it sends the NoteID that is in the map of   *)
(* the source.  A source whose front matter had no such map has none to     *)
(* send: then the note replaced keeps its own.                              *)
PromoteReplace(c, own) ==
  /\ At(c, "promote", "replace")
  /\ own => job[c].src.id = 0
  /\ LET in == job[c].in
         pl == Live(in.path)
         old == vault[in.to][pl]
         n == [id |-> IF own THEN old.id ELSE job[c].id, text |-> job[c].src.text]
     IN IF old = Nil
        THEN PromoteFail(c) /\ UNCHANGED <<vault, copied>>
        ELSE /\ Put(in.to, pl, n)
             /\ job' = [job EXCEPT ![c].at = "archive",
                          ![c].res = [ref |-> <<in.to, in.path>>, etag |-> n.text]]
             /\ copied' = copied \cup {n.text}
  /\ UNCHANGED <<snapshot, bodies, idem, tomb, file, flushing, up, minted, calls,
                 crashes, acked, gone, aliased, broken>>

\* Mutant: the archive move gives no if_match.
StillSource(c) == TRUE

(* The note there has the ETag of the note that was read. *)
SameSource(c) == vault[job[c].in.from][Live(job[c].in.path)].text = job[c].src.text

(* Unless it is kept, the source is moved to archives/ if it still has the  *)
(* ETag of the note that was read.  A LocalVault's Move overwrites what is  *)
(* archived there, a SharedVault's refuses; its errors are ignored.         *)
PromoteArchive(c, moves) ==
  /\ At(c, "promote", "archive")
  /\ LET in == job[c].in
         note == vault[in.from][Live(in.path)]
     IN IF moves
        THEN /\ ~in.keep /\ note # Nil /\ SameSource(c)
             /\ vault' = [vault EXCEPT ![in.from][Live(in.path)] = Nil,
                                       ![in.from][ArchivePath(in.path)] = note]
        ELSE UNCHANGED vault
  /\ Goto(c, "store")
  /\ UNCHANGED <<snapshot, bodies, idem, tomb, file, flushing, up, minted, calls,
                 crashes, ghosts>>

\* Mutant: a full cache refuses the new entry.
KeepOldResults(k, r, evicted) ==
  [x \in DOMAIN idem \cup (IF evicted = {} THEN {k} ELSE {}) |-> IF x = k THEN r ELSE idem[x]]

(* storeIdempotency: a full cache loses an arbitrary entry first. *)
StoreIdempotency(k, r, evicted) ==
  [x \in (DOMAIN idem \ evicted) \cup {k} |-> IF x = k THEN r ELSE idem[x]]

PromoteStore(c) ==
  /\ At(c, "promote", "store")
  /\ LET k == job[c].in.key
         full == Cardinality(DOMAIN idem) >= IdemMax
     IN IF k = NoKey
        THEN UNCHANGED <<idem, acked>>
        ELSE \E evicted \in IF full THEN {{x} : x \in DOMAIN idem} ELSE {{}} :
               /\ idem' = StoreIdempotency(k, job[c].res, evicted)
               /\ acked' = [x \in Keys |->
                     IF x = k THEN (acked[k] \ (IF k \in evicted THEN acked[k] ELSE {}))
                                   \cup {job[c].res}
                     ELSE IF x \in evicted THEN {} ELSE acked[x]]
  /\ Goto(c, "answered")
  /\ UNCHANGED <<vault, snapshot, bodies, tomb, file, flushing, up, minted, calls,
                 crashes, gone, copied, aliased, broken>>

Finished == {"answered", "failed", "replied"}

(* The caller has its answer. *)
Done(c) ==
  /\ up /\ job[c] # Nil /\ job[c].at \in Finished
  /\ Return(c)
  /\ UNCHANGED <<stores, up, minted, calls, crashes, ghosts>>

(* An entry outlives its day; the sweep removes it from the map. *)
ExpireIdempotency(k) ==
  /\ up /\ k \in DOMAIN idem
  /\ idem' = [x \in DOMAIN idem \ {k} |-> idem[x]]
  /\ acked' = [acked EXCEPT ![k] = {}]
  /\ UNCHANGED <<vault, snapshot, bodies, tomb, file, flushing, up, job, minted, calls,
                 crashes, gone, copied, aliased, broken>>

-----------------------------------------------------------------------------
(* Delete, and the tombstone file. *)

DeleteCall(c, s, p) ==
  /\ Begin(c, [op |-> "delete", at |-> "delete", ref |-> <<s, p>>])
  /\ UNCHANGED <<stores, up, minted, crashes, ghosts>>

(* The vault's Delete; a RemoteVault clears its summary cache after it. *)
DeleteVault(c) ==
  /\ At(c, "delete", "delete")
  /\ LET s == job[c].ref[1]
         pl == Live(job[c].ref[2])
     IN IF Has(s, pl)
        THEN /\ Put(s, pl, Nil)
             /\ snapshot' = [x \in Remote |-> IF x = s THEN Nil ELSE snapshot[x]]
             /\ Goto(c, "add")
        ELSE Goto(c, "failed") /\ UNCHANGED <<vault, snapshot>>
  /\ UNCHANGED <<bodies, idem, tomb, file, flushing, up, minted, calls, crashes, ghosts>>

(* Add takes the lock of the store and keeps it while it rewrites the file. *)
TombstoneAdd(c) ==
  /\ At(c, "delete", "add") /\ flushing = Nil
  /\ tomb' = tomb \cup {job[c].ref}
  /\ flushing' = c
  /\ Goto(c, "open")
  /\ UNCHANGED <<vault, snapshot, bodies, idem, file, up, minted, calls, crashes, ghosts>>

(* os.WriteFile truncates the file, then writes it: two steps to the file's *)
(* next reader.  Its errors are ignored.                                    *)
FlushOpen(c) ==
  /\ At(c, "delete", "open")
  /\ file' = Torn
  /\ Goto(c, "write")
  /\ UNCHANGED <<vault, snapshot, bodies, idem, tomb, flushing, up, minted, calls,
                 crashes, ghosts>>

\* Mutant: the file is written before the new tombstone is in the map.
WriteOldTombstones(c) == tomb \ {job[c].ref}

WrittenTombstones(c) == tomb

Unlock(c) ==
  /\ flushing' = Nil
  /\ Goto(c, "answered")
  /\ gone' = gone \cup (IF Has(job[c].ref[1], Live(job[c].ref[2])) THEN {} ELSE {job[c].ref})

FlushWrite(c) ==
  /\ At(c, "delete", "write")
  /\ file' = WrittenTombstones(c)
  /\ Unlock(c)
  /\ UNCHANGED <<vault, snapshot, bodies, idem, tomb, up, minted, calls, crashes,
                 acked, copied, aliased, broken>>

(* The disk refuses the open or the write: the answer is the same. *)
FlushError(c) ==
  /\ At(c, "delete", "open") \/ At(c, "delete", "write")
  /\ broken' = TRUE
  /\ Unlock(c)
  /\ UNCHANGED <<vault, snapshot, bodies, idem, tomb, file, up, minted, calls, crashes,
                 acked, copied, aliased>>

-----------------------------------------------------------------------------
(* A query of one scope; FederatedQuery has the fan-out and the paging. *)

QueryCall(c, s) ==
  /\ Begin(c, [op |-> "query", at |-> "fetch", scope |-> s, rows |-> {},
               fresh |-> FALSE, hidden |-> gone])
  /\ UNCHANGED <<stores, up, minted, crashes, ghosts>>

QueryFetch(c) ==
  /\ At(c, "query", "fetch")
  /\ LET s == job[c].scope
     IN \/ job' = [job EXCEPT ![c].at = "merge", ![c].rows = Listing(s), ![c].fresh = TRUE]
        \/ /\ s \in Remote /\ snapshot[s] # Nil
           /\ job' = [job EXCEPT ![c].at = "merge", ![c].rows = snapshot[s]]
  /\ UNCHANGED <<stores, up, minted, calls, crashes, ghosts>>

\* Mutant: the rows of the answer are not looked up in the tombstone store.
AllRows(s, rows) == rows

(* The rows that no tombstone hides. *)
Visible(s, rows) == {p \in rows : <<s, p>> \notin tomb}

(* A fresh answer of a remote scope enters its summary cache, however late; *)
(* then the tombstones filter it.                                           *)
QueryMerge(c) ==
  /\ At(c, "query", "merge") /\ flushing = Nil
  /\ LET s == job[c].scope
     IN /\ snapshot' = [x \in Remote |->
              IF x = s /\ job[c].fresh THEN job[c].rows ELSE snapshot[x]]
        /\ job' = [job EXCEPT ![c].at = "replied", ![c].rows = Visible(s, @),
                                ![c].hidden = @ \cap gone]
  /\ UNCHANGED <<vault, bodies, idem, tomb, file, flushing, up, minted, calls, crashes, ghosts>>

ExpireSnapshot(s) ==
  /\ up /\ snapshot[s] # Nil
  /\ snapshot' = [snapshot EXCEPT ![s] = Nil]
  /\ UNCHANGED <<vault, bodies, idem, tomb, file, flushing, up, job, minted, calls, crashes, ghosts>>

(* A note_get fills the body cache of a remote scope; an entry is dropped   *)
(* by its TTL, an eviction or an invalidation.                              *)
FillBody(s, p) ==
  /\ up /\ bodies[s][p] = Nil
  /\ bodies' = [bodies EXCEPT ![s][p] = vault[s][Live(p)]]
  /\ UNCHANGED <<vault, snapshot, idem, tomb, file, flushing, up, job, minted, calls,
                 crashes, ghosts>>

DropBody(s, p) ==
  /\ up
  /\ bodies' = [bodies EXCEPT ![s][p] = Nil]
  /\ UNCHANGED <<vault, snapshot, idem, tomb, file, flushing, up, job, minted, calls,
                 crashes, ghosts>>

-----------------------------------------------------------------------------
(* The gateway crashes: calls, caches and the memory of the store are lost. *)
Crash ==
  /\ up /\ crashes < MaxCrashes
  /\ up' = FALSE /\ crashes' = crashes + 1
  /\ job' = [c \in Clients |-> Nil]
  /\ idem' = [k \in {} |-> Nil] /\ acked' = [k \in Keys |-> {}]
  /\ snapshot' = [s \in Remote |-> Nil]
  /\ bodies' = [s \in Remote |-> [p \in Paths |-> Nil]]
  /\ tomb' = {} /\ flushing' = Nil
  /\ UNCHANGED <<vault, file, minted, calls, gone, copied, aliased, broken>>

(* It starts again from the tombstone file, unless the file does not parse. *)
Start ==
  /\ ~up /\ file # Torn
  /\ up' = TRUE /\ tomb' = file
  /\ UNCHANGED <<vault, snapshot, bodies, idem, file, flushing, job, minted, calls,
                 crashes, ghosts>>

ClientStep(c) ==
  \/ \E in \in Promotions : PromoteCall(c, in)
  \/ \E match \in BOOLEAN : PromoteGet(c, match)
  \/ PromoteMint(c)
  \/ PromoteCreate(c)
  \/ \E own \in BOOLEAN : PromoteReplace(c, own)
  \/ \E moves \in BOOLEAN : PromoteArchive(c, moves)
  \/ PromoteStore(c)
  \/ \E s \in Scopes, p \in Paths : DeleteCall(c, s, p)
  \/ DeleteVault(c)
  \/ TombstoneAdd(c)
  \/ FlushOpen(c)
  \/ FlushWrite(c)
  \/ FlushError(c)
  \/ \E s \in Scopes : QueryCall(c, s)
  \/ QueryFetch(c)
  \/ QueryMerge(c)
  \/ Done(c)

Next ==
  \/ \E c \in Clients : ClientStep(c)
  \/ \E p \in Paths, id \in 0..MaxMint : Create(p, id)
  \/ \E s \in Scopes, p \in Paths : UpdateBody(s, p)
  \/ \E k \in Keys : ExpireIdempotency(k)
  \/ \E s \in Remote : ExpireSnapshot(s)
  \/ \E s \in Remote, p \in Paths : FillBody(s, p) \/ DropBody(s, p)
  \/ Crash
  \/ Start

Spec == Init /\ [][Next]_vars

-----------------------------------------------------------------------------
(* Properties. *)

PromoteJob == [op: {"promote"}, in: PromoteInput, src: Note \cup {Nil},
               at: {"get", "mint", "create", "replace", "archive", "store"} \cup Finished,
               id: 0..MaxMint, res: Result \cup {Nil}, expect: SUBSET Result]
DeleteJob == [op: {"delete"}, at: {"delete", "add", "open", "write"} \cup Finished, ref: Ref]
QueryJob == [op: {"query"}, at: {"fetch", "merge"} \cup Finished, scope: Scopes,
             rows: SUBSET Paths, fresh: BOOLEAN, hidden: SUBSET Ref]

(* Every variable has its type. *)
TypeOK ==
  /\ vault \in [Scopes -> [Place -> Note \cup {Nil}]]
  /\ snapshot \in [Remote -> (SUBSET Paths) \cup {Nil}]
  /\ bodies \in [Remote -> [Paths -> Note \cup {Nil}]]
  /\ DOMAIN idem \subseteq Keys /\ \A k \in DOMAIN idem : idem[k] \in Result
  /\ tomb \subseteq Ref
  /\ file = Torn \/ file \subseteq Ref
  /\ flushing \in Clients \cup {Nil}
  /\ up \in BOOLEAN
  /\ job \in [Clients -> PromoteJob \cup DeleteJob \cup QueryJob \cup {Nil}]
  /\ minted \in 0..MaxMint /\ calls \in 0..MaxCalls /\ crashes \in 0..MaxCrashes
  /\ acked \in [Keys -> SUBSET Result]
  /\ gone \subseteq Ref /\ copied \subseteq 1..MaxMint /\ aliased \subseteq 1..MaxMint /\ broken \in BOOLEAN

(* A Promote whose key has been answered before, and whose entry has been   *)
(* neither expired nor evicted nor lost in a restart, touches no vault and  *)
(* answers a result that was answered for that key, whatever other calls    *)
(* with the key overlapped (lookupIdempotency, storeIdempotency).           *)
ReplayKnown ==
  \A c \in Clients :
    job[c] # Nil /\ job[c].op = "promote" =>
      (job[c].expect # {} => job[c].at = "answered" /\ job[c].res \in job[c].expect)

(* What a Promote has moved to archives/ is the content it has copied: an   *)
(* update of the source between the read and the move is never archived     *)
(* unseen (the Move carries the ETag of the note that was read).            *)
ArchivedWasCopied ==
  \A s \in Scopes, p \in Paths :
    Has(s, ArchivePath(p)) => vault[s][ArchivePath(p)].text \in copied

(* No two notes of the federation have the same NoteID, after promotions    *)
(* that keep their source, promotions that overwrite and promotions of old  *)
(* notes of the body cache (SetNoteID).  Overlapping promotions of one      *)
(* cached remote note are excepted: SetNoteID writes into the map they      *)
(* share, and both copies may get the last NoteID written there (aliased).  *)
UniqueIDs ==
  \A s, t \in Scopes : \A a, b \in Place :
    <<s, a>> # <<t, b>> /\ Has(s, a) /\ Has(t, b) /\ vault[s][a].id \notin {0} \cup aliased =>
      vault[s][a].id # vault[t][b].id

(* A query that starts after a Delete was answered does not list the note,  *)
(* even if a listing read before the Delete entered the summary cache after *)
(* it (tombstones.Contains in Query).                                       *)
NoGhostRow ==
  \A c \in Clients :
    job[c] # Nil /\ job[c].op = "query" =>
      (job[c].at = "replied" =>
         \A p \in job[c].rows : <<job[c].scope, p>> \notin job[c].hidden)

(* Unless a write of the file failed, a running gateway knows the tombstone *)
(* of every Delete it answered, across crashes at any step of the rewrite.  *)
AckedDeletesKept == up /\ ~broken => gone \subseteq tomb

=============================================================================
