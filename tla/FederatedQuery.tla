-------------------------- MODULE FederatedQuery --------------------------
(***************************************************************************)
(* Reads that fan out over the vaults of a federation: Query with its      *)
(* cursors, and Search, SemanticSearch and Backlinks                       *)
(* (internal/application/federation.go, cursor.go, registry.go, the scope  *)
(* checks of service.go and the in-memory cursor store).                   *)
(*                                                                         *)
(* One client pages through a listing while notes are created, updated and *)
(* removed, remote summaries age in their cache, scopes are revoked, vaults *)
(* fail, cursor handles expire and the gateway restarts.  Every vault is   *)
(* asked in a step of its own, as the goroutines of the fan-out do, and    *)
(* the answers are merged in a last step.                                  *)
(*                                                                         *)
(* A vault holds ranks: the places of its notes in the listing order.  A   *)
(* note may take any of several ranks (NameOf), one at a time: an update   *)
(* moves it, since a listing is sorted by the time of the update.  Notes   *)
(* of two scopes may tie: the order of tied rows depends on which          *)
(* goroutine answered first, so the merge picks any page that agrees with  *)
(* the ranks.                                                              *)
(***************************************************************************)
EXTENDS Integers, Sequences, FiniteSets, FiniteSetsExt

CONSTANTS
  Scopes,        \* the registered scopes
  Remote,        \* those behind another server's notes_list handler
  Ranks,         \* places in the listing order, a set of naturals
  NameOf,        \* rank -> the path of the note that may take it
  Limits,        \* page sizes a client may ask for, zero and below included
  Starts,        \* offsets a client may start a listing from, negative ones too
  Filters,       \* sets of scopes a client may name in its filter
  MaxPage,       \* most rows a vault lists at once (100 in the code)
  DefaultLimit,  \* rows for a limit that is not positive (20, or 10 with vectors)
  OverFetch,     \* hits a vault's text search takes for each row it wants (3)
  MaxListOffset, \* largest offset notes_list accepts (500 in the code)
  InlineBudget,  \* scopes whose cursor still fits in 1024 bytes
  Initial,       \* what a vault may hold at first, of the contents it can have
  MaxPages,      \* bound: pages of one listing that show rows
  MaxChanges,    \* bound: changes by others during the listing
  NoCursor,      \* the empty cursor string
  Idle           \* no request is being served

ASSUME QueryAssumption ==
  /\ Remote \subseteq Scopes /\ IsFiniteSet(Scopes)
  /\ Ranks \subseteq Nat /\ IsFiniteSet(Ranks) /\ DOMAIN NameOf = Ranks
  /\ Limits \subseteq Int /\ Starts \subseteq Int /\ Filters \subseteq SUBSET Scopes
  /\ MaxPage \in Nat \ {0} /\ MaxListOffset \in Nat
  /\ DefaultLimit \in Nat \ {0} /\ OverFetch \in Nat \ {0}
  /\ InlineBudget \in Nat /\ MaxPages \in Nat \ {0} /\ MaxChanges \in Nat

VARIABLES
  vault,    \* [Scopes -> Contents]: what each vault would list
  past,     \* earlier contents that the cached summaries of a scope may still show
  tomb,     \* the refs of the tombstone store
  allowed,  \* the scopes the caller may read, resolved on every request
  boot,     \* incarnation of the gateway: its random cursorKey
  store,    \* the cursor store: handle -> payload
  cursor,   \* NextCursor of the last page the client received
  pages,    \* the answers the client received, empty ones with a cursor left out
  status,   \* how the listing stands: "open", "done" or "error"
  req,      \* the request being served
  upset,    \* what happened to the listing since its first request
  changes   \* number of changes made by others

others == <<vault, past, tomb, allowed, boot, changes>>
vars == <<others, store, cursor, pages, status, req, upset>>

(* A note takes one rank. *)
Contents ==
  {notes \in SUBSET Ranks : \A p, q \in notes : NameOf[p] = NameOf[q] => p = q}

Row == Scopes \X Ranks
RefOf(row) == <<row[1], NameOf[row[2]]>>
Refs == {RefOf(row) : row \in Row}

Offsets == [Scopes -> Int]
Payload == [scopes: SUBSET Scopes, offsets: Offsets]
Handle == 1..MaxPages
Cursor == [kind: {"inline", "handle"}, boot: Nat, handle: Handle, data: Payload]

Page == [rows: SUBSET Row, from: Offsets, attempted: SUBSET Scopes,
         allowed: SUBSET Scopes]

Upsets == {"created", "updated", "removed", "hidden", "stale", "failed",
           "revoked", "negative", "zero"}
Kinds == {"query", "search", "hybrid", "semantic", "backlinks"}
Outcome == {"ok", "failed", "unavailable"}

Request == [kind: Kinds, limit: Limits \cup {DefaultLimit}, allowed: SUBSET Scopes,
            scopes: SUBSET Scopes, offsets: Offsets,
            asked: SUBSET Scopes, result: [Scopes -> Outcome],
            rows: SUBSET Row, held: SUBSET Row]

ASSUME InitialAssumption == Initial \subseteq Contents
ASSUME NilAssumption == NoCursor \notin Cursor /\ Idle \notin Request

Init ==
  /\ vault \in [Scopes -> Initial]
  /\ past = [s \in Scopes |-> {}]
  /\ tomb \in {{}} \cup {{r} : r \in Refs}
  /\ allowed = Scopes
  /\ boot = 0
  /\ store = [h \in {} |-> {}]
  /\ cursor = NoCursor
  /\ pages = <<>>
  /\ status = "open"
  /\ req = Idle
  /\ upset = {}
  /\ changes = 0

-----------------------------------------------------------------------------
(* One vault's page: sorted, at most MaxPage rows, from the offset on. *)

RankIn(p, notes) == Cardinality({n \in notes : n < p})

PageLimit(limit) == IF limit <= 0 THEN DefaultLimit ELSE limit

VaultQuery(notes, limit, offset) ==
  LET lim == Min({PageLimit(limit), MaxPage})
      off == Max({offset, 0})
  IN {p \in notes : RankIn(p, notes) >= off /\ RankIn(p, notes) < off + lim}

(* What a vault's indexes may offer a search that wants limit rows of the   *)
(* notes.  A text search takes OverFetch hits for each of them and only     *)
(* then leaves out the hits that the filter rejects or that have no cached  *)
(* summary.  What the vectors find is up to the vector store; a pure vector *)
(* search drops what is no longer in the vault after it was cut.            *)
TextHits(notes, rejected, limit) ==
  {p \in notes : RankIn(p, notes \cup rejected) < OverFetch * limit}

Offers(kind, notes, limit) ==
  CASE kind = "search"    -> {TextHits(notes, out, limit) : out \in SUBSET (Ranks \ notes)}
    [] kind = "hybrid"    -> SUBSET notes
    [] kind = "semantic"  -> {hits \in SUBSET notes : Cardinality(hits) <= limit}
    [] kind = "backlinks" -> {notes}
    [] OTHER              -> {}

(* The best of the hits, as many as asked for, MaxPage or not. *)
VaultSearch(hits, limit) == {p \in hits : RankIn(p, hits) < limit}

(* The pages a merge of rows may cut at limit: no row left out ranks before *)
(* a row taken.                                                             *)
TopRows(rows, limit) ==
  {t \in SUBSET rows :
     /\ Cardinality(t) = Min({limit, Cardinality(rows)})
     /\ \A a \in t, b \in rows \ t : a[2] <= b[2]}

(* effectiveScopes: allowed and registered, narrowed by the filter's scopes. *)
EffectiveScopes(allow, requested) ==
  IF requested = {} THEN allow \cap Scopes ELSE allow \cap Scopes \cap requested

(* A new request, with the scopes it will ask and their offsets. *)
NewRequest(kind, limit, scopes, offsets) ==
  [kind |-> kind, limit |-> limit, allowed |-> allowed, scopes |-> scopes,
   offsets |-> offsets, asked |-> {}, result |-> [s \in Scopes |-> "ok"],
   rows |-> {}, held |-> {}]

-----------------------------------------------------------------------------
(* Cursors. *)

Inline(p) == Cardinality(p.scopes) <= InlineBudget

\* Mutant: handles are counted from zero.
EncodeCursorFromZero(p, h) ==
  [kind |-> IF Inline(p) THEN "inline" ELSE "handle", boot |-> boot,
   handle |-> h - 1, data |-> p]

EncodeCursor(p, h) ==
  [kind |-> IF Inline(p) THEN "inline" ELSE "handle", boot |-> boot,
   handle |-> h, data |-> p]

(* Put: the store of the handles, with one more. *)
PutCursor(p, h) ==
  [x \in DOMAIN store \cup {h} |-> IF x = h THEN p ELSE store[x]]

(* A handle must still be in the store; an inline cursor must carry the mac *)
(* of this incarnation's key.                                               *)
DecodeCursor(c) ==
  IF c.kind = "handle"
  THEN IF c.handle \in DOMAIN store THEN {store[c.handle]} ELSE {}
  ELSE IF c.boot = boot THEN {c.data} ELSE {}

\* Mutant: a cursor keeps the scopes it was issued for.
KeepScopes(p) == p.scopes

(* The sticky scopes of a cursor are intersected again with what the caller *)
(* may read now.                                                            *)
StickyScopes(p) == p.scopes \cap allowed

-----------------------------------------------------------------------------
(* The client's requests. *)

Listed == {r \in Row : r[2] \in vault[r[1]]}
Hides == \E r \in Listed : RefOf(r) \in tomb

(* The first page of a listing, from an offset that is refused when it is   *)
(* too large and taken as it is when it is negative.                        *)
StartQuery(limit, requested, start) ==
  /\ req = Idle /\ status = "open" /\ pages = <<>> /\ cursor = NoCursor
  /\ IF start > MaxListOffset
     THEN status' = "error" /\ UNCHANGED <<req, upset>>
     ELSE /\ req' = NewRequest("query", limit, EffectiveScopes(allowed, requested),
                               [s \in Scopes |-> start])
          /\ upset' = (IF Hides THEN {"hidden"} ELSE {})
                      \cup (IF start < 0 THEN {"negative"} ELSE {})
          /\ UNCHANGED status
  /\ UNCHANGED <<others, store, cursor, pages>>

\* Mutant: a request whose cursor cannot be decoded gets no answer.
IgnoreBadCursor(limit) ==
  /\ req = Idle /\ status = "open" /\ cursor # NoCursor
  /\ Len(pages) < MaxPages
  /\ \E p \in DecodeCursor(cursor) :
       req' = NewRequest("query", limit, StickyScopes(p), p.offsets)
  /\ UNCHANGED <<others, store, cursor, pages, status, upset>>

(* The next page: the cursor gives the scopes and the offsets, or is refused. *)
NextQuery(limit) ==
  /\ req = Idle /\ status = "open" /\ cursor # NoCursor
  /\ Len(pages) < MaxPages
  /\ IF DecodeCursor(cursor) = {}
     THEN status' = "error" /\ UNCHANGED req
     ELSE \E p \in DecodeCursor(cursor) :
            /\ req' = NewRequest("query", limit, StickyScopes(p), p.offsets)
            /\ UNCHANGED status
  /\ UNCHANGED <<others, store, cursor, pages, upset>>

(* Search, HybridSearch, SemanticSearch and Backlinks fan out without       *)
(* offsets; the ones with vectors have a default for a limit that is not    *)
(* positive.  The model lets the client ask one of them instead of a listing. *)
StartSearch(kind, limit, requested) ==
  /\ req = Idle /\ status = "open" /\ pages = <<>> /\ cursor = NoCursor
  /\ req' = NewRequest(kind, IF kind = "search" THEN limit ELSE PageLimit(limit),
                       EffectiveScopes(allowed, requested), [s \in Scopes |-> 0])
  /\ UNCHANGED <<others, store, cursor, pages, status, upset>>

-----------------------------------------------------------------------------
(* The fan-out. *)

\* Mutant: a listing does not ask for the extra row.
AskPageOnly(r) == r.limit

\* Mutant: a search asks each vault for one row too few.
AskShort(r) == IF r.kind = "query" THEN r.limit + 1 ELSE r.limit - 1

(* A listing asks each vault for one row more than the page. *)
AskedLimit(r) == IF r.kind = "query" THEN r.limit + 1 ELSE r.limit

(* Not answered: a listing whose offset the notes_list handler of the       *)
(* remote server refuses, and a text search of a remote server, whose       *)
(* answer RemoteVault.Search cannot decode.                                 *)
Refuses(r, s) ==
  /\ s \in Remote
  /\ r.kind = "search" \/ (r.kind = "query" /\ r.offsets[s] > MaxListOffset)

(* The goroutine of scope s puts its vault's answer in the channel. *)
Reply(s, rows, hits) ==
  /\ req # Idle /\ s \in req.scopes \ req.asked
  /\ ~Refuses(req, s)
  /\ req' = [req EXCEPT !.asked = @ \cup {s},
                        !.rows = @ \cup ({s} \X rows),
                        !.held = @ \cup ({s} \X hits)]
  /\ UNCHANGED <<others, store, cursor, pages, status>>

(* A remote vault may answer from the summaries it has cached for this page. *)
AnswerQuery(s) ==
  \E notes \in {vault[s]} \cup past[s] :
    /\ req # Idle /\ req.kind = "query"
    /\ Reply(s, VaultQuery(notes, AskedLimit(req), req.offsets[s]), {})
    /\ upset' = IF notes = vault[s] THEN upset ELSE upset \cup {"stale"}

AnswerSearch(s) ==
  /\ req # Idle /\ req.kind # "query"
  /\ \E hits \in Offers(req.kind, vault[s], PageLimit(AskedLimit(req))) :
       Reply(s, IF req.kind = "backlinks" THEN hits
                ELSE VaultSearch(hits, PageLimit(AskedLimit(req))), hits)
  /\ UNCHANGED upset

(* The vault of scope s fails: a listing records it, a search drops it. *)
Failure(s, why) ==
  /\ req # Idle /\ s \in req.scopes \ req.asked
  /\ req' = [req EXCEPT !.asked = @ \cup {s}, !.result[s] = why]
  /\ upset' = upset \cup {"failed"}
  /\ UNCHANGED <<vault, past, tomb, allowed, boot, store, cursor, pages, status>>

Refused(s) == Failure(s, "failed") /\ Refuses(req, s) /\ UNCHANGED changes

(* A hybrid search does without the half that failed. *)
Fail(s, why) ==
  /\ Failure(s, why) /\ ~Refuses(req, s)
  /\ req.kind # "hybrid" /\ (why = "unavailable" => req.kind = "semantic")
  /\ changes < MaxChanges /\ changes' = changes + 1

Answered == req # Idle /\ req.asked = req.scopes
Succeeded == {s \in req.scopes : req.result[s] = "ok"}

(* The rows of the answers that no tombstone hides. *)
Visible == {r \in req.rows : RefOf(r) \notin tomb}

\* Mutant: the new offset forgets the old one.
AdvanceFromZero(offsets, scopes, page) ==
  [s \in Scopes |-> Cardinality({r \in page : r[1] = s})]

(* Advance each scope by the rows of it that the page took. *)
Advance(offsets, scopes, page) ==
  [s \in Scopes |-> IF s \in scopes
                    THEN offsets[s] + Cardinality({r \in page : r[1] = s})
                    ELSE 0]

PageOf(rows) ==
  [rows |-> rows, from |-> req.offsets, attempted |-> req.scopes, allowed |-> req.allowed]

HasMore == Cardinality(Visible) > req.limit

(* wg.Wait, merge, sort, cut, and the cursor of the next page.  With no     *)
(* successful scope the caller gets ErrUnavailable.  A limit of zero gives  *)
(* an empty page with a cursor to where it was.                             *)
Collect ==
  /\ Answered /\ req.kind = "query" /\ Succeeded # {} /\ req.limit >= 0
  /\ \E page \in TopRows(Visible, req.limit) :
       LET p == [scopes |-> req.scopes,
                 offsets |-> Advance(req.offsets, req.scopes, page)]
           h == Len(pages) + 1
       IN /\ pages' = IF HasMore /\ req.limit = 0 THEN pages ELSE Append(pages, PageOf(page))
          /\ cursor' = IF HasMore THEN EncodeCursor(p, h) ELSE NoCursor
          /\ store' = IF HasMore /\ ~Inline(p) THEN PutCursor(p, h) ELSE store
  /\ status' = IF HasMore THEN "open" ELSE "done"
  /\ upset' = upset \cup (IF Visible # req.rows THEN {"hidden"} ELSE {})
                   \cup (IF HasMore /\ req.limit = 0 THEN {"zero"} ELSE {})
  /\ req' = Idle
  /\ UNCHANGED others

Unavailable ==
  /\ Answered /\ req.kind = "query" /\ Succeeded = {}
  /\ status' = "error" /\ req' = Idle
  /\ UNCHANGED <<others, store, cursor, pages, upset>>

(* Query and Search slice with a negative limit: the request panics, and    *)
(* with it the process, unless the transport recovers.                      *)
Panic ==
  /\ Answered /\ req.kind \in {"query", "search"} /\ req.limit < 0
  /\ req.kind = "query" => Succeeded # {}
  /\ status' = "error" /\ req' = Idle
  /\ UNCHANGED <<others, store, cursor, pages, upset>>

(* The merges of Search, HybridSearch and SemanticSearch drop the scopes    *)
(* that failed and keep the best rows of the others; Backlinks keeps them   *)
(* all.                                                                     *)
BestMatches(r) == TopRows(r.rows, r.limit)
AllBacklinks(r) == r.rows

(* SemanticSearch reports a missing capability only when nothing was found. *)
NotCapable(r, found) ==
  r.kind = "semantic" /\ found = {} /\ \E s \in Scopes : r.result[s] = "unavailable"

MergeSearch ==
  /\ Answered /\ req.kind # "query" /\ status = "open"
  /\ req.kind = "search" => req.limit >= 0
  /\ \E found \in IF req.kind = "backlinks" THEN {AllBacklinks(req)} ELSE BestMatches(req) :
       /\ pages' = <<PageOf(found)>>
       /\ status' = IF NotCapable(req, found) THEN "error" ELSE "done"
  /\ UNCHANGED <<others, store, cursor, req, upset>>

-----------------------------------------------------------------------------
(* What happens meanwhile. *)

(* (What they do before the client's first request is in the initial states.) *)
Meddle ==
  /\ status = "open" /\ (req # Idle \/ cursor # NoCursor)
  /\ changes < MaxChanges /\ changes' = changes + 1

(* A remote vault's summaries, cached before the change, may outlive it: for *)
(* their TTL, or until a write or an event drops them (RemoteCache has how). *)
(* Since a vault need not answer from what is past, dropping it takes no     *)
(* step of its own.                                                          *)
Change(s, notes) ==
  /\ Meddle
  /\ vault' = [vault EXCEPT ![s] = notes]
  /\ past' = IF s \in Remote THEN [past EXCEPT ![s] = @ \cup {vault[s]}] ELSE past
  /\ UNCHANGED <<allowed, boot, store, cursor, pages, status, req>>

(* Somebody else creates, updates or removes a note; a removal through the  *)
(* federation leaves a tombstone (FederatedWrites has the steps of Delete). *)
OtherCreate(s, p) ==
  /\ \A q \in vault[s] : NameOf[q] # NameOf[p]
  /\ Change(s, vault[s] \cup {p})
  /\ upset' = upset \cup {"created"} \cup (IF RefOf(<<s, p>>) \in tomb THEN {"hidden"} ELSE {})
  /\ UNCHANGED tomb

OtherUpdate(s, p, q) ==
  /\ p \in vault[s] /\ p # q /\ NameOf[p] = NameOf[q]
  /\ Change(s, (vault[s] \ {p}) \cup {q})
  /\ upset' = upset \cup {"updated"}
  /\ UNCHANGED tomb

OtherDelete(s, p) ==
  /\ p \in vault[s]
  /\ Change(s, vault[s] \ {p})
  /\ tomb' \in {tomb, tomb \cup {RefOf(<<s, p>>)}}
  /\ upset' = upset \cup {"removed"}

(* The caller's scopes are resolved afresh on every request. *)
Revoke(s) ==
  /\ Meddle /\ s \in allowed
  /\ allowed' = allowed \ {s}
  /\ upset' = upset \cup {"revoked"}
  /\ UNCHANGED <<vault, past, tomb, boot, store, cursor, pages, status, req>>

(* The handle that the client holds outlives its ten minutes.  (While a     *)
(* request is served nobody looks at the handle it came with.)              *)
ExpireHandle(h) ==
  /\ status = "open" /\ req = Idle /\ h \in DOMAIN store
  /\ cursor # NoCursor /\ cursor.kind = "handle" /\ cursor.handle = h
  /\ store' = [x \in DOMAIN store \ {h} |-> store[x]]
  /\ UNCHANGED <<others, cursor, pages, status, req, upset>>

(* The gateway restarts: a new random cursorKey, an empty cursor store, no  *)
(* cached summaries, and the request being served is lost.                  *)
Restart ==
  /\ Meddle
  /\ boot' = boot + 1
  /\ store' = [h \in {} |-> {}]
  /\ status' = IF req = Idle THEN status ELSE "error"
  /\ req' = Idle
  /\ past' = [s \in Scopes |-> {}]
  /\ UNCHANGED <<vault, tomb, allowed, cursor, pages, upset>>

Serve ==
  \/ \E limit \in Limits : NextQuery(limit)
  \/ \E s \in Scopes : AnswerQuery(s)
  \/ \E s \in Scopes : AnswerSearch(s)
  \/ Collect
  \/ Panic
  \/ Unavailable
  \/ MergeSearch
  \/ \E s \in Scopes : Refused(s)

Others ==
  \/ \E s \in Scopes, why \in Outcome \ {"ok"} : Fail(s, why)
  \/ \E s \in Scopes, p \in Ranks : OtherCreate(s, p)
  \/ \E s \in Scopes, p, q \in Ranks : OtherUpdate(s, p, q)
  \/ \E s \in Scopes, p \in Ranks : OtherDelete(s, p)
  \/ \E s \in Scopes : Revoke(s)
  \/ \E h \in Handle : ExpireHandle(h)
  \/ Restart

Next ==
  \/ \E limit \in Limits, f \in Filters, start \in Starts : StartQuery(limit, f, start)
  \/ \E k \in Kinds \ {"query"}, limit \in Limits, f \in Filters :
       StartSearch(k, limit, f)
  \/ Serve
  \/ Others

Spec == Init /\ [][Next]_vars /\ WF_vars(Serve)

-----------------------------------------------------------------------------
(* Properties. *)

(* Every variable has its type. *)
TypeOK ==
  /\ vault \in [Scopes -> Contents]
  /\ past \in [Scopes -> SUBSET Contents]
  /\ tomb \subseteq Refs
  /\ allowed \subseteq Scopes
  /\ boot \in 0..MaxChanges
  /\ DOMAIN store \subseteq Handle /\ \A h \in DOMAIN store : store[h] \in Payload
  /\ cursor \in Cursor \cup {NoCursor}
  /\ pages \in Seq(Page) /\ Len(pages) <= MaxPages
  /\ status \in {"open", "done", "error"}
  /\ req \in Request \cup {Idle}
  /\ upset \subseteq Upsets
  /\ changes \in 0..MaxChanges

Received == UNION {pages[i].rows : i \in DOMAIN pages}

(* No note is shown twice, at one rank or at two. *)
RepeatFree ==
  \A i, j \in DOMAIN pages : \A a \in pages[i].rows, b \in pages[j].rows :
    RefOf(a) = RefOf(b) => i = j /\ a = b

(* The rows of an answer belong to scopes the caller was allowed to read    *)
(* when the request was made, whatever scopes the cursor was issued for     *)
(* (resolveScopesAndOffsets intersects the sticky scopes again).            *)
OnlyAllowed ==
  \A i \in DOMAIN pages : \A r \in pages[i].rows : r[1] \in pages[i].allowed

(* Failing scopes, revoked scopes, notes removed while the client pages,    *)
(* and any mix of page sizes never make a note appear on two pages.  What   *)
(* can: a note created or updated meanwhile, a tombstone that hides a row   *)
(* the vault still lists, a remote scope that answers from summaries it     *)
(* cached before a change, and a negative start offset, which the vaults    *)
(* take for zero (newOffsets in Query counts the rows each scope put on the *)
(* page).                                                                   *)
NoRepeat ==
  upset \cap {"created", "updated", "hidden", "stale", "negative"} = {} => RepeatFree

(* A listing that nothing disturbed and that ended shows every note of the  *)
(* scopes it attempted, from the start offset of each on, once, in order:   *)
(* the offsets per scope neither skip a row at a page boundary nor end the  *)
(* listing early, whatever page sizes the client mixes, zero among them.    *)
(* Cached summaries do not disturb a listing as long as they are those of   *)
(* what the remote vault holds.                                             *)
PagingExact ==
  status = "done" /\ req = Idle /\ upset \subseteq {"zero"} =>
    /\ RepeatFree
    /\ Received = {r \in Listed :
                     /\ r[1] \in pages[1].attempted
                     /\ RankIn(r[2], vault[r[1]]) >= pages[1].from[r[1]]}
    /\ \A i, j \in DOMAIN pages :
         i < j => \A a \in pages[i].rows, b \in pages[j].rows : a[2] <= b[2]

(* A search that succeeds returns the best rows of all that the indexes of  *)
(* the scopes that answered offered it together, although each of them was  *)
(* asked for its own best rows only (the merges of Search, HybridSearch and *)
(* SemanticSearch).  It says nothing of a note that its own index did not   *)
(* offer: a text search stops at OverFetch hits for each row and filters    *)
(* only then, a remote server's text search is never among the answers, and *)
(* the vectors are those of SemanticPipeline.                               *)
SearchBest ==
  status = "done" /\ req # Idle =>
    LET rows == pages[1].rows
    IN IF req.kind = "backlinks" THEN rows = req.held
       ELSE rows \in TopRows(req.held, req.limit)

(* A client that keeps asking for rows comes to an end: every page with a   *)
(* cursor that shows rows has moved some scope's offset forward.  With a    *)
(* limit of zero it has not, and such a client may ask for ever.            *)
PagingEnds ==
  (pages # <<>> \/ cursor # NoCursor \/ req # Idle) ~> (status # "open" \/ "zero" \in upset)

=============================================================================
