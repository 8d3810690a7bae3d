---------------------------- MODULE BacklinkGraph ----------------------------
(***************************************************************************)
(* noteutil.BacklinkGraph as operators on its value: the outbound links of *)
(* every note and the inverse index from a target to the notes that link   *)
(* to it.  Each operator is one critical section of the graph's mutex.     *)
(* ParseLinks keeps one link per target, so a slice of links is a set of   *)
(* them and a missing map entry is an empty set.                           *)
(***************************************************************************)
CONSTANTS Paths,    \* storage paths of notes
          Targets   \* keys that links point to

OutLink     == [target : Targets, asset : BOOLEAN]
BacklinkSrc == [path : Paths, asset : BOOLEAN]
Graphs      == [out : [Paths -> SUBSET OutLink], back : [Targets -> SUBSET BacklinkSrc]]

NewBacklinkGraph ==
  [out |-> [p \in Paths |-> {}], back |-> [x \in Targets |-> {}]]

LinkKeys(links) == {l.target : l \in links}

Without(srcs, p) == {s \in srcs : s.path # p}

\* What p contributes to the entry of target x when it has these links.
Entries(p, links, x) ==
  {[path |-> p, asset |-> l.asset] : l \in {m \in links : m.target = x}}

\* removeLocked: only the targets in p's own outbound links are visited.
Remove(g, p) ==
  [out  |-> [g.out EXCEPT ![p] = {}],
   back |-> [x \in Targets |-> IF x \in LinkKeys(g.out[p])
                                 THEN Without(g.back[x], p) ELSE g.back[x]]]

Upsert(g, p, links) ==
  LET h == Remove(g, p)
  IN  [out  |-> [h.out EXCEPT ![p] = links],
       back |-> [x \in Targets |-> h.back[x] \cup Entries(p, links, x)]]

\* Mutant: the links that were dropped keep their backlinks.
UpsertDiffKeeps(g, p, old, new) ==
  IF LinkKeys(old) = LinkKeys(new) THEN g
  ELSE [out  |-> [g.out EXCEPT ![p] = new],
        back |-> [x \in Targets |-> g.back[x] \cup
                    Entries(p, {l \in new : l.target \notin LinkKeys(old)}, x)]]

\* `old` is what the caller read from the graph before, under another critical
\* section; with equal targets nothing is touched, the asset flags included.
UpsertDiff(g, p, old, new) ==
  IF LinkKeys(old) = LinkKeys(new) THEN g
  ELSE LET dropped == LinkKeys(old) \ LinkKeys(new)
           added   == {l \in new : l.target \notin LinkKeys(old)}
       IN  [out  |-> [g.out EXCEPT ![p] = new],
            back |-> [x \in Targets |->
                        (IF x \in dropped THEN Without(g.back[x], p) ELSE g.back[x])
                        \cup Entries(p, added, x)]]

\* p appears among the backlinks only of targets it links to.
PhantomFree(g, p) ==
  \A x \in Targets : (\E s \in g.back[x] : s.path = p) => x \in LinkKeys(g.out[p])
=============================================================================
