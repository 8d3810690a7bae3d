--------------------------- MODULE MCVaultWatcher ---------------------------
(***************************************************************************)
(* One note at projects/x.md and the path its soft delete and its moves go *)
(* to, .trash/x.md, which has the same base name.                          *)
(***************************************************************************)
EXTENDS VaultWatcher, TLC

CONSTANTS note, trash, a, b, oneLink, twoLinks

MCTrashOf == [p \in Paths |-> trash]
MCBaseOf  == [p \in Paths |-> "x.md"]
MCLink(x) == [target |-> x, asset |-> FALSE]
MCLinksOf == [t \in Texts |->
                CASE t = oneLink  -> {MCLink(a)}
                  [] t = twoLinks -> {MCLink(a), MCLink(b)}
                  [] OTHER        -> {}]

MCBudget(c, e, l) == [calls |-> c, edits |-> e, losses |-> l]

\* Two calls, a call and a change by the editor, or one of them and a lost event.
MCBudgets == { MCBudget(2, 0, 0), MCBudget(1, 1, 0), MCBudget(1, 0, 1),
               MCBudget(0, 2, 0), MCBudget(0, 1, 1) }

\* For liveness: one change and a lost event, or a call that meets the editor.
MCLiveBudgets == { MCBudget(1, 1, 0), MCBudget(1, 0, 1), MCBudget(0, 1, 1) }

MCMoveBudgets == { MCBudget(3, 0, 0) }

MCTwoCalls == { MCBudget(2, 0, 0) }

\* The slots are interchangeable.
MCSymmetry == Permutations(Slots)
=============================================================================
