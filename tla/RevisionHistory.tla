---------------------------- MODULE RevisionHistory ----------------------------
(***************************************************************************)
(* What the image queue promises whoever deploys a revision, without       *)
(* leaders, leases or claims: a revision has numbered generations, at most *)
(* the newest one is open, and the image shown for it changes only when    *)
(* the newest generation is published or the image is pruned.              *)
(***************************************************************************)
EXTENDS Naturals

CONSTANT Revisions

VARIABLE history   \* per revision: newest generation, whether it is open,
                   \* and the generation whose image is shown (0: none)

Entry == [newest : Nat, open : BOOLEAN, shown : Nat]

Init == history = [r \in Revisions |->
                     [newest |-> 0, open |-> FALSE, shown |-> 0]]

(* A new generation is requested; it replaces one that is still open. *)
Request(old, new) ==
    new = [old EXCEPT !.newest = @ + 1, !.open = TRUE]

Publish(old, new) ==
    old.open /\ new = [old EXCEPT !.open = FALSE, !.shown = old.newest]

(* The open generation fails, is given up or is superseded: the image      *)
(* shown so far stays.                                                     *)
Abandon(old, new) ==
    old.open /\ new = [old EXCEPT !.open = FALSE]

Prune(old, new) ==
    old.shown # 0 /\ new = [old EXCEPT !.shown = 0]

Change(old, new) ==
    \/ Request(old, new) \/ Publish(old, new)
    \/ Abandon(old, new) \/ Prune(old, new)

(* One transaction may touch several revisions, each of them once. *)
Next ==
    /\ history' \in [Revisions -> Entry]
    /\ \A r \in Revisions :
         history'[r] = history[r] \/ Change(history[r], history'[r])

Spec == Init /\ [][Next]_history
===============================================================================
