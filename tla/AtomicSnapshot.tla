--------------------------- MODULE AtomicSnapshot ---------------------------
(***************************************************************************)
(* What snapshot.Generate promises to whoever reads the output path while  *)
(* it runs, once or several times at once: nothing is there, until in one  *)
(* step a whole tree is, and a tree with anything in it then stays.  Who   *)
(* has published says so, who has not cannot, and either may be killed     *)
(* before it has said anything.                                            *)
(***************************************************************************)
CONSTANTS
    Process,    \* Generates, with one output path
    Package,    \* what they may write a releases.json for
    Nobody      \* who has made what is not there

VARIABLES
    out,        \* the tree at the output path, bare if none, and who made it
    status      \* how far each Generate is, or what it has returned

vars == <<out, status>>

Tree == [Package -> {"none", "whole"}]
Bare == [k \in Package |-> "none"]
MadeBy(p, tree) == [by |-> p, tree |-> tree]
Becomes(p, state) == status' = [status EXCEPT ![p] = state]

Init ==
    /\ out = MadeBy(Nobody, Bare)
    /\ status = [p \in Process |-> "working"]

\* A directory without a file gives way, as rename has it.
Publish(p) ==
    /\ status[p] = "working"
    /\ out.tree = Bare
    /\ Becomes(p, "published")
    /\ \E tree \in Tree : out' = MadeBy(p, tree)

Succeed(p) == status[p] = "published" /\ Becomes(p, "ok") /\ UNCHANGED out

Fail(p) == status[p] = "working" /\ Becomes(p, "failed") /\ UNCHANGED out

Die(p) == status[p] \in {"working", "published"} /\ Becomes(p, "killed") /\ UNCHANGED out

Next == \E p \in Process : Publish(p) \/ Succeed(p) \/ Fail(p) \/ Die(p)

Spec == Init /\ [][Next]_vars
=============================================================================
