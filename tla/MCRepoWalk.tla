----------------------------- MODULE MCRepoWalk -----------------------------
(* Instances of RepoWalk for TLC. *)
EXTENDS RepoWalk

CONSTANTS a, b, c

\* Subgroups to any depth, second parents, and cycles of every length.
MCLink ==
    {<<Root, a>>, <<Root, b>>, <<a, b>>, <<a, c>>, <<b, c>>,
     <<c, c>>, <<c, a>>, <<c, Root>>}

\* Of three subgroups two have the same name, be they siblings, uncle and
\* nephew, or one in the other.
MCNameOf(g) == IF g = Root THEN "org" ELSE IF g = a THEN "platform" ELSE "team"
=============================================================================
