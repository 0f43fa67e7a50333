--------------------------- MODULE MCRepoReleases ---------------------------
(* Instances of RepoReleases for TLC. *)
EXTENDS RepoReleases, TLC

\* No query, which leaves it to the default; the least and the most that a
\* query may say, and one more and one less than that.
MCAges == {Unsaid, 0, 2, 3, -1}

RequestSymmetry == Permutations(Request)
=============================================================================
