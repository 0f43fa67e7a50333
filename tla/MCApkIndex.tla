----------------------------- MODULE MCApkIndex -----------------------------
(* Instances of ApkIndex for TLC. *)
EXTENDS ApkIndex

\* Feed 1 lists "a" in every edition; the others list it, and feed 1 drops
\* "b", in their second edition; "c" is in no index; "x/y" is not a name.
MCNames == {"a", "b", "c", "x/y"}
MCWellFormed == MCNames \ {"x/y"}
MCLists(f, e) ==
    (IF f = 1 \/ e >= 2 THEN {"a"} ELSE {})
        \cup (IF f # 1 \/ e = 1 THEN {"b"} ELSE {})
=============================================================================
