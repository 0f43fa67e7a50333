----------------------------- MODULE MCApkFeed -----------------------------
(* Instances of ApkFeed for TLC. *)
EXTENDS ApkFeed

\* One package, "a", of one version, "1", with times that are time.Time's
\* zero, the epoch, and two later.  Its list of provides has every kind of
\* token, and a version that the package itself may have.
MCLines ==
    {LineOf("", "", 0, {}),
     LineOf("P", "a", 0, {}), LineOf("V", "1", 0, {}),
     LineOf("t", "zero", 0, {}), LineOf("t", "epoch", 1, {}),
     LineOf("t", "old", 2, {}), LineOf("t", "new", 3, {}),
     LineOf("p", "list", 0,
            {Token("b", "1"), Token("b", ""), Token("c", NameOnly),
             Token("d", Unversioned), Token("", "1")})}
MCNames == {"a", "b"}

\* Two architectures of one repository, two repositories of one.
MCConfigs == {<<1, 2>>, <<1, 1>>}
=============================================================================
