------------------------- MODULE MC_ReleaseSelection -------------------------
(* ReleaseSelection on a small alphabet: "a" and "b" are hex characters,   *)
(* "z" is not, and a commit hash has 2 or 3 characters instead of 7 to 40, *)
(* so that titles with a short run, a run in range and a run longer than   *)
(* the cap all fit in five characters.                                     *)
EXTENDS ReleaseSelection, SequencesExt

MCCurrentVersion == <<"1">>
MCCurrentHash == <<"a", "b">>
MCTags == {<<>>, <<"1">>}
MCTitles == {<<"z", "a", "z", "a", "b">>,  \* short run, then "ab"
             <<"a", "b", "a", "b">>,       \* run of 4, cut to "aba"
             <<"z", "a">>}                 \* no hash

\* The asset names a release of each platform carries: citron.AppImage,
\* citron-v3.AppImage, citron-aarch64.AppImage, citron.zip on Linux;
\* citron.zip, citron-v3.zip, citron-PGO.zip, citron.AppImage on Windows.
A(ext, pgo, v3, arm) == [ext |-> ext, pgo |-> pgo, v3 |-> v3, aarch64 |-> arm]
LinuxAssets == {A("appimage", FALSE, FALSE, FALSE), A("appimage", FALSE, TRUE, FALSE),
                A("appimage", FALSE, FALSE, TRUE), A("zip", FALSE, FALSE, FALSE)}
WindowsAssets == {A("zip", FALSE, FALSE, FALSE), A("zip", FALSE, TRUE, FALSE),
                  A("zip", TRUE, FALSE, FALSE), A("appimage", FALSE, FALSE, FALSE)}
MCAssets == IF Platform = "linux" THEN LinuxAssets ELSE WindowsAssets

\* Builds: x86_64, x86_64_v3 and (Linux only) aarch64.
V(arm, v3, x86) == [aarch64 |-> arm, v3 |-> v3, x86_64 |-> x86]
MCVariants ==
    IF Platform = "linux"
    THEN {V(FALSE, FALSE, TRUE), V(FALSE, TRUE, TRUE), V(TRUE, FALSE, FALSE)}
    ELSE {V(FALSE, FALSE, TRUE), V(FALSE, TRUE, TRUE)}

\* Feeds of at most two releases with at most two assets each.
MCReleases == [tag : MCTags, name : MCTitles, assets : BoundedSeq(MCAssets, 2)]
MCFeeds == BoundedSeq(MCReleases, 2)
=============================================================================
