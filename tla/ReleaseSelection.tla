-------------------------- MODULE ReleaseSelection --------------------------
(***************************************************************************)
(* Release discovery: UpdaterService::ParseUpdateResponse, the asset       *)
(* filters it applies, ExtractCommitHash and GetCurrentVersion             *)
(* (configure_filesystem.cpp, lines 230-237, 321-329 and 425-500).         *)
(*                                                                         *)
(* ParseUpdateResponse runs once per check, inside the check reply's       *)
(* `finished` lambda.  Strings are abstracted to what the code tests of    *)
(* them: an asset name to its extension and the substrings "PGO", "v3"    *)
(* and "aarch64" (all tested case-insensitively), the build variant to    *)
(* the substrings "aarch64", "v3" and "x86_64".  A release title is kept  *)
(* as a string over a small alphabet, because the commit hash is cut out  *)
(* of it by a regular expression.                                          *)
(***************************************************************************)
EXTENDS Naturals, Sequences, FiniteSetsExt

CONSTANTS
    Platform,      \* "linux" or "windows": the #if branch compiled in
    HexChars,      \* characters of [0-9a-fA-F]
    OtherChars,    \* every other character
    MinHash,       \* the regex bounds {7,40}
    MaxHash,
    Tags,          \* tag_name values of stable releases (strings)
    Titles,        \* name values of releases (strings)
    Assets,        \* the assets a feed may list
    Variants,      \* the g_citron_variant values of the builds
    Feeds,         \* the well-formed feeds (sequences of releases)
    CurrentVersion,  \* g_citron_version
    CurrentHash      \* g_citron_hash

ASSUME ReleaseAssumption ==
    /\ Platform \in {"linux", "windows"}
    /\ HexChars \cap OtherChars = {}
    /\ MinHash \in Nat \ {0} /\ MaxHash \in Nat /\ MinHash <= MaxHash
    /\ Titles \subseteq Seq(HexChars \cup OtherChars)

\* An asset: the extension its name ends with and the substrings tested.
Asset == [ext : {"zip", "appimage", "other"}, pgo : BOOLEAN,
          v3 : BOOLEAN, aarch64 : BOOLEAN]
Variant == [aarch64 : BOOLEAN, v3 : BOOLEAN, x86_64 : BOOLEAN]
Release == [tag : Tags, name : Titles, assets : Seq(Assets)]

ASSUME InputAssumption ==
    /\ Assets \subseteq Asset
    /\ Variants \subseteq Variant
    /\ Feeds \subseteq Seq(Release)

\* The body of a reply: QJsonDocument's isArray() and the array's releases.
Documents == {[is_array |-> TRUE, releases |-> f] : f \in Feeds}
Malformed == [is_array |-> FALSE, releases |-> <<>>]

\* The member current_update_info before any successful parse.
NoInfo == [version |-> <<>>, options |-> <<>>, is_newer |-> FALSE]

\* What a parse emitted: nothing yet, nothing at all, or
\* UpdateCheckCompleted with an info.
Signal(kind, info) == [kind |-> kind, info |-> info]

VARIABLES
    variant,             \* Common::g_citron_variant of the running build
    channel,             \* the channel captured by the check lambda
    response,            \* the body of the check reply
    current_update_info, \* the service member set by ParseUpdateResponse
    signal               \* what the parse emitted

vars == <<variant, channel, response, current_update_info, signal>>

-----------------------------------------------------------------------------
(* ExtractCommitHash: std::regex_search for ([0-9a-fA-F]{7,40}).  The     *)
(* search returns the leftmost start position at which the regex matches; *)
(* there the greedy {7,40} takes the hex run, up to MaxHash characters.   *)

\* The first position at or after i that does not hold a hex character
\* (one past the end if there is none).
HexEnd(s, i) ==
    Min({j \in i..Len(s) + 1 : j > Len(s) \/ s[j] \notin HexChars})

\* Length of the hex run of s that starts at position i.
HexRun(s, i) == HexEnd(s, i) - i

\* The start positions at which the regex matches: a run of MinHash.
MatchStarts(s) == {i \in 1..Len(s) : HexRun(s, i) >= MinHash}

\* Mutant: the upper bound of the regex is lost ({7,}).
ExtractCommitHashUncapped(s) ==
    IF MatchStarts(s) = {} THEN <<>>
    ELSE LET i == Min(MatchStarts(s))
         IN  SubSeq(s, i, i - 1 + HexRun(s, i))

ExtractCommitHash(s) ==
    IF MatchStarts(s) = {} THEN <<>>
    ELSE LET i == Min(MatchStarts(s))
         IN  SubSeq(s, i, i - 1 + IF HexRun(s, i) > MaxHash
                                  THEN MaxHash ELSE HexRun(s, i))

\* GetCurrentVersion(channel): the build hash for nightly, else the version.
GetCurrentVersion(ch) == IF ch = "nightly" THEN CurrentHash ELSE CurrentVersion

\* latest_v: tag_name for "stable", else the hash cut out of the title.
LatestV(rel, ch) ==
    IF ch = "stable" THEN rel.tag ELSE ExtractCommitHash(rel.name)

-----------------------------------------------------------------------------
(* The asset filters of the asset loop (lines 453-486).                   *)

\* Mutant: the Windows filter lets PGO builds through.
OsValidKeepsPGO(a) ==
    IF Platform = "linux"
    THEN a.ext = "appimage"
    ELSE a.ext = "zip"

\* The platform filter that builds os_valid.
OsValid(a) ==
    IF Platform = "linux"
    THEN a.ext = "appimage"
    ELSE a.ext = "zip" /\ ~a.pgo

\* Mutant: the generic fallback forgets to exclude "v3" names.
VariantMatchedNoV3Exclusion(a, v) ==
    IF Platform = "linux"
    THEN \/ v.aarch64 /\ a.aarch64
         \/ v.v3 /\ a.v3
         \/ ~a.aarch64 /\ v.x86_64 /\ ~v.v3
    ELSE \/ v.v3 /\ a.v3
         \/ ~v.v3 /\ ~a.v3

\* The variant test that builds variant_matched (an else-if chain whose
\* branches all push the asset, so their disjunction).
VariantMatched(a, v) ==
    IF Platform = "linux"
    THEN \/ v.aarch64 /\ a.aarch64
         \/ v.v3 /\ a.v3
         \/ ~a.v3 /\ ~a.aarch64 /\ v.x86_64 /\ ~v.v3
    ELSE \/ v.v3 /\ a.v3
         \/ ~v.v3 /\ ~a.v3

\* info.download_options: variant_matched unless empty, else os_valid.
SelectAssets(assets, v) ==
    LET os_valid == SelectSeq(assets, OsValid)
        variant_matched == SelectSeq(os_valid, LAMBDA a : VariantMatched(a, v))
    IN  IF variant_matched = <<>> THEN os_valid ELSE variant_matched

\* Mutant: `if (latest_v.empty()) continue;` is dropped.
FirstCompatibleNoVersionCheck(rels, ch, v) ==
    LET found == {k \in 1..Len(rels) : SelectAssets(rels[k].assets, v) # <<>>}
    IN  IF found = {} THEN 0 ELSE Min(found)

\* The release loop returns at the first release with a version and a
\* non-empty option list: its index, 0 if the loop runs out.
FirstCompatible(rels, ch, v) ==
    LET found == {k \in 1..Len(rels) :
                    /\ LatestV(rels[k], ch) # <<>>
                    /\ SelectAssets(rels[k].assets, v) # <<>>}
    IN  IF found = {} THEN 0 ELSE Min(found)

-----------------------------------------------------------------------------
Init ==
    /\ variant \in Variants
    /\ channel \in {"stable", "nightly"}
    /\ response \in Documents \cup {Malformed}
    /\ current_update_info = NoInfo
    /\ signal = Signal("idle", NoInfo)

\* ParseUpdateResponse(response, channel): a body that is not an array
\* returns at once; otherwise the first release with a version and a
\* non-empty option list becomes current_update_info and is emitted with
\* UpdateCheckCompleted; if there is none, nothing is emitted.
ParseUpdateResponse ==
    /\ signal.kind = "idle"
    /\ LET rels == response.releases
           k == IF ~response.is_array THEN 0
                ELSE FirstCompatible(rels, channel, variant)
       IN  IF k = 0
           THEN /\ signal' = Signal("silent", NoInfo)
                /\ UNCHANGED current_update_info
           ELSE LET v == LatestV(rels[k], channel)
                    info == [version |-> v,
                             options |-> SelectAssets(rels[k].assets,
                                                      variant),
                             is_newer |-> v # GetCurrentVersion(channel)]
                IN  /\ current_update_info' = info
                    /\ signal' = Signal("completed", info)
    /\ UNCHANGED <<variant, channel, response>>

Next == ParseUpdateResponse

Spec == Init /\ [][Next]_vars

-----------------------------------------------------------------------------
(* Properties. *)

IsHash(s) ==
    /\ Len(s) \in MinHash..MaxHash
    /\ \A i \in 1..Len(s) : s[i] \in HexChars

\* A reported version is a tag or a commit hash of 7 to 40 hex characters.
VersionShape ==
    signal.kind = "completed" =>
        signal.info.version \in Tags \/ IsHash(signal.info.version)

\* Type invariant, with the shape of a derived version.
TypeOK ==
    /\ variant \in Variants
    /\ channel \in {"stable", "nightly"}
    /\ response \in Documents \cup {Malformed}
    /\ signal.kind \in {"idle", "silent", "completed"}
    /\ signal.kind = "completed" =>
         /\ signal.info = current_update_info
         /\ signal.info.options \in Seq(Assets)
         /\ signal.info.is_newer \in BOOLEAN
    /\ VersionShape

\* The reference reading of the spec (section 4.1): the version of a
\* nightly release is the first run of MinHash..MaxHash hex characters of
\* its title, starting as early and reaching as far as possible.
HexSpans(s) ==
    {ij \in (1..Len(s)) \X (1..Len(s)) :
        /\ ij[2] - ij[1] + 1 \in MinHash..MaxHash
        /\ \A p \in ij[1]..ij[2] : s[p] \in HexChars}
RefHash(s) ==
    IF HexSpans(s) = {} THEN <<>>
    ELSE LET i == Min({ij[1] : ij \in HexSpans(s)})
             j == Max({ij[2] : ij \in {sp \in HexSpans(s) : sp[1] = i}})
         IN  SubSeq(s, i, j)
RefLatestV(rel, ch) == IF ch = "stable" THEN rel.tag ELSE RefHash(rel.name)

\* The releases of the response with a version and a compatible asset.
Compatible ==
    IF ~response.is_array THEN {}
    ELSE {k \in 1..Len(response.releases) :
            /\ RefLatestV(response.releases[k], channel) # <<>>
            /\ SelectAssets(response.releases[k].assets, variant) # <<>>}

\* ParseUpdateResponse reports the FIRST release, in feed order, that has
\* a version and a compatible asset, with the version cut from its tag or
\* title, and reports a release exactly when there is one (spec section 8).
FirstCompatibleChosen ==
    signal.kind # "idle" =>
        IF Compatible = {}
        THEN signal.kind = "silent"
        ELSE LET k == Min(Compatible)
             IN  /\ signal.kind = "completed"
                 /\ signal.info.version =
                        RefLatestV(response.releases[k], channel)
                 /\ signal.info.options =
                        SelectAssets(response.releases[k].assets, variant)

\* The selection rule of the spec (section 4.2): the platform filter, then
\* the assets whose tags are exactly the running variant's tags.
PackageExt == IF Platform = "linux" THEN "appimage" ELSE "zip"
SpecOsValid(a) == a.ext = PackageExt /\ ~(Platform = "windows" /\ a.pgo)
AssetTags(a) == {t \in {"v3", "aarch64"} : a[t]}
VariantTags(v) == {t \in {"v3", "aarch64"} : v[t]}
SpecSelect(assets, v) ==
    LET os_valid == SelectSeq(assets, SpecOsValid)
        matched == SelectSeq(os_valid,
                             LAMBDA a : AssetTags(a) = VariantTags(v))
    IN  IF matched = <<>> THEN os_valid ELSE matched

\* The options offered for the chosen release are the ones the spec's
\* two-pass filter keeps: never an asset of another platform or a PGO
\* build, and only the variant's own assets whenever there is one.
OptionsFollowVariant ==
    signal.kind = "completed" =>
        signal.info.options =
            SpecSelect(response.releases[Min(Compatible)].assets, variant)

=============================================================================
