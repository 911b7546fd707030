------------------------ MODULE ReleaseSelection_proofs ------------------------
(***************************************************************************)
(* Proofs about release discovery: that ExtractCommitHash cuts out of a    *)
(* title exactly the hash the spec describes, for every title and every    *)
(* pair of regex bounds, and that ParseUpdateResponse reports the first    *)
(* compatible release of every feed.                                       *)
(***************************************************************************)
EXTENDS ReleaseSelection, WellFoundedInduction, SequenceTheorems, TLAPS

-----------------------------------------------------------------------------
(* Least and greatest elements.                                            *)

\* A non-empty set of naturals has a least element, and Min names it.
LEMMA NatMin ==
    ASSUME NEW T, T \subseteq Nat, T # {}
    PROVE  /\ Min(T) \in T
           /\ \A y \in T : Min(T) <= y
<1>1. \E x \in T : \A y \in T : ~(<<y, x>> \in OpToRel(<, Nat))
    BY NatLessThanWellFounded, WFMin
<1>2. ASSUME NEW x \in Nat, NEW y \in Nat
      PROVE  <<y, x>> \in OpToRel(<, Nat) <=> y < x
    BY DEF OpToRel
<1>3. \E x \in T : \A y \in T : x <= y
    <2>1. PICK x \in T : \A y \in T : ~(<<y, x>> \in OpToRel(<, Nat))
        BY <1>1
    <2>2. ASSUME NEW y \in T PROVE x <= y
        <3>1. ~(y < x)
            BY <2>1, <1>2
        <3>2. QED
            BY <3>1
    <2>3. QED
        BY <2>2
<1>4. QED
    BY <1>3 DEF Min

\* An element below all the others is the Min of a set of integers.
LEMMA MinIs ==
    ASSUME NEW T, T \subseteq Int, NEW m \in T, \A y \in T : m <= y
    PROVE  Min(T) = m
<1>1. Min(T) \in T /\ \A y \in T : Min(T) <= y
    BY DEF Min
<1>2. Min(T) <= m /\ m <= Min(T) /\ Min(T) \in Int
    BY <1>1
<1>3. QED
    BY <1>2

\* An element above all the others is the Max of a set of integers.
LEMMA MaxIs ==
    ASSUME NEW T, T \subseteq Int, NEW m \in T, \A y \in T : m >= y
    PROVE  Max(T) = m
<1>1. Max(T) \in T /\ \A y \in T : Max(T) >= y
    BY DEF Max
<1>2. Max(T) >= m /\ m >= Max(T) /\ Max(T) \in Int
    BY <1>1
<1>3. QED
    BY <1>2

-----------------------------------------------------------------------------
(* The hex run at a position.                                              *)

\* HexEnd(s, i) is the first position from i on that holds no hex
\* character, or one past the end: everything before it is hex.
LEMMA HexEndFacts ==
    ASSUME NEW X, NEW s \in Seq(X), NEW i \in 1..Len(s) + 1
    PROVE  /\ HexEnd(s, i) \in i..Len(s) + 1
           /\ \A p \in i..HexEnd(s, i) - 1 : s[p] \in HexChars
           /\ HexEnd(s, i) <= Len(s) => s[HexEnd(s, i)] \notin HexChars
<1> DEFINE N == {j \in i..Len(s) + 1 : j > Len(s) \/ s[j] \notin HexChars}
<1>1. N \subseteq Nat /\ Len(s) + 1 \in N
    OBVIOUS
<1>2. HexEnd(s, i) \in N /\ \A y \in N : HexEnd(s, i) <= y
    BY <1>1, NatMin DEF HexEnd
<1>3. ASSUME NEW p \in i..HexEnd(s, i) - 1 PROVE s[p] \in HexChars
    <2>1. p \in i..Len(s) + 1 /\ p \notin N
        BY <1>2
    <2>2. QED
        BY <2>1
<1>4. QED
    BY <1>2, <1>3

\* A run of hex characters from i to j ends before HexEnd(s, i).
LEMMA HexEndBeyond ==
    ASSUME NEW X, NEW s \in Seq(X), NEW i \in 1..Len(s), NEW j \in i..Len(s),
           \A p \in i..j : s[p] \in HexChars
    PROVE  HexEnd(s, i) > j
<1>1. /\ HexEnd(s, i) \in i..Len(s) + 1
      /\ HexEnd(s, i) <= Len(s) => s[HexEnd(s, i)] \notin HexChars
    BY HexEndFacts
<1>2. QED
    BY <1>1

-----------------------------------------------------------------------------
(* The regex search against the spec's reading of it.                      *)

\* A position starts a match exactly when a span of MinHash..MaxHash hex
\* characters starts there.
LEMMA StartIsSpan ==
    ASSUME NEW X, NEW s \in Seq(X), NEW i \in 1..Len(s)
    PROVE  i \in MatchStarts(s) <=> \E j \in 1..Len(s) : <<i, j>> \in HexSpans(s)
<1> USE ReleaseAssumption
<1>1. /\ HexEnd(s, i) \in i..Len(s) + 1
      /\ \A p \in i..HexEnd(s, i) - 1 : s[p] \in HexChars
    BY HexEndFacts
<1>2. ASSUME i \in MatchStarts(s)
      PROVE  /\ i + MinHash - 1 \in 1..Len(s)
             /\ <<i, i + MinHash - 1>> \in HexSpans(s)
    <2>1. HexEnd(s, i) - i >= MinHash
        BY <1>2 DEF MatchStarts, HexRun
    <2>2. i + MinHash - 1 \in i..Len(s) /\ i + MinHash - 1 <= HexEnd(s, i) - 1
        BY <1>1, <2>1
    <2>3. \A p \in i..i + MinHash - 1 : s[p] \in HexChars
        BY <1>1, <2>2
    <2>4. QED
        BY <2>2, <2>3 DEF HexSpans
<1>3. ASSUME NEW j \in 1..Len(s), <<i, j>> \in HexSpans(s)
      PROVE  i \in MatchStarts(s)
    <2>1. j - i + 1 \in MinHash..MaxHash /\ \A p \in i..j : s[p] \in HexChars
        BY <1>3 DEF HexSpans
    <2>2. j \in i..Len(s)
        BY <2>1
    <2>3. HexEnd(s, i) > j
        BY <2>1, <2>2, HexEndBeyond
    <2>4. QED
        BY <1>1, <2>1, <2>3 DEF MatchStarts, HexRun
<1>4. QED
    BY <1>2, <1>3

\* For every string and every pair of bounds, the hash ExtractCommitHash
\* cuts out of a release title (std::regex_search: the leftmost match,
\* greedy up to MaxHash) is the spec's: the earliest-starting run of
\* MinHash..MaxHash hex characters, as long as it can be.
LEMMA HashAgrees ==
    ASSUME NEW X, NEW s \in Seq(X)
    PROVE  ExtractCommitHash(s) = RefHash(s)
<1> USE ReleaseAssumption
<1>1. HexSpans(s) \subseteq (1..Len(s)) \X (1..Len(s))
    BY DEF HexSpans
<1>2. {ij[1] : ij \in HexSpans(s)} = MatchStarts(s)
    <2>1. ASSUME NEW ij \in HexSpans(s) PROVE ij[1] \in MatchStarts(s)
        <3>1. PICK a \in 1..Len(s), b \in 1..Len(s) : ij = <<a, b>>
            BY <1>1
        <3>2. <<a, b>> \in HexSpans(s)
            BY <3>1
        <3>3. QED
            BY <3>1, <3>2, StartIsSpan
    <2>2. ASSUME NEW i \in MatchStarts(s)
          PROVE  \E ij \in HexSpans(s) : ij[1] = i
        <3>1. i \in 1..Len(s)
            BY DEF MatchStarts
        <3>2. PICK j \in 1..Len(s) : <<i, j>> \in HexSpans(s)
            BY <3>1, StartIsSpan
        <3>3. QED
            BY <3>2
    <2>3. QED
        BY <2>1, <2>2
<1>3. CASE MatchStarts(s) = {}
    <2>1. HexSpans(s) = {}
        BY <1>2, <1>3
    <2>2. QED
        BY <1>3, <2>1 DEF ExtractCommitHash, RefHash
<1>4. CASE MatchStarts(s) # {}
    <2> DEFINE i0 == Min(MatchStarts(s))
               r == HexRun(s, i0)
               c == IF r > MaxHash THEN MaxHash ELSE r
               m == i0 - 1 + c
               Ends == {ij[2] : ij \in {sp \in HexSpans(s) : sp[1] = i0}}
    <2>1. i0 \in MatchStarts(s)
        BY <1>4, NatMin DEF MatchStarts
    <2>2. i0 \in 1..Len(s) /\ r >= MinHash
        BY <2>1 DEF MatchStarts
    <2>3. /\ HexEnd(s, i0) \in i0..Len(s) + 1
          /\ \A p \in i0..HexEnd(s, i0) - 1 : s[p] \in HexChars
        BY <2>2, HexEndFacts
    <2>4. HexSpans(s) # {} /\ Min({ij[1] : ij \in HexSpans(s)}) = i0
        BY <1>2, <1>4
    \* The longest span from i0 ends at m.
    <2>5. <<i0, m>> \in HexSpans(s)
        <3>1. c \in MinHash..MaxHash /\ c <= r
            BY <2>2, <2>3 DEF HexRun
        <3>2. m \in i0..Len(s) /\ m <= HexEnd(s, i0) - 1
            BY <2>2, <2>3, <3>1 DEF HexRun
        <3>3. \A p \in i0..m : s[p] \in HexChars
            BY <2>3, <3>2
        <3>4. QED
            BY <2>2, <3>1, <3>2, <3>3 DEF HexSpans
    <2>6. ASSUME NEW j, <<i0, j>> \in HexSpans(s) PROVE j <= m
        <3>1. j \in i0..Len(s) /\ j - i0 + 1 <= MaxHash
              /\ \A p \in i0..j : s[p] \in HexChars
            BY <2>6 DEF HexSpans
        <3>2. HexEnd(s, i0) > j
            BY <2>2, <3>1, HexEndBeyond
        <3>3. j - i0 + 1 <= r
            BY <2>2, <2>3, <3>1, <3>2 DEF HexRun
        <3>4. j - i0 + 1 <= c
            BY <2>2, <3>1, <3>3
        <3>5. QED
            BY <2>2, <2>3, <3>1, <3>4 DEF m, c, r, HexRun
    <2>7. m \in Ends /\ \A y \in Ends : m >= y /\ Ends \subseteq Int
        <3>1. m \in Ends
            BY <2>5
        <3>2. ASSUME NEW y \in Ends PROVE m >= y /\ y \in Int
            <4>1. PICK sp \in HexSpans(s) : sp[1] = i0 /\ sp[2] = y
                BY <3>2
            <4>2. PICK b \in 1..Len(s) : sp = <<i0, b>>
                BY <4>1, <1>1
            <4>3. QED
                BY <4>1, <4>2, <2>6
        <3>3. QED
            BY <3>1, <3>2
    <2>8. Max(Ends) = m
        BY <2>7, MaxIs
    <2>9. RefHash(s) = SubSeq(s, i0, m)
        BY <2>4, <2>8 DEF RefHash
    <2>10. ExtractCommitHash(s) = SubSeq(s, i0, m)
        BY <1>4 DEF ExtractCommitHash
    <2>11. QED
        BY <2>9, <2>10
<1>5. QED
    BY <1>3, <1>4

\* A hash ExtractCommitHash finds has MinHash..MaxHash characters, all hex.
LEMMA HashShape ==
    ASSUME NEW X, NEW s \in Seq(X), ExtractCommitHash(s) # <<>>
    PROVE  IsHash(ExtractCommitHash(s))
<1> USE ReleaseAssumption
<1>1. MatchStarts(s) # {}
    BY DEF ExtractCommitHash
<1> DEFINE i0 == Min(MatchStarts(s))
           r == HexRun(s, i0)
           c == IF r > MaxHash THEN MaxHash ELSE r
           h == SubSeq(s, i0, i0 - 1 + c)
<1>2. i0 \in MatchStarts(s)
    <2>1. MatchStarts(s) \subseteq Nat
        BY DEF MatchStarts
    <2>2. QED
        BY <1>1, <2>1, NatMin DEF i0
<1>3. i0 \in 1..Len(s) /\ r >= MinHash
    BY <1>2 DEF MatchStarts
<1>4. /\ HexEnd(s, i0) \in i0..Len(s) + 1
      /\ \A p \in i0..HexEnd(s, i0) - 1 : s[p] \in HexChars
    BY <1>3, HexEndFacts
<1>5. c \in MinHash..MaxHash /\ i0 - 1 + c <= HexEnd(s, i0) - 1
    BY <1>3, <1>4 DEF HexRun
<1>6. \A p \in i0..i0 - 1 + c : s[p] \in HexChars
    BY <1>3, <1>4, <1>5
<1>7. h \in Seq(HexChars) /\ Len(h) = c
    BY <1>3, <1>5, <1>6, SubSeqProperties DEF h
<1>8. ExtractCommitHash(s) = h
    BY <1>1 DEF ExtractCommitHash
<1>9. IsHash(h)
    <2>1. Len(h) \in MinHash..MaxHash
        BY <1>5, <1>7
    <2>2. \A i \in 1..Len(h) : h[i] \in HexChars
        BY <1>7
    <2>3. QED
        BY <2>1, <2>2 DEF IsHash
<1>10. QED
    BY <1>8, <1>9

-----------------------------------------------------------------------------
(* The release loop.                                                       *)

\* The version the loop derives for a release is the spec's.
LEMMA LatestVAgrees ==
    ASSUME NEW rel \in Release, NEW ch
    PROVE  LatestV(rel, ch) = RefLatestV(rel, ch)
<1>1. rel.name \in Seq(HexChars \cup OtherChars)
    BY ReleaseAssumption DEF Release
<1>2. QED
    BY <1>1, HashAgrees DEF LatestV, RefLatestV

\* The index ParseUpdateResponse stops at is the least compatible one, or
\* 0 when there is none (or the body is no array).
LEMMA StopsAtFirstCompatible ==
    ASSUME response \in Documents \cup {Malformed}
    PROVE  /\ Compatible \subseteq 1..Len(response.releases)
           /\ (IF ~response.is_array THEN 0
               ELSE FirstCompatible(response.releases, channel, variant))
              = IF Compatible = {} THEN 0 ELSE Min(Compatible)
<1>1. CASE ~response.is_array
    <2>1. Compatible = {}
        BY <1>1 DEF Compatible
    <2>2. QED
        BY <1>1, <2>1
<1>2. CASE response.is_array
    <2> DEFINE rels == response.releases
               found == {k \in 1..Len(rels) :
                          /\ LatestV(rels[k], channel) # <<>>
                          /\ SelectAssets(rels[k].assets, variant) # <<>>}
    <2>1. rels \in Seq(Release)
        BY <1>2, InputAssumption DEF Documents, Malformed
    <2>2. found = Compatible
        <3>1. ASSUME NEW k \in 1..Len(rels)
              PROVE  LatestV(rels[k], channel) = RefLatestV(rels[k], channel)
            BY <2>1, LatestVAgrees
        <3>2. QED
            BY <1>2, <3>1 DEF Compatible
    <2>3. FirstCompatible(rels, channel, variant)
              = IF found = {} THEN 0 ELSE Min(found)
        BY DEF FirstCompatible
    <2>4. QED
        BY <1>2, <2>2, <2>3 DEF Compatible
<1>3. QED
    BY <1>1, <1>2

\* FirstCompatibleChosen and VersionShape are inductive once the response
\* is known to be a feed or the malformed body: a parse happens once, and
\* the first one fixes the signal for good.
IInv ==
    /\ response \in Documents \cup {Malformed}
    /\ FirstCompatibleChosen
    /\ VersionShape

LEMMA InitIInv == Init => IInv
    BY DEF Init, IInv, FirstCompatibleChosen, VersionShape, Signal

LEMMA NextIInv == IInv /\ [Next]_vars => IInv'
<1> SUFFICES ASSUME IInv, [Next]_vars PROVE IInv'
    OBVIOUS
<1>1. CASE UNCHANGED vars
    BY <1>1 DEF vars, IInv, FirstCompatibleChosen, VersionShape, Compatible
<1>2. CASE ParseUpdateResponse
    <2> DEFINE rels == response.releases
               k == IF ~response.is_array THEN 0
                    ELSE FirstCompatible(rels, channel, variant)
    <2>1. UNCHANGED <<variant, channel, response>>
        BY <1>2 DEF ParseUpdateResponse
    <2>2. Compatible' = Compatible
        BY <2>1 DEF Compatible
    <2>3. /\ Compatible \subseteq 1..Len(rels)
          /\ k = IF Compatible = {} THEN 0 ELSE Min(Compatible)
        BY StopsAtFirstCompatible DEF IInv
    <2>4. CASE Compatible = {}
        <3>1. signal'.kind = "silent"
            BY <1>2, <2>3, <2>4 DEF ParseUpdateResponse, Signal
        <3>2. QED
            BY <2>1, <2>2, <2>4, <3>1 DEF IInv, FirstCompatibleChosen,
                                          VersionShape
    <2>5. CASE Compatible # {}
        <3>1. response.is_array
            BY <2>5 DEF Compatible
        <3>2. rels \in Seq(Release)
            BY <3>1, InputAssumption DEF IInv, Documents, Malformed
        <3>3. Compatible \subseteq Nat
            BY <2>3, <3>2
        <3>4. Min(Compatible) \in Compatible
            BY <2>5, <3>3, NatMin
        <3>5. k = Min(Compatible) /\ k \in 1..Len(rels)
            BY <2>3, <2>5, <3>4
        <3>6. /\ signal'.kind = "completed"
              /\ signal'.info.version = LatestV(rels[k], channel)
              /\ signal'.info.options = SelectAssets(rels[k].assets, variant)
            BY <1>2, <3>5 DEF ParseUpdateResponse, Signal
        <3>7. LatestV(rels[k], channel) = RefLatestV(rels[k], channel)
            BY <3>2, <3>5, LatestVAgrees
        <3>8. FirstCompatibleChosen'
            BY <2>1, <2>2, <2>5, <3>5, <3>6, <3>7 DEF FirstCompatibleChosen
        \* The chosen release has a version: its tag, or a hash.
        <3>9. VersionShape'
            <4>1. rels[k] \in Release /\ LatestV(rels[k], channel) # <<>>
                BY <3>2, <3>4, <3>5, <3>7 DEF Compatible
            <4>2. CASE channel = "stable"
                BY <3>6, <4>1, <4>2 DEF VersionShape, LatestV, Release
            <4>3. CASE channel # "stable"
                <5>1. rels[k].name \in Seq(HexChars \cup OtherChars)
                    BY <4>1, ReleaseAssumption DEF Release
                <5>2. IsHash(ExtractCommitHash(rels[k].name))
                    BY <4>1, <4>3, <5>1, HashShape DEF LatestV
                <5>3. QED
                    BY <3>6, <4>3, <5>2 DEF VersionShape, LatestV
            <4>4. QED
                BY <4>2, <4>3
        <3>10. QED
            BY <2>1, <3>8, <3>9 DEF IInv
    <2>6. QED
        BY <2>4, <2>5
<1>3. QED
    BY <1>1, <1>2 DEF Next

\* For every feed, every build variant and every pair of regex bounds,
\* ParseUpdateResponse reports the first release, in feed order, with a
\* version and a compatible asset, with the version the spec prescribes
\* (the tag, or the hash cut from the title) and that release's options,
\* and stays silent exactly when there is no such release.
THEOREM FirstCompatibleReported == Spec => []FirstCompatibleChosen
<1>1. IInv => FirstCompatibleChosen
    BY DEF IInv
<1>2. QED
    BY <1>1, InitIInv, NextIInv, PTL DEF Spec

\* For every feed and every pair of regex bounds, the version
\* ParseUpdateResponse reports is the release's tag or a hash of MinHash
\* to MaxHash hex characters cut from its title: the regex's {7,40} bound
\* holds, and an empty version never gets through the
\* `if (latest_v.empty()) continue;` test.
THEOREM VersionWellFormed == Spec => []VersionShape
<1>1. IInv => VersionShape
    BY DEF IInv
<1>2. QED
    BY <1>1, InitIInv, NextIInv, PTL DEF Spec

=============================================================================
