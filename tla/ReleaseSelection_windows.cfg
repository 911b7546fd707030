CONSTANTS
    Platform = "windows"
    HexChars = {"a", "b"}
    OtherChars = {"z"}
    MinHash = 2
    MaxHash = 3
    Tags <- MCTags
    Titles <- MCTitles
    Assets <- MCAssets
    Variants <- MCVariants
    Feeds <- MCFeeds
    CurrentVersion <- MCCurrentVersion
    CurrentHash <- MCCurrentHash
SPECIFICATION Spec
CHECK_DEADLOCK FALSE
INVARIANT OptionsFollowVariant
