SPECIFICATION Spec
CHECK_DEADLOCK FALSE
CONSTANTS
    None = None
    MAX_PER_TREE = 3
    Saves <- MCSaves
    Asked <- MCAsked
    Offsets <- MCOffsets
    Counts <- MCCounts
    MaxReads = 3
    Restores <- MCRestores
    ReadSize = 4
    MinSparse = 2
INVARIANT ListingIsWhole
INVARIANT MetadataComesBack
INVARIANT SubtreeNamesBound
INVARIANT FilesReadBack
INVARIANT RestoredIsSaved
INVARIANT LinksAreKept
INVARIANT OldFilesKept
