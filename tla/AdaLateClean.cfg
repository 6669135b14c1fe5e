\* Two scenes; the list of the first comes as its merge ends, that of the second while
\* the first is performed.
SPECIFICATION AdaSpec

CONSTANTS
    MaxScenes = 2
    ChunkCount = 2
    CompressWorkers = 1
    QueueCap = 1

INVARIANT NoneForgotten
