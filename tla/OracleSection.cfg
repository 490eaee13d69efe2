SPECIFICATION FairSpec
CONSTANTS
    Runs = {r1, r2, r3}
    NoRun = NoRun
    Edits = {e1}
    Kinds = {"upstream", "synthesis", "document"}
INVARIANT OutdatedOnlyThroughTheGap
PROPERTIES NoLiveTakeover PublishedNeverRegresses GenerationEnds
CHECK_DEADLOCK FALSE
