SPECIFICATION Spec
CONSTANTS
    Capacity = 5
    Modes = {"circular", "fixed"}
    Units = {"transition", "episode"}
    Items <- SmallItems
    MaxRows = 11
    MaxReads = 1
INVARIANTS TypeOK EpisodesIntact NewestKeptAndRead
PROPERTY ImplementsEpisodeWindow
