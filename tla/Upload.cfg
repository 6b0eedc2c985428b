SPECIFICATION FairSpec
CONSTANTS
    Base = 4
    Files <- MCFiles
    MaxVersions = 2
    Uses <- MCUses
    RomSize = 4
    Ram <- MCRam
    MaxLine = 5
    UPLOAD = 1
    RESET = 2
    DOWNLOAD_ROM = 3
    DOWNLOAD_RAM = 0
INVARIANTS InStep Installed Downloaded
PROPERTIES UpToDate DownloadEnds
ACTION_CONSTRAINT Explored
CHECK_DEADLOCK FALSE
