SPECIFICATION Spec
CONSTANTS
    MaxWidgets = 3
    Windows <- MCPrograms
    MaxValue = 1
    MaxCalls = 2
    Folders <- MCFolders
    Files <- MCFiles
    Hidden <- MCHidden
    Homes <- MCHomes
    Standard <- MCStandard
    Typed <- MCTyped
    Long <- MCLong
    MaxEntries = 2
INVARIANT FocusUsable
INVARIANT PointersExist
INVARIANT SelectionExists
INVARIANT OneRadio
PROPERTY PickerBlocksInput
PROPERTY PicksWhatWasShown
