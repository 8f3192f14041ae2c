SPECIFICATION WorkbenchSpec
CONSTANTS
 Slot = {s1, s2}
 Place <- MCPlace
 Parsed <- MCCanonical
 Canonical <- MCCanonical
 PersonaNames <- MCNames
 CustomNames = {"m", "b3"}
 Releases <- MCReleases
 Established <- MCEstablished
 ForeignFiles <- MCForeign
 CreateForms <- MCCreate
 UpdateForms <- MCUpdate
 ImportForms <- MCImport
 Keep = Keep
 NoFile = NoFile
 NoRequest = NoRequest
 Menu <- MCMenu
 MaxRequests = 2
 MaxExits = 2
 Viewer = {v1, v2}
 Capacity = 1
 MaxOutput = 2
 MaxInput = 2
 MaxSpawns = 2
 MaxTraffic = 4
 MaxAttaches = 2
 KitNameMax = 6
 None = None
 SbxRequests <- MCSbxRequests
 KitRequests <- MCKitRequests
 SbxTables <- MCSbxTables
 Histories <- MCHistories
 MaxLost = 26
 CreateOutputs <- MCCreateOutputs
 UserRules <- MCUserRules
 Diffs <- MCDiffs
 Symbol = {"a", "lock", ".", "/", ":", "@", "{", "<persona-name>"}
 MaxPattern = 4
 MaxUrl = 3
 PersonaNamed <- MCPersonaNamed
 Directory = {"A", "B"}
 LeadsTo <- MCLeadsTo
 Nowhere = "none"
 MaxMounts = 3
SYMMETRY MCSymmetry
INVARIANTS
 TypeOK
 WorkspacesApart
 BuiltinsReady
 StartSucceeds
 ViewersServed
 OutputsRead
 TextsTaken
 InputsChecked
PROPERTIES
 ActiveSessionsKept
 ImportKeepsOthers
CHECK_DEADLOCK FALSE
