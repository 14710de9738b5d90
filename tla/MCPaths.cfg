SPECIFICATION DocSpec
CONSTANTS
    Segments <- MCSegments
    Projects <- MCProjects
    Versions <- MCVersions
    Names <- MCNames
    MaxFiles = 2
    NoPath = NoPath
    DocsHome <- MCDocsHome
    DocFiles <- MCDocFiles
    OtherFiles <- MCOtherFiles
    Hrefs <- MCHrefs
    Index = Index
INVARIANTS
    StaysInside
    ListedNamesResolve
    ArchivesUnpackWhole
    LinksKeepTheirMeaning
