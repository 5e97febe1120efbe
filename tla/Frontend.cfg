SPECIFICATION Spec
CONSTANTS
    None = None
    Requests <- MCRequests
    PypiLinks <- MCPypiLinks
    NpmLinks <- MCNpmLinks
    NpmPlaces <- MCNpmPlaces
    Validated <- MCValidated
    Redirects <- MCRedirects
    MaxRedirects = 2
    GitRequests <- MCGitRequests
    Origins = {"http://here", "http://there"}
    MaxEntries = 2
    Percent <- MCPercent
    Backslash <- MCBackslash
    SchemeLike = {"x:", "x+1:"}
    Unsafe = {"<>"}
    StripGit <- MCStripGit
INVARIANTS
    NoAliases
    AnswersMatch
    LinksPointHere
    LinksResolve
    GitFetchesOnly
