CONSTANTS
    None = None
    Streams = {s1, s2}
    Filters <- MCFilters
    Norms <- MCNorms
    MaxId = 3
SPECIFICATION RegistrySpec
INVARIANTS RegistryTypeOK IndexExact MatchExact
