\* Texts of characters of any width around the bound.
SPECIFICATION DocumentsSpec
CONSTANTS
    Height <- MCHeight
    MaxFragmentFiles = 3
    MaxMergeDepth = 2
    MaxEntries = 3
    SafeNames <- MCSafe
    Requests <- MCRequests
    Traffic <- MCTraffic
    Lower <- MCLower
    Private = {}
    MaxDnsServers = 2
INVARIANT ClampIsTotal
CHECK_DEADLOCK FALSE
