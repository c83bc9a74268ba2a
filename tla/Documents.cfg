\* Every bounded input of each algorithm.
SPECIFICATION DocumentsSpec
CONSTANTS
    Height <- MCHeight
    MaxFragmentFiles = 3
    MaxMergeDepth = 2
    MaxEntries = 3
    SafeNames <- MCSafe
    Requests <- MCRequests
    Traffic <- MCTraffic
    Lower <- MCLower
    Private = {}
    MaxDnsServers = 2
PROPERTIES
    ConfigDocumentsExact
    KernelDocumentsAgree
    CommandLineFaithful
    NodesAccounted
    
