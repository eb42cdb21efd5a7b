\* IPv4 addresses of 2 bits and IPv6 addresses of 5.  After Close nothing more
\* happens.
CONSTANTS
    BitsIP4 = 2
    BitsIP6 = 5
    METADATA_BLOCK_MAX_SIZE = 150
    COUNTRY_TABLE <- MCCountryTable
    FileTable <- MCFileTable
    Installations <- MCInstallations
SPECIFICATION Spec
CHECK_DEADLOCK FALSE
INVARIANTS
    AnswersAreRight
