-------------------------------- MODULE GeoIP --------------------------------
(***************************************************************************)
(* The GeoIP databases: found on the search paths when the program starts, *)
(* asked for the country and the autonomous system of an address by the    *)
(* resolver, and closed at the end.                                        *)
(***************************************************************************)
EXTENDS MaxMindDB

CONSTANTS
    COUNTRY_TABLE,  \* the codes of countries, as bytes
    FileTable,      \* the files that may be found, for each kind of database
    Installations   \* which of them may be found where

Paths == <<"HOME", "SYSTEM", "SYSTEM_VAR">>

\* Country() and ASN().
UnknownCountry == <<>>
UnknownASN == [number |-> 0, orgName |-> <<>>]

NoDB == [status |-> "none"]

VARIABLES
    files,          \* the files of FileTable
    installed,      \* the environment: whether HOME is set, and the files
    phase,          \* "country", "asn" while loading; "loaded"; "closed"
    m_currentPath,  \* of DBSearchPaths
    db,             \* m_dbCountry and m_dbASN
    asked           \* the last question and its answer

vars == <<files, installed, phase, m_currentPath, db, asked>>

Nothing == [address |-> <<>>, isIP4 |-> FALSE, country |-> UnknownCountry, asn |-> UnknownASN]

Init ==
    /\ files = FileTable
    /\ installed \in Installations
    /\ phase = "country"
    /\ m_currentPath = 1
    /\ db = [country |-> NoDB, asn |-> NoDB]
    /\ asked = Nothing

-----------------------------------------------------------------------------
\* DBSearchPaths::getNext: the path after the one at this position.
getNext(position) ==
    IF position <= Len(Paths) /\ Paths[position] = "HOME" /\ ~installed.home THEN position + 1 ELSE position

\* Country::ParseCodeString.
ParseCodeString(code) == IF Len(code) = 2 /\ code \in COUNTRY_TABLE THEN code ELSE UnknownCountry

ParseCountryData(mmdb, result) ==
    LET code(entry) == IF entry.status = "SUCCESS" /\ entry.type = "UTF8_STRING"
                       THEN ParseCodeString(entry.bytes) ELSE UnknownCountry
    IN  IF result.found_entry THEN code(MMDB_get_value(mmdb, result.offset, <<"country", "iso_code">>))
        ELSE UnknownCountry

ParseASNData(mmdb, result) ==
    LET asn(number, org) ==
            IF /\ number.status = "SUCCESS" /\ number.type = "UINT32"
               /\ org.status = "SUCCESS" /\ org.type = "UTF8_STRING"
            THEN [number |-> number.value, orgName |-> org.bytes] ELSE UnknownASN
    IN  IF result.found_entry
        THEN asn(MMDB_get_value(mmdb, result.offset, <<"autonomous_system_number">>),
                 MMDB_get_value(mmdb, result.offset, <<"autonomous_system_organization">>))
        ELSE UnknownASN

queryCountry(address, isIP4) ==
    LET parse(result) == IF result.status # "SUCCESS" THEN UnknownCountry
                         ELSE ParseCountryData(db.country.mmdb, result)
    IN  IF db.country = NoDB THEN UnknownCountry ELSE parse(MMDB_lookup_sockaddr(db.country, address, isIP4))

queryASN(address, isIP4) ==
    LET parse(result) == IF result.status # "SUCCESS" THEN UnknownASN
                         ELSE ParseASNData(db.asn.mmdb, result)
    IN  IF db.asn = NoDB THEN UnknownASN ELSE parse(MMDB_lookup_sockaddr(db.asn, address, isIP4))

-----------------------------------------------------------------------------
NextPhase == IF phase = "country" THEN "asn" ELSE "loaded"

\* A file was opened, or not.
TryFile(position, exists, opened) ==
    IF exists /\ opened.status = "SUCCESS"
    THEN /\ db' = [db EXCEPT ![phase] = opened]
         /\ phase' = NextPhase
         /\ m_currentPath' = 1
    ELSE /\ m_currentPath' = position + 1
         /\ UNCHANGED <<phase, db>>

\* loadDB_Country, loadDB_ASN: one path after the other, until a file opens.
loadDB ==
    LET position == getNext(m_currentPath)
        try(file) == TryFile(position, file.exists, MMDB_open(file.content))
    IN  /\ phase \in {"country", "asn"}
        /\ IF position > Len(Paths)
           THEN /\ phase' = NextPhase
                /\ m_currentPath' = 1
                /\ UNCHANGED db
           ELSE try(files[phase][installed.files[phase][Paths[position]]])
        /\ UNCHANGED <<files, installed, asked>>

\* The resolver asks both databases for an address.
Query(address, isIP4) ==
    /\ phase = "loaded"
    /\ asked' = [address |-> address, isIP4 |-> isIP4,
                 country |-> queryCountry(address, isIP4), asn |-> queryASN(address, isIP4)]
    /\ UNCHANGED <<files, installed, phase, m_currentPath, db>>

\* ~Impl.
Close ==
    /\ phase = "loaded"
    /\ phase' = "closed"
    /\ db' = [country |-> NoDB, asn |-> NoDB]
    /\ UNCHANGED <<files, installed, m_currentPath, asked>>

Addresses(bits) == [1..bits -> {0, 1}]

Next ==
    \/ loadDB
    \/ \E address \in Addresses(BitsIP4) : Query(address, TRUE)
    \/ \E address \in Addresses(BitsIP6) : Query(address, FALSE)
    \/ Close

Spec == Init /\ [][Next]_vars

-----------------------------------------------------------------------------
\* What the author of a file says of it: whether it is a database, which
\* addresses it covers, and what it says of each of its networks.

UsableFiles(kind) ==
    {i \in DOMAIN Paths : /\ Paths[i] = "HOME" => installed.home
                          /\ files[kind][installed.files[kind][Paths[i]]].usable}

\* The networks of the database that should have been loaded.
Networks(kind) ==
    IF UsableFiles(kind) = {} THEN {}
    ELSE files[kind][installed.files[kind][Paths[Min(UsableFiles(kind))]]].networks

\* An IPv4 address is also the IPv6 address with zeros before it; the networks
\* of an IPv4 database hold no IPv6 address.
Holds(network, address, isIP4) ==
    \/ isIP4 /\ network.isIP4 /\ IsPrefix(network.prefix, address)
    \/ ~network.isIP4 /\ IsPrefix(network.prefix, (IF isIP4 THEN [i \in 1..BitsIP6 - BitsIP4 |-> 0] ELSE <<>>) \o address)

Right(kind, address, isIP4, unknown) ==
    LET holding == {n \in Networks(kind) : Holds(n, address, isIP4)}
    IN  IF holding = {} THEN unknown ELSE (CHOOSE n \in holding : TRUE).says

\* The answer to a question is what the first usable file says of the network
\* that holds the address, whatever record size, kind of tree or place of the
\* network; and no answer if there is no file or no such network.
AnswersAreRight ==
    asked # Nothing =>
        /\ asked.country = Right("country", asked.address, asked.isIP4, UnknownCountry)
        /\ asked.asn = Right("asn", asked.address, asked.isIP4, UnknownASN)

=============================================================================
