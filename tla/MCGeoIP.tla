------------------------------- MODULE MCGeoIP -------------------------------
\* Database files for GeoIP, put together the way their format says.
EXTENDS GeoIP, FiniteSets

\* Values of the data section.
Head1(type, size) ==
    LET sized == IF size < 29 THEN size ELSE 29
        rest == IF size < 29 THEN <<>> ELSE <<size - 29>>
    IN  (IF type < 8 THEN <<type * 32 + sized>> ELSE <<sized, type - 7>>) \o rest

Str(bytes) == Head1(2, Len(bytes)) \o bytes
Num(type, n) == IF n < 256 THEN Head1(type, 1) \o <<n>> ELSE Head1(type, 2) \o <<n \div 256, n % 256>>
MapOf(pairs) == Head1(7, Len(pairs)) \o FlattenSeq([i \in DOMAIN pairs |-> Str(pairs[i][1]) \o pairs[i][2]])
ArrayOf(values) == Head1(11, Len(values)) \o FlattenSeq(values)
Pointer1(offset) == <<32 + offset \div 256, offset % 256>>
Pointer4(offset) == <<32 + 24, 0, 0, offset \div 256, offset % 256>>

CZ == <<67, 90>>
SK == <<83, 75>>
Foreign == <<88, 88>>
MCCountryTable == {CZ, SK}
Long == [i \in 1..30 |-> 65 + i]

\* The entries of a file of countries: each has a nested map before the one
\* asked for; the second one shares the country of the first through a pointer;
\* the third one has a code that no country has; the fourth one has no country.
Names == MapOf(<<<<<<1>>, Str(METADATA_MARKER)>>, <<<<2>>, ArrayOf(<<Str(<<3>>), Num(6, 4)>>)>>>>)
CountryMap(code) == MapOf(<<<<<<13>>, Names>>, <<Keys.iso_code, Str(code)>>>>)
Entry1 == MapOf(<<<<<<14>>, Names>>, <<Keys.country, CountryMap(CZ)>>>>)
PointerTarget == Len(Entry1) - Len(CountryMap(CZ))
CountryData == <<
    [bytes |-> Entry1, says |-> CZ],
    [bytes |-> MapOf(<<<<<<15>>, Pointer4(PointerTarget)>>, <<Keys.country, Pointer1(PointerTarget)>>>>), says |-> CZ],
    [bytes |-> MapOf(<<<<Keys.country, CountryMap(Foreign)>>>>), says |-> UnknownCountry],
    [bytes |-> MapOf(<<<<<<14>>, Names>>>>), says |-> UnknownCountry],
    [bytes |-> MapOf(<<<<Keys.country, CountryMap(SK)>>>>), says |-> SK]>>

AS(number, org) == MapOf(<<<<Keys.autonomous_system_number, Num(6, number)>>,
                           <<Keys.autonomous_system_organization, org>>>>)
ASNData == <<
    [bytes |-> AS(7, Str(Long)), says |-> [number |-> 7, orgName |-> Long]],
    [bytes |-> AS(300, Pointer1(7)), says |-> [number |-> 300, orgName |-> Long]],
    [bytes |-> MapOf(<<<<Keys.autonomous_system_number, Num(5, 7)>>>>), says |-> UnknownASN],
    [bytes |-> MapOf(<<<<Keys.autonomous_system_number, Num(6, 7)>>>>), says |-> UnknownASN],
    [bytes |-> AS(9, Str(<<>>)), says |-> [number |-> 9, orgName |-> <<>>]]>>

Data == [country |-> CountryData, asn |-> ASNData]

\* Where an entry stands in the data section.
OffsetOf(data, entry) == FoldLeft(LAMBDA n, e : n + Len(e.bytes), 0, SubSeq(data, 1, entry - 1))

\* The search tree of a set of networks, in records of 24, 28 or 32 bits.
NodesOf(networks) ==
    {<<>>} \cup UNION {{SubSeq(n.prefix, 1, k) : k \in 0..Len(n.prefix) - 1} : n \in networks}
Rank(prefix) == FoldLeft(LAMBDA n, b : 2 * n + b, 1, prefix)

RecordBytes(size, l, r) ==
    LET three(n) == <<n \div 65536, (n \div 256) % 256, n % 256>>
    IN  CASE size = 24 -> three(l) \o three(r)
          [] size = 28 -> three(l) \o <<0>> \o three(r)
          [] size = 32 -> <<0>> \o three(l) \o <<0>> \o three(r)

Tree(networks, data, size) ==
    LET nodes == NodesOf(networks)
        count == Cardinality(nodes)
        indexOf(p) == Cardinality({q \in nodes : Rank(q) < Rank(p)})
        order == [i \in 1..count |-> CHOOSE p \in nodes : indexOf(p) = i - 1]
        record(p) == IF p \in nodes THEN indexOf(p)
                     ELSE IF \E n \in networks : n.prefix = p
                     THEN count + 16 + OffsetOf(data, (CHOOSE n \in networks : n.prefix = p).entry)
                     ELSE count
    IN  FlattenSeq([i \in DOMAIN order |->
            RecordBytes(size, record(Append(order[i], 0)), record(Append(order[i], 1)))])

MetadataOf(count, size, version, major) ==
    MapOf(<<<<Keys.node_count, Num(6, count)>>, <<Keys.record_size, Num(5, size)>>,
            <<Keys.ip_version, Num(5, version)>>, <<Keys.database_type, Str(<<1>>)>>,
            <<Keys.languages, ArrayOf(<<Str(<<2>>)>>)>>,
            <<Keys.binary_format_major_version, Num(5, major)>>,
            <<Keys.binary_format_minor_version, Num(5, 0)>>,
            <<Keys.build_epoch, Num(9, 300)>>,
            <<Keys.description, MapOf(<<<<<<2>>, Str(Long)>>>>)>>>>)

Content(kind, networks, size, version, major) ==
    Tree(networks, Data[kind], size) \o [i \in 1..16 |-> 0]
        \o FlattenSeq([i \in DOMAIN Data[kind] |-> Data[kind][i].bytes])
        \o METADATA_MARKER \o MetadataOf(Cardinality(NodesOf(networks)), size, version, major)

Net(prefix, entry) == [prefix |-> prefix, entry |-> entry]
Zeros(n) == [i \in 1..n |-> 0]
IP4 == Zeros(BitsIP6 - BitsIP4)

\* Networks of IPv4 and of IPv6 addresses, IPv4 only, one network that holds
\* all of IPv4, and none of IPv4.
Mixed == {Net(IP4 \o <<0>>, 1), Net(IP4 \o <<1, 1>>, 2), Net(<<1>>, 5), Net(<<0, 1, 0>>, 3), Net(<<0, 1, 1, 0, 1>>, 4)}
OnlyIP4 == {Net(<<0, 1>>, 2), Net(<<1>>, 5)}
Whole == {Net(<<0>>, 5), Net(<<1, 1, 1, 1, 1>>, 1)}
OnlyIP6 == {Net(<<1, 0>>, 1)}

File(kind, networks, size, version, major) ==
    [exists |-> TRUE, usable |-> major = 2, content |-> Content(kind, networks, size, version, major),
     networks |-> {[isIP4 |-> version = 4, prefix |-> n.prefix, says |-> Data[kind][n.entry].says] :
                    n \in networks}]

Unusable(exists, content) == [exists |-> exists, usable |-> FALSE, content |-> content, networks |-> {}]

Files(kind) == <<
    Unusable(FALSE, <<>>),
    File(kind, Mixed, 24, 6, 2),
    File(kind, OnlyIP4, 28, 4, 2),
    File(kind, Whole, 32, 6, 2),
    File(kind, OnlyIP6, 28, 6, 2),
    File(kind, Mixed, 24, 6, 3),
    Unusable(TRUE, <<>>),
    Unusable(TRUE, SubSeq(Content(kind, Mixed, 24, 6, 2), 1, 60)),
    Unusable(TRUE, METADATA_MARKER \o MetadataOf(40, 24, 6, 2)),
    Unusable(TRUE, Content(kind, OnlyIP4, 24, 5, 2))>>

MCFileTable == [country |-> Files("country"), asn |-> Files("asn")]

\* No file, a good one or a damaged one at home, or no home; any file in the
\* system, and no file or a good one behind it.
MCInstallations ==
    {[home |-> i # 0,
      files |-> [country |-> [HOME |-> IF i = 0 THEN 2 ELSE i, SYSTEM |-> j, SYSTEM_VAR |-> k],
                 asn |-> [HOME |-> IF i = 0 THEN 2 ELSE i, SYSTEM |-> 11 - j, SYSTEM_VAR |-> k]]] :
        i \in {0, 1, 2, 8}, j \in 1..10, k \in {1, 3}}

=============================================================================
