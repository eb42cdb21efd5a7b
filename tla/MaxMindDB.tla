------------------------------ MODULE MaxMindDB ------------------------------
(***************************************************************************)
(* libmaxminddb as GeoIP uses it: opening a database file, finding an      *)
(* address in its search tree, and reading a value of the entry found.  A  *)
(* file is a sequence of bytes: the search tree, a separator, the data     *)
(* section and the metadata behind their marker.                           *)
(*                                                                         *)
(* The numbers of address bits are parameters (32 and 128 in the code).    *)
(* Unsigned arithmetic wraps at UintRange, which stands for 2^32.  The     *)
(* names of keys are abbreviated.  Memory never runs out here.             *)
(***************************************************************************)
EXTENDS Integers, Sequences, SequencesExt

CONSTANTS
    BitsIP4,                    \* the depth of a tree of IPv4 addresses
    BitsIP6,                    \* the depth of a tree of IPv6 addresses
    METADATA_BLOCK_MAX_SIZE     \* how far from the end the marker is looked for

ASSUME DepthAssumption ==
    BitsIP4 \in Nat \ {0} /\ BitsIP6 \in Nat /\ BitsIP6 > BitsIP4

UintRange == 2^30

METADATA_MARKER == <<171, 205, 239>>
MMDB_DATA_SECTION_SEPARATOR == 16
MAXIMUM_DATA_STRUCTURE_DEPTH == 512

\* The bytes that stand for the names of keys.
Keys == [node_count |-> <<1>>, record_size |-> <<2>>, ip_version |-> <<3>>, database_type |-> <<4>>,
         languages |-> <<5>>, binary_format_major_version |-> <<6>>, binary_format_minor_version |-> <<7>>,
         build_epoch |-> <<8>>, description |-> <<9>>, country |-> <<10>>, iso_code |-> <<10, 1>>,
         autonomous_system_number |-> <<11>>, autonomous_system_organization |-> <<12>>]

\* get_uint16, get_uint24, get_uint32, get_uintX.
get_uintX(file, at, length) ==
    FoldLeft(LAMBDA value, byte : value * 256 + byte, 0, SubSeq(file, at + 1, at + length))

-----------------------------------------------------------------------------
\* The data section.

Types == <<"POINTER", "UTF8_STRING", "DOUBLE", "BYTES", "UINT16", "UINT32", "MAP", "INT32", "UINT64",
           "UINT128", "ARRAY", "CONTAINER", "END_MARKER", "BOOLEAN", "FLOAT">>

Invalid(status) == [status |-> status, type |-> "none", size |-> 0, next |-> 0, value |-> 0, bytes |-> <<>>]
InvalidData == Invalid("INVALID_DATA_ERROR")

Entry(type, size, next, value, bytes) ==
    [status |-> "SUCCESS", type |-> type, size |-> size, next |-> next, value |-> value, bytes |-> bytes]

get_ext_type(raw) == 7 + raw

get_ptr_from(ctrl, file, at, psize) ==
    CASE psize = 1 -> (ctrl % 8) * 256 + file[at + 1]
      [] psize = 2 -> 2048 + (ctrl % 8) * 65536 + get_uintX(file, at, 2)
      [] psize = 3 -> 2048 + 524288 + (ctrl % 8) * 16777216 + get_uintX(file, at, 3)
      [] psize = 4 -> get_uintX(file, at, 4)

\* How many bytes hold the size, and what is added to them.
SizeBytes(ctrl) == IF ctrl % 32 < 29 THEN 0 ELSE (ctrl % 32) - 28
SizeBase == <<29, 285, 65821>>

\* Integers have at most so many bytes; floating-point numbers have exactly so many.
MaxSize == [UINT16 |-> 2, UINT32 |-> 4, INT32 |-> 4, UINT64 |-> 8, UINT128 |-> 16]
ExactSize == [FLOAT |-> 4, DOUBLE |-> 8]

\* Behind the control byte: the size, if it does not fit into it.
ReadSize(mmdb, ctrl, at) ==
    LET k == SizeBytes(ctrl)
    IN  IF k = 0 THEN ctrl % 32 ELSE SizeBase[k] + get_uintX(mmdb.file, mmdb.data_section + at, k)

\* A value of this type and size, whose bytes begin at this offset.
DecodeData(mmdb, type, size, data) ==
    LET at == mmdb.data_section + data
    IN  IF type \in {"MAP", "ARRAY"} THEN Entry(type, size, data, 0, <<>>)
        ELSE IF type = "BOOLEAN" THEN Entry(type, 0, data, IF size = 0 THEN 0 ELSE 1, <<>>)
        ELSE IF \/ data > mmdb.data_section_size - size
                \/ type \in DOMAIN MaxSize /\ size > MaxSize[type]
                \/ type \in DOMAIN ExactSize /\ size # ExactSize[type]
        THEN InvalidData
        ELSE Entry(type, size, data + size,
                   IF type \in DOMAIN MaxSize THEN get_uintX(mmdb.file, at, size) ELSE 0,
                   IF type \in {"UTF8_STRING", "BYTES"} THEN SubSeq(mmdb.file, at + 1, at + size) ELSE <<>>)

DecodePointer(mmdb, ctrl, at, psize) ==
    IF at > mmdb.data_section_size - psize THEN InvalidData
    ELSE Entry("POINTER", psize, at + psize, get_ptr_from(ctrl, mmdb.file, mmdb.data_section + at, psize), <<>>)

\* What stands behind the control byte and the byte of an extended type.  (A
\* section with fewer bytes than its first size has is not considered.)
DecodeTyped(mmdb, ctrl, raw, at) ==
    IF raw = 1 THEN DecodePointer(mmdb, ctrl, at, ((ctrl \div 8) % 4) + 1)
    ELSE IF at > mmdb.data_section_size - SizeBytes(ctrl) THEN InvalidData
    ELSE DecodeData(mmdb, IF raw <= Len(Types) THEN Types[raw] ELSE "unknown",
                    ReadSize(mmdb, ctrl, at), at + SizeBytes(ctrl))

DecodeControl(mmdb, offset, ctrl) ==
    IF ctrl \div 32 # 0 THEN DecodeTyped(mmdb, ctrl, ctrl \div 32, offset + 1)
    ELSE IF offset + 1 > mmdb.data_section_size - 1 THEN InvalidData
    ELSE DecodeTyped(mmdb, ctrl, get_ext_type(mmdb.file[mmdb.data_section + offset + 2]), offset + 2)

decode_one(mmdb, offset) ==
    IF offset > mmdb.data_section_size - 1 THEN InvalidData
    ELSE DecodeControl(mmdb, offset, mmdb.file[mmdb.data_section + offset + 1])

IsPointer(entry) == entry.status = "SUCCESS" /\ entry.type = "POINTER"
IsContainer(entry) == entry.status = "SUCCESS" /\ entry.type \in {"MAP", "ARRAY"}

\* A pointer may not lead to another one.  What follows the value is what
\* follows the pointer, but the contents of a map or an array follow itself.
Follow(entry, target) ==
    IF IsPointer(target) THEN InvalidData
    ELSE IF IsContainer(target) THEN target ELSE [target EXCEPT !.next = entry.next]

FollowPointer(mmdb, entry) == IF IsPointer(entry) THEN Follow(entry, decode_one(mmdb, entry.value)) ELSE entry

decode_one_follow(mmdb, offset) == FollowPointer(mmdb, decode_one(mmdb, offset))

\* The entry behind this one and all it contains.  Pointers are not followed.
RECURSIVE skip_map_or_array(_, _)
SkipValue(mmdb, before) ==
    IF before.status # "SUCCESS" THEN before ELSE skip_map_or_array(mmdb, decode_one(mmdb, before.next))

RECURSIVE SkipMany(_, _, _, _)
SkipMany(mmdb, entry, count, keyed) ==
    IF count = 0 \/ entry.status # "SUCCESS" THEN entry
    ELSE SkipMany(mmdb, SkipValue(mmdb, IF keyed THEN decode_one(mmdb, entry.next) ELSE entry), count - 1, keyed)

skip_map_or_array(mmdb, entry) ==
    IF IsContainer(entry) THEN SkipMany(mmdb, entry, entry.size, entry.type = "MAP") ELSE entry

RECURSIVE FindInMap(_, _, _, _)
FindBehind(path_elem, mmdb, size, skipped) ==
    IF skipped.status # "SUCCESS" THEN skipped ELSE FindInMap(path_elem, mmdb, size - 1, skipped.next)

FindAtKey(path_elem, mmdb, size, key) ==
    IF key.status # "SUCCESS" THEN key
    ELSE IF key.type # "UTF8_STRING" THEN InvalidData
    ELSE IF key.bytes = path_elem THEN decode_one_follow(mmdb, key.next)
    ELSE FindBehind(path_elem, mmdb, size, skip_map_or_array(mmdb, decode_one(mmdb, key.next)))

FindInMap(path_elem, mmdb, size, offset) ==
    IF size = 0 THEN Invalid("LOOKUP_PATH_DOES_NOT_MATCH_DATA_ERROR")
    ELSE FindAtKey(path_elem, mmdb, size, decode_one_follow(mmdb, offset))

lookup_path_in_map(path_elem, mmdb, entry) == FindInMap(path_elem, mmdb, entry.size, entry.next)

\* MMDB_get_value.  The program's paths have no index of an array.
RECURSIVE FollowPath(_, _, _)
FollowPath(mmdb, entry, path) ==
    IF path = <<>> \/ entry.status # "SUCCESS" THEN entry
    ELSE IF entry.type # "MAP" THEN Invalid("LOOKUP_PATH_DOES_NOT_MATCH_DATA_ERROR")
    ELSE FollowPath(mmdb, lookup_path_in_map(Keys[Head(path)], mmdb, entry), Tail(path))

MMDB_get_value(mmdb, offset, path) == FollowPath(mmdb, decode_one_follow(mmdb, offset), path)

\* get_entry_data_list: the entry and all it contains, pointers followed.
Listed(list, next) == [status |-> "SUCCESS", list |-> list, next |-> next]
NotListed(status) == [status |-> status, list |-> <<>>, next |-> 0]

ItemCount(entry) == IF entry.type = "MAP" THEN 2 * entry.size ELSE entry.size

RECURSIVE get_entry_data_list(_, _, _)
RECURSIVE ListMany(_, _, _, _, _)
ListRest(mmdb, first, count, depth, before) ==
    IF first.status # "SUCCESS" THEN first
    ELSE ListMany(mmdb, first.next, count - 1, depth, before \o first.list)

ListMany(mmdb, offset, count, depth, before) ==
    IF count = 0 THEN Listed(before, offset)
    ELSE ListRest(mmdb, get_entry_data_list(mmdb, offset, depth), count, depth, before)

ListTarget(mmdb, entry, target, depth) ==
    CASE target.status # "SUCCESS" -> NotListed(target.status)
      [] IsPointer(target) -> NotListed("INVALID_DATA_ERROR")
      [] IsContainer(target) -> [get_entry_data_list(mmdb, entry.value, depth + 1) EXCEPT !.next = entry.next]
      [] OTHER -> Listed(<<target>>, entry.next)

ListEntry(mmdb, entry, depth) ==
    CASE entry.status # "SUCCESS" -> NotListed(entry.status)
      [] IsPointer(entry) -> ListTarget(mmdb, entry, decode_one(mmdb, entry.value), depth)
      [] IsContainer(entry) -> ListMany(mmdb, entry.next, ItemCount(entry), depth + 1, <<entry>>)
      [] OTHER -> Listed(<<entry>>, entry.next)

get_entry_data_list(mmdb, offset, depth) ==
    IF depth >= MAXIMUM_DATA_STRUCTURE_DEPTH THEN NotListed("INVALID_DATA_ERROR")
    ELSE ListEntry(mmdb, decode_one(mmdb, offset), depth)

-----------------------------------------------------------------------------
\* Opening a file.

\* find_metadata: the metadata stands behind the last marker.
find_metadata(file) ==
    LET n == Len(METADATA_MARKER)
        from == IF Len(file) > METADATA_BLOCK_MAX_SIZE THEN Len(file) - METADATA_BLOCK_MAX_SIZE ELSE 0
        markers == {p \in from..Len(file) - n : SubSeq(file, p + 1, p + n) = METADATA_MARKER}
    IN  IF markers = {} THEN -1 ELSE Max(markers) + n

\* make_fake_metadata_db: the metadata is read like a data section.
make_fake_metadata_db(file, metadata) ==
    [file |-> file, data_section |-> metadata, data_section_size |-> Len(file) - metadata]

\* The fields of the metadata, and the types they must have.
MetadataTypes ==
    [node_count |-> "UINT32", record_size |-> "UINT16", ip_version |-> "UINT16",
     database_type |-> "UTF8_STRING", binary_format_major_version |-> "UINT16",
     binary_format_minor_version |-> "UINT16", build_epoch |-> "UINT64",
     languages |-> "ARRAY", description |-> "MAP"]

\* value_for_key_as_uint16, _uint32, _uint64 and _string; a field of another
\* type is not accepted.
Typed(entry, type) ==
    IF entry.status = "SUCCESS" /\ entry.type # type THEN Invalid("INVALID_METADATA_ERROR") ELSE entry

value_for_key(db, key) == Typed(MMDB_get_value(db, 0, <<key>>), MetadataTypes[key])

\* populate_languages_metadata, populate_description_metadata: an array or a map
\* of strings.
StringsOnly(all, count) ==
    IF all.status # "SUCCESS" THEN all.status
    ELSE IF \E i \in 2..count + 1 : all.list[i].type # "UTF8_STRING" THEN "INVALID_METADATA_ERROR"
    ELSE "SUCCESS"

populate_metadata(db, entry) ==
    IF entry.status # "SUCCESS" THEN entry.status
    ELSE StringsOnly(ListMany(db, entry.next, ItemCount(entry), 1, <<entry>>), ItemCount(entry))

\* The first of these checks that did not succeed.
FirstError(checks) ==
    LET errors == SelectSeq(checks, LAMBDA status : status # "SUCCESS")
    IN  IF errors = <<>> THEN "SUCCESS" ELSE Head(errors)

\* read_metadata: the fields in the order in which they are read, each with the
\* values that are accepted.
CheckMetadata(field, strings) ==
    LET nonzero(f) == IF f.status = "SUCCESS" /\ f.value = 0 THEN "INVALID_METADATA_ERROR" ELSE f.status
        oneOf(f, values, error) == IF f.value \in values THEN "SUCCESS" ELSE error
    IN  FirstError(<<
            nonzero(field.node_count),
            nonzero(field.record_size),
            oneOf(field.record_size, {24, 28, 32}, "UNKNOWN_DATABASE_FORMAT_ERROR"),
            nonzero(field.ip_version),
            oneOf(field.ip_version, {4, 6}, "INVALID_METADATA_ERROR"),
            field.database_type.status,
            strings.languages,
            nonzero(field.binary_format_major_version),
            field.binary_format_minor_version.status,
            nonzero(field.build_epoch),
            strings.description>>)

Metadata(db, field) ==
    [status |-> CheckMetadata(field, [key \in {"languages", "description"} |-> populate_metadata(db, field[key])]),
     node_count |-> field.node_count.value, record_size |-> field.record_size.value,
     ip_version |-> field.ip_version.value, major |-> field.binary_format_major_version.value]

read_metadata(db) == Metadata(db, [key \in DOMAIN MetadataTypes |-> value_for_key(db, key)])

full_record_byte_size(record_size) == (record_size * 2) \div 8

\* The left and the right record of a node (record_info_for_database and the
\* getters it selects).
NodeRecord(mmdb, node, right) ==
    LET record_length == full_record_byte_size(mmdb.record_size)
        at == node * record_length
        b == mmdb.file[at + 4]
    IN  CASE mmdb.record_size = 24 -> get_uintX(mmdb.file, at + (IF right THEN 3 ELSE 0), 3)
          [] mmdb.record_size = 28 /\ ~right -> get_uintX(mmdb.file, at, 3) + (b \div 16) * 16777216
          [] mmdb.record_size = 28 /\ right -> (b % 16) * 16777216 + get_uintX(mmdb.file, at + 4, 3)
          [] mmdb.record_size = 32 -> get_uintX(mmdb.file, at + (IF right THEN 4 ELSE 0), 4)

PastTree(mmdb, node) == (node + 1) * full_record_byte_size(mmdb.record_size) > mmdb.data_section

\* find_ipv4_start_node: to the left as often as IPv6 has more bits than IPv4.
RECURSIVE find_ipv4_start_node(_, _, _)
find_ipv4_start_node(mmdb, node_value, netmask) ==
    IF netmask = BitsIP6 - BitsIP4 THEN [status |-> "SUCCESS", node_value |-> node_value, netmask |-> netmask]
    ELSE IF PastTree(mmdb, node_value) THEN [status |-> "CORRUPT_SEARCH_TREE_ERROR", node_value |-> 0, netmask |-> 0]
    ELSE LET at(left) ==
                IF left >= mmdb.node_count THEN [status |-> "SUCCESS", node_value |-> left, netmask |-> netmask]
                ELSE find_ipv4_start_node(mmdb, left, netmask + 1)
         IN  at(NodeRecord(mmdb, node_value, FALSE))

\* MMDB_open of a file with that content.
OpenFailed(status) == [status |-> status]

Opened(mmdb, start) ==
    IF start.status # "SUCCESS" THEN OpenFailed(start.status)
    ELSE [status |-> "SUCCESS", mmdb |-> mmdb, ipv4_start_node |-> start]

OpenSections(mmdb) ==
    IF mmdb.data_section > Len(mmdb.file) THEN OpenFailed("INVALID_METADATA_ERROR")
    ELSE IF mmdb.data_section_size < 3 THEN OpenFailed("INVALID_DATA_ERROR")
    ELSE Opened(mmdb, IF mmdb.ip_version = 6 THEN find_ipv4_start_node(mmdb, 0, 0)
                      ELSE [status |-> "SUCCESS", node_value |-> 0, netmask |-> 0])

OpenWithMetadata(file, metadata) ==
    LET search_tree_size == (metadata.node_count * full_record_byte_size(metadata.record_size)) % UintRange
        data_section == (search_tree_size + MMDB_DATA_SECTION_SEPARATOR) % UintRange
    IN  IF metadata.status # "SUCCESS" THEN OpenFailed(metadata.status)
        ELSE IF metadata.major # 2 THEN OpenFailed("UNKNOWN_DATABASE_FORMAT_ERROR")
        ELSE OpenSections(
                [file |-> file, data_section |-> data_section, data_section_size |-> Len(file) - data_section,
                 node_count |-> metadata.node_count, record_size |-> metadata.record_size,
                 ip_version |-> metadata.ip_version,
                 depth |-> IF metadata.ip_version = 4 THEN BitsIP4 ELSE BitsIP6])

OpenAt(file, section) ==
    IF section = -1 THEN OpenFailed("INVALID_METADATA_ERROR")
    ELSE OpenWithMetadata(file, read_metadata(make_fake_metadata_db(file, section)))

MMDB_open(file) == IF file = <<>> THEN OpenFailed("IO_ERROR") ELSE OpenAt(file, find_metadata(file))

-----------------------------------------------------------------------------
\* Finding an address.

record_type(mmdb, record) ==
    IF record = 0 THEN "INVALID"
    ELSE IF record < mmdb.node_count THEN "SEARCH_NODE"
    ELSE IF record = mmdb.node_count THEN "EMPTY"
    ELSE IF record - mmdb.node_count < mmdb.data_section_size THEN "DATA"
    ELSE "INVALID"

data_section_offset_for_record(mmdb, record) ==
    (record - mmdb.node_count - MMDB_DATA_SECTION_SEPARATOR) % UintRange

LookupFailed(status) == [status |-> status, found_entry |-> FALSE, offset |-> 0]

\* maybe_populate_result, for a record that is no node.
populate_result(mmdb, record) ==
    IF record_type(mmdb, record) = "INVALID" THEN LookupFailed("CORRUPT_SEARCH_TREE_ERROR")
    ELSE [status |-> "SUCCESS", found_entry |-> record_type(mmdb, record) = "DATA",
          offset |-> data_section_offset_for_record(mmdb, record)]

\* From a node on, one bit of the address after the other.
RECURSIVE Descend(_, _, _, _)
Descend(mmdb, address, node, bit) ==
    IF bit > mmdb.depth \/ PastTree(mmdb, node) THEN LookupFailed("CORRUPT_SEARCH_TREE_ERROR")
    ELSE LET at(value) ==
                IF record_type(mmdb, value) = "SEARCH_NODE" THEN Descend(mmdb, address, value, bit + 1)
                ELSE populate_result(mmdb, value)
         IN  at(NodeRecord(mmdb, node, address[bit] = 1))

\* A variant of find_address_in_search_tree: from the node of IPv4 addresses on,
\* but with the first bit of the address.
FindFromFirstBit(db, address, isIP4) ==
    LET mmdb == db.mmdb
        start == db.ipv4_start_node
    IN  IF mmdb.ip_version = 6 /\ isIP4
        THEN IF record_type(mmdb, start.node_value) # "SEARCH_NODE" THEN populate_result(mmdb, start.node_value)
             ELSE Descend(mmdb, address, start.node_value, 1)
        ELSE Descend(mmdb, address, 0, 1)

\* find_address_in_search_tree: an IPv4 address starts at its own node.
find_address_in_search_tree(db, address, isIP4) ==
    LET mmdb == db.mmdb
        start == db.ipv4_start_node
    IN  IF mmdb.ip_version = 6 /\ isIP4
        THEN IF record_type(mmdb, start.node_value) # "SEARCH_NODE" THEN populate_result(mmdb, start.node_value)
             ELSE Descend(mmdb, address, start.node_value, start.netmask + 1)
        ELSE Descend(mmdb, address, 0, 1)

\* MMDB_lookup_sockaddr: in a tree of IPv6 addresses an IPv4 address stands
\* behind zeros.
MMDB_lookup_sockaddr(db, address, isIP4) ==
    IF db.mmdb.ip_version = 4 /\ ~isIP4 THEN LookupFailed("IPV6_LOOKUP_IN_IPV4_DATABASE_ERROR")
    ELSE IF db.mmdb.ip_version = 6 /\ isIP4
    THEN find_address_in_search_tree(db, [i \in 1..BitsIP6 - BitsIP4 |-> 0] \o address, isIP4)
    ELSE find_address_in_search_tree(db, address, isIP4)

=============================================================================
