------------------------------- MODULE Formats -------------------------------
(***************************************************************************)
(* The decisions of liblaser that depend on bytes alone: the bounds of a   *)
(* directory walk and of a TOC, where a label is cut, which characters     *)
(* make a token, when two region masks disagree.  Each is written as the   *)
(* code computes it; the definition it is compared with follows it, and    *)
(* MCFormats checks the pairs on scaled sizes.                              *)
(***************************************************************************)
EXTENDS Integers, SequencesExt

CONSTANTS
    SectorSize,     \* ISO_SECTOR_SIZE
    MaxDirSectors,  \* ISO_MAX_DIR_SECTORS
    RecordHeader,   \* ISO_DR_NAME: the fixed part of a directory record
    Word,           \* 2^32, past the largest uint32_t
    TocBuffer,      \* sizeof(toc)
    LabelMax,       \* LASER_DISC_VOLUME_ID_MAX
    IntMax,         \* INT_MAX
    LongMax         \* LONG_MAX

Least(S) == Min(S)
NotFound == <<>>

-----------------------------------------------------------------------------
(* iso_find_child(), disc.c.  A sector is what its bytes decode to as a     *)
(* record at each offset: [len, names], names telling whether the record   *)
(* is named, is of the kind wanted and has the name wanted.                *)

\* In 32 bits.
DirSectors(dir_len) ==
    Least({((dir_len + SectorSize - 1) % Word) \div SectorSize, MaxDirSectors})

\* Zero is padding; too short or past the sector is malformed.
IsRecord(sector, off) ==
    /\ off < SectorSize
    /\ sector[off].len >= RecordHeader
    /\ off + sector[off].len <= SectorSize

\* The offset of the record wanted, SectorSize if there is none.
FindInSector(sector) ==
    LET walk[off \in 0 .. SectorSize] ==
            IF ~IsRecord(sector, off) THEN SectorSize
            ELSE IF sector[off].names THEN off
            ELSE walk[off + sector[off].len]
    IN  walk[0]

\* dir[s] is a sector, or NotFound if it cannot be read: that ends the walk.
FindChild(dir, dir_len) ==
    LET Stops == {s \in 0 .. DirSectors(dir_len) - 1 :
                     dir[s] = NotFound \/ FindInSector(dir[s]) < SectorSize}
    IN  IF Stops = {} \/ dir[Least(Stops)] = NotFound THEN NotFound
        ELSE <<Least(Stops), FindInSector(dir[Least(Stops)])>>

(* The reference: the records of a sector are those of the smallest set of
   offsets that holds the first and with each well-formed one the next. *)
Chained(sector) ==
    LET Closed(C) == 0 \in C /\ \A o \in C : IsRecord(sector, o) => o + sector[o].len \in C
    IN  {o \in 0 .. SectorSize : \A C \in SUBSET (0 .. SectorSize) : Closed(C) => o \in C}
Wanted(sector) == {o \in Chained(sector) : IsRecord(sector, o) /\ sector[o].names}

WalkFindsTheFirst(sector) ==
    FindInSector(sector) = Least(Wanted(sector) \cup {SectorSize})

\* Every sector of the directory, up to the ceiling - and none of one whose
\* length is within a sector of 2^32, which wraps.
LengthIsRounded(dir_len) ==
    LET whole == CHOOSE n \in 0 .. Word : (n - 1) * SectorSize < dir_len /\ dir_len <= n * SectorSize
    IN  DirSectors(dir_len) =
            IF dir_len > Word - SectorSize THEN 0 ELSE Least({whole, MaxDirSectors})

-----------------------------------------------------------------------------
(* read_cd_toc(), disc.c: announced is the length field of the TOC, actual  *)
(* the length of the transfer.  A descriptor is [data, leadout, lba].      *)

Descriptors(announced, actual) ==
    (Least({announced + 2, actual, TocBuffer}) - 4) \div 8

TocUsable(announced, actual) == actual >= 4 + 8 /\ announced + 2 >= 4 + 8

TocKind(toc, announced, actual) ==
    IF ~TocUsable(announced, actual) THEN "none" ELSE IF toc[1].data THEN "data" ELSE "audio"

\* The start of the first data track, or 0.
FirstDataLba(toc, announced, actual) ==
    LET tracks == IF ~TocUsable(announced, actual) THEN {}
                  ELSE {i \in 1 .. Descriptors(announced, actual) : toc[i].data /\ ~toc[i].leadout}
    IN  IF tracks = {} THEN 0 ELSE toc[Least(tracks)].lba

(* The reference: descriptor i takes the eight bytes after the four of the
   header and the descriptors before it; one is looked at if it was
   announced, transferred and kept, to its last byte. *)
WholeIn(i, length) == 4 + 8 * i <= length

DescriptorsAreWhole(announced, actual) ==
    TocUsable(announced, actual) =>
        \A i \in 1 .. TocBuffer :
            i <= Descriptors(announced, actual) <=>
                WholeIn(i, announced + 2) /\ WholeIn(i, actual) /\ WholeIn(i, TocBuffer)

-----------------------------------------------------------------------------
(* copy_volume_id(), disc.c.  A byte of UTF-8 opens a sequence or continues *)
(* one.                                                                    *)

\* The bytes kept: while the first byte cut off continues, the cut moves left.
LabelLength(bytes) ==
    IF Len(bytes) <= LabelMax - 1 THEN Len(bytes)
    ELSE Max({0} \cup {n \in 1 .. LabelMax - 1 : bytes[n + 1] # "continues"})

\* The bytes of a text, given the length of each of its characters.
BytesOf(chars) ==
    FoldLeft(LAMBDA bytes, n : bytes \o [i \in 1 .. n |-> IF i = 1 THEN "opens" ELSE "continues"],
             <<>>, chars)

(* The reference: as many whole characters as fit. *)
LabelIsWhole(chars) ==
    LET Size(k) == Len(BytesOf(SubSeq(chars, 1, k)))
    IN  LabelLength(BytesOf(chars)) = Max({Size(k) : k \in {j \in 0 .. Len(chars) : Size(j) <= LabelMax - 1}})

-----------------------------------------------------------------------------
(* laser_parse_token(), registry.c.  A character is its digit, or another   *)
(* number for strtol()'s blanks and signs and all the rest.                *)

Digits == 0 .. 9
Value(digits) == FoldLeft(LAMBDA v, d : 10 * v + d, 0, digits)

\* strtol() stops at what is no digit and saturates; errno tells.
Strtol(str) ==
    LET end == Min({i \in 1 .. Len(str) : str[i] \notin Digits} \cup {Len(str) + 1})
        v   == Value(SubSeq(str, 1, end - 1))
    IN  [value |-> IF v > LongMax THEN LongMax ELSE v, erange |-> v > LongMax, rest |-> end]

Parsed(str) ==
    /\ Len(str) > 0 /\ str[1] \in Digits
    /\ Strtol(str).rest = Len(str) + 1
    /\ ~Strtol(str).erange /\ Strtol(str).value <= IntMax

(* The reference: digits, of a number an int holds. *)
TokenIsAnInt(str) ==
    Parsed(str) <=> Len(str) > 0 /\ (\A i \in DOMAIN str : str[i] \in Digits) /\ Value(str) <= IntMax

-----------------------------------------------------------------------------
(* laser_region_mismatch(), scsi.c, over the answers of REPORT KEY and READ *)
(* DVD STRUCTURE, NotFound if there was none.  A mask is the set of the     *)
(* regions it prohibits.                                                   *)

Regions == 0 .. 7

RegionMismatch(rpc, rmi) ==
    /\ rpc # NotFound
    /\ rpc.enforces /\ rpc.set
    /\ rmi # NotFound
    /\ rmi.mask # {}
    /\ (Regions \ rpc.mask) \cap (Regions \ rmi.mask) = {}

(* The reference: a disc that prohibits something plays nowhere the drive,
   once it has a region to enforce, does. *)
MismatchIsReal(rpc, rmi) ==
    RegionMismatch(rpc, rmi) <=>
        /\ rpc # NotFound /\ rmi # NotFound
        /\ rpc.enforces /\ rpc.set /\ rmi.mask # {}
        /\ \A r \in Regions : r \in rpc.mask \/ r \in rmi.mask

=============================================================================
