------------------------------ MODULE SstFile ------------------------------
(***************************************************************************)
(* An SST: how blocks, metadata and Bloom filter are built, what opening   *)
(* the file reads back, and where the iterators over it stand.             *)
(*                                                                         *)
(* A user key is a number, Text gives its bytes; keys are numbered in the  *)
(* order of their bytes.  Of a value only the length counts, 0 is a        *)
(* deletion.  A file maps offsets to what was written there, so a reader   *)
(* that computes a wrong offset or length finds nothing; whether the       *)
(* checksum of a part still matches is a field of that part.               *)
(***************************************************************************)
EXTENDS Bloom, FiniteSets, SequencesExt

CONSTANTS
    Text,           \* the bytes of each user key
    Fingerprint,    \* farmhash::fingerprint32 of each user key
    BlockSize       \* LsmStorageOptions::block_size

UserKey == DOMAIN Text

LexBefore(s, t) ==
    LET n == Len(LongestCommonPrefix({s, t}))
    IN  Len(s) = n \/ (Len(t) > n /\ s[n + 1] < t[n + 1])

ASSUME SstFileAssumption ==
    /\ \A k \in UserKey : Text[k] # <<>> /\ Fingerprint[k] \in HashRange
    /\ \A j, k \in UserKey : j < k => LexBefore(Text[j], Text[k]) /\ Text[j] # Text[k]
    /\ BlockSize \in Nat

TsRangeBegin == 1000000     \* u64::MAX
TsRangeEnd   == 0

\* Key order: user keys ascending, the versions of one key from new to old.
Before(a, b)     == a.key < b.key \/ (a.key = b.key /\ a.ts > b.ts)
AtOrBefore(a, b) == ~Before(b, a)
SameKeyTs(a, b)  == a.key = b.key /\ a.ts = b.ts

KeyTs(e) == [key |-> e.key, ts |-> e.ts]
NoKey    == [key |-> 0, ts |-> 0]
NoEntry  == [key |-> 0, ts |-> 0, len |-> 0]

U16(n) == n % 65536

-----------------------------------------------------------------------------
(* Blocks.                                                                 *)

NewBlock == [offsets |-> <<>>, data |-> << >>, size |-> 0, first |-> <<>>]

Overlap(first, text) == Len(LongestCommonPrefix({first, text}))

RawLen(e) == Len(Text[e.key]) + 8

\* BlockBuilder::add refuses an entry unless the block is empty.
Full(b, e) ==
    /\ 2 + 2 * Len(b.offsets) + b.size + RawLen(e) + e.len + 6 > BlockSize
    /\ b.offsets # <<>>

\* Mutated form: the value's length is written as u8.
EncodeEntryLenByte(b, e) ==
    LET overlap == Overlap(b.first, Text[e.key])
    IN  [overlap |-> U16(overlap), rest |-> SubSeq(Text[e.key], overlap + 1, Len(Text[e.key])),
         ts |-> e.ts, len |-> e.len % 256,
         size |-> 2 + 2 + Len(Text[e.key]) - overlap + 8 + 1 + e.len]

\* Lengths are written as u16, the value itself in full.
EncodeEntry(b, e) ==
    LET overlap == Overlap(b.first, Text[e.key])
    IN  [overlap |-> U16(overlap), rest |-> SubSeq(Text[e.key], overlap + 1, Len(Text[e.key])),
         ts |-> e.ts, len |-> U16(e.len),
         size |-> 2 + 2 + Len(Text[e.key]) - overlap + 8 + 2 + e.len]

AddToBlock(b, e) ==
    LET entry == EncodeEntry(b, e)
    IN  [offsets |-> Append(b.offsets, U16(b.size)),
         data    |-> b.size :> entry @@ b.data,
         size    |-> b.size + entry.size,
         first   |-> IF b.first = <<>> THEN Text[e.key] ELSE b.first]

\* Block::encode: data, offsets, number of offsets.
EncodeBlock(b) ==
    [data |-> b.data, offsets |-> b.offsets, count |-> U16(Len(b.offsets)),
     len |-> b.size + 2 * Len(b.offsets) + 2]

\* Block::decode: as many offsets as the last two bytes say.
DecodeBlock(raw) ==
    [data |-> raw.data,
     offsets |-> SubSeq(raw.offsets, Len(raw.offsets) - raw.count + 1, Len(raw.offsets))]

\* Block::get_first_key: the entry at the start of the data holds its key in full.
FirstText(block) == block.data[0].rest

\* BlockIterator::seek_to, entries counted from 1.
EntryAt(block, i) ==
    IF i > Len(block.offsets) THEN NoEntry
    ELSE LET entry == block.data[block.offsets[i]]
             text  == SubSeq(FirstText(block), 1, entry.overlap) \o entry.rest
         IN  [key |-> CHOOSE k \in UserKey : Text[k] = text,
              ts |-> entry.ts, len |-> entry.len]

\* Mutated form: the upper half starts one entry too far.
SeekInBlockSkips(block, key) ==
    LET n == Len(block.offsets)
        find[low \in 1..n + 2, high \in 1..n + 1] ==
            LET mid == low + (high - low) \div 2
            IN  IF low >= high THEN low
                ELSE IF Before(EntryAt(block, mid), key) THEN find[mid + 2, high]
                ELSE IF SameKeyTs(EntryAt(block, mid), key) THEN mid
                ELSE find[low, mid]
    IN  find[1, n + 1]

\* BlockIterator::seek_to_key: the first entry at or after key, by bisection.
SeekInBlock(block, key) ==
    LET n == Len(block.offsets)
        find[low \in 1..n + 1, high \in 1..n + 1] ==
            LET mid == low + (high - low) \div 2
            IN  IF low >= high THEN low
                ELSE IF Before(EntryAt(block, mid), key) THEN find[mid + 1, high]
                ELSE IF SameKeyTs(EntryAt(block, mid), key) THEN mid
                ELSE find[low, mid]
    IN  find[1, n + 1]

-----------------------------------------------------------------------------
(* Building the file.                                                      *)

Part(what, len) == [what |-> what, len |-> len, intact |-> TRUE]

NewTable == [block |-> NewBlock, first |-> NoKey, last |-> NoKey, data |-> << >>, size |-> 0,
             meta |-> <<>>, hashes |-> <<>>, maxTs |-> 0]

\* The block is encoded and its checksum appended.
FinishBlock(b) ==
    LET encoded == EncodeBlock(b.block)
    IN  [b EXCEPT !.block = NewBlock, !.first = NoKey, !.last = NoKey,
                  !.meta = Append(@, [offset |-> b.size, first |-> b.first,
                                      last |-> b.last]),
                  !.data = b.size :> Part(encoded, encoded.len + 4) @@ @,
                  !.size = @ + encoded.len + 4]

\* SsTableBuilder::add.
Add(b, e) ==
    LET noted == [b EXCEPT !.first  = IF @ = NoKey THEN KeyTs(e) ELSE @,
                           !.maxTs  = IF e.ts > @ THEN e.ts ELSE @,
                           !.hashes = Append(@, Fingerprint[e.key])]
    IN  IF ~Full(b.block, e)
        THEN [noted EXCEPT !.block = AddToBlock(@, e), !.last = KeyTs(e)]
        ELSE [FinishBlock(noted) EXCEPT !.block = AddToBlock(NewBlock, e),
                                        !.first = KeyTs(e), !.last = KeyTs(e)]

\* BlockMeta::encode_block_meta, with the length it asserts.
MetaLen(meta) ==
    4 + FoldLeft(LAMBDA n, m : n + 4 + 2 + RawLen(m.first) + 2 + RawLen(m.last), 0, meta)
      + 8 + 4

FilterLen(filter) == filter.nbits \div 8 + 1 + 4

\* SsTableBuilder::build: blocks, metadata, its offset, filter, its offset.
Build(b) ==
    LET f           == FinishBlock(b)
        filter      == BuildFilter(f.hashes)
        pointer     == f.size + MetaLen(f.meta)
        bloomOffset == pointer + 4
        end         == bloomOffset + FilterLen(filter)
    IN  [file |-> [data |-> f.size :> Part([meta |-> f.meta, maxTs |-> f.maxTs],
                                           MetaLen(f.meta))
                            @@ pointer :> Part(f.size, 4)
                            @@ bloomOffset :> Part(filter, FilterLen(filter))
                            @@ end :> Part(bloomOffset, 4)
                            @@ f.data,
                   size |-> end + 4],
         meta |-> f.meta, metaOffset |-> f.size,
         first |-> Head(f.meta).first, last |-> Last(f.meta).last,
         bloom |-> filter, maxTs |-> f.maxTs]

\* The entries of a memtable or of a merge, in the order they are added.
InKeyOrder(S) ==
    [i \in 1..Cardinality(S) |->
        CHOOSE e \in S : Cardinality({f \in S : Before(f, e)}) = i - 1]

\* MemTable::flush.
BuildFrom(S) == Build(FoldLeft(Add, NewTable, InKeyOrder(S)))

-----------------------------------------------------------------------------
(* Reading the file.                                                       *)

Nothing == Part("nothing", 0)

\* FileObject::read.
ReadAt(file, offset, len) ==
    IF offset \in DOMAIN file.data /\ file.data[offset].len = len
    THEN file.data[offset] ELSE Nothing

\* Mutated form: the last key is the first key of the last block.
OpenTableShort(file) ==
    LET bloomOffset == ReadAt(file, file.size - 4, 4).what
        filter      == ReadAt(file, bloomOffset, file.size - 4 - bloomOffset)
        metaOffset  == ReadAt(file, bloomOffset - 4, 4).what
        meta        == ReadAt(file, metaOffset, bloomOffset - 4 - metaOffset)
    IN  [file |-> file, meta |-> meta.what.meta, metaOffset |-> metaOffset,
         first |-> Head(meta.what.meta).first, last |-> Last(meta.what.meta).first,
         bloom |-> filter.what, maxTs |-> meta.what.maxTs]

\* SsTable::open follows the offsets from the end of the file.
OpenTable(file) ==
    LET bloomOffset == ReadAt(file, file.size - 4, 4).what
        filter      == ReadAt(file, bloomOffset, file.size - 4 - bloomOffset)
        metaOffset  == ReadAt(file, bloomOffset - 4, 4).what
        meta        == ReadAt(file, metaOffset, bloomOffset - 4 - metaOffset)
    IN  [file |-> file, meta |-> meta.what.meta, metaOffset |-> metaOffset,
         first |-> Head(meta.what.meta).first, last |-> Last(meta.what.meta).last,
         bloom |-> filter.what, maxTs |-> meta.what.maxTs]

\* SsTable::read_block: a block ends where the next one, or the metadata, starts.
BlockPart(table, i) ==
    LET begin == table.meta[i].offset
        end   == IF i < Len(table.meta) THEN table.meta[i + 1].offset ELSE table.metaOffset
    IN  ReadAt(table.file, begin, end - begin)

ReadBlock(table, i) == DecodeBlock(BlockPart(table, i).what)

\* SsTable::find_block_idx: the last block whose first key is not after key.
FindBlock(table, key) ==
    LET n == Cardinality({i \in 1..Len(table.meta) : AtOrBefore(table.meta[i].first, key)})
    IN  IF n = 0 THEN 1 ELSE n

\* What each position of the table holds: blocks, and entries in a block.
Entries(table) ==
    [i \in 1..Len(table.meta) |->
        LET block == ReadBlock(table, i)
        IN  [j \in 1..Len(block.offsets) |-> EntryAt(block, j)]]

\* SsTableIterator::seek_to_key_inner: the position, which may be the start of the
\* next block or past the last one.
SeekPosition(table, key) ==
    LET i == FindBlock(table, key)
        block == ReadBlock(table, i)
        j == SeekInBlock(block, key)
    IN  IF j <= Len(block.offsets) THEN <<i, j>> ELSE <<i + 1, 1>>

=============================================================================
