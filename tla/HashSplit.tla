----------------------------- MODULE HashSplit -----------------------------
(***************************************************************************)
(* How a file's data becomes a blob or a tree of chunks (hashsplit.py) and *)
(* how it is read back (the readers of vfs.py).  Where the rolling         *)
(* checksum cuts the data is the C splitter's affair: a chunk is its data  *)
(* and the level the splitter gave its boundary.                           *)
(***************************************************************************)
EXTENDS TreeCodec

CONSTANTS MAX_PER_TREE, None

ASSUME MaxPerTreeAssumption == MAX_PER_TREE \in Nat \ {0, 1}

\* Offsets are written in hexadecimal, all of a tree's at the same width.
HexLen(n) == CHOOSE w \in 1..4 : n < 16 ^ w /\ (w = 1 \/ n >= 16 ^ (w - 1))
HexDigit(d) == IF d < 10 THEN 48 + d ELSE 87 + d
HexName(n, width) == [i \in 1..width |-> HexDigit((n \div 16 ^ (width - i)) % 16)]
HexValue(name) ==
    FoldLeft(LAMBDA v, c : 16 * v + (IF c < 58 THEN c - 48 ELSE c - 87), 0, name)

RECURSIVE SumSizes(_)
SumSizes(l) == IF l = <<>> THEN 0 ELSE Head(l).size + SumSizes(Tail(l))

\* The entries of a chunk tree, each named by where its data begins.
make_shalist(l) ==
    LET vlen == HexLen(SumSizes(l))
    IN [i \in DOMAIN l |-> Entry(l[i].gitmode, HexName(SumSizes(SubSeq(l, 1, i - 1)), vlen), l[i].oid)]

\* Close the stacks below n, and any that has grown to the limit: one of a
\* single element moves up as it is, a longer one as a tree.
RECURSIVE SquishFrom(_, _, _)
SquishFrom(stacks, n, i) ==
    IF i > n /\ Len(stacks[i]) < MAX_PER_TREE
    THEN stacks
    ELSE LET l == stacks[i]
             up == IF Len(l) <= 1 THEN l
                   ELSE <<[gitmode |-> "tree", oid |-> tree_encode(make_shalist(l)), size |-> SumSizes(l)]>>
             above == IF Len(stacks) = i THEN Append(stacks, <<>>) ELSE stacks
         IN SquishFrom([above EXCEPT ![i] = <<>>, ![i + 1] = @ \o up], n, i + 1)
squish(stacks, n) == SquishFrom(stacks, n, 1)

\* One chunk fed to the stacks.
Feed(stacks, chunk) ==
    squish([stacks EXCEPT ![1] = Append(@, [gitmode |-> "file", oid |-> Blob(chunk.data), size |-> Len(chunk.data)])],
            chunk.level)

split_to_shalist(chunks) ==
    LET stacks == FoldLeft(Feed, <<<<>>>>, chunks)
    IN make_shalist(Last(squish(stacks, Len(stacks) - 1)))

split_to_blob_or_tree(chunks) ==
    LET Whole(shalist) ==
            CASE Len(shalist) = 1 -> [gitmode |-> shalist[1].gitmode, oid |-> shalist[1].oid]
              [] shalist = <<>> -> [gitmode |-> "file", oid |-> Blob(<<>>)]
              [] OTHER -> [gitmode |-> "tree", oid |-> tree_encode(shalist)]
    IN Whole(split_to_shalist(chunks))

\* The size of a file, from the last entry of each level.
RECURSIVE normal_or_chunked_file_size(_)
normal_or_chunked_file_size(oid) ==
    IF oid.t = "blob" THEN Len(oid.data)
    ELSE HexValue(last_tree_entry(oid).name) + normal_or_chunked_file_size(last_tree_entry(oid).oid)

\* MISTAKE: the entry that an offset inside a chunk falls into is skipped.
skip_one_too_many(ents, offset) ==
    LET at == {i \in DOMAIN ents : HexValue(ents[i].name) >= offset}
    IN SelectSeq(ents, LAMBDA e : \E i \in at : e = ents[i])

\* The entries from the one that holds `offset` on.
skip_chunks_before_offset(ents, offset) ==
    LET at == {i \in DOMAIN ents : HexValue(ents[i].name) = offset}
        from == IF at # {} THEN CHOOSE i \in at : \A j \in at : i <= j
                ELSE Len(SelectSeq(ents, LAMBDA e : HexValue(e.name) < offset))
    IN SubSeq(ents, from, Len(ents))

\* The pieces of data from startofs on, in order.
RECURSIVE tree_chunks(_, _)
tree_chunks(tree, startofs) ==
    LET ents == skip_chunks_before_offset(tree.ents, startofs)
        Piece(e) ==
            LET more == startofs - HexValue(e.name)
                skip == IF more > 0 THEN more ELSE 0
            IN IF e.oid.t = "tree" THEN tree_chunks(e.oid, skip)
               ELSE <<SubSeq(e.oid.data, skip + 1, Len(e.oid.data))>>
    IN FlattenSeq([i \in DOMAIN ents |-> Piece(ents[i])])

\* A chunk reader: the pieces still to come (None once they are used up, or
\* for a blob), the piece in hand with the place in it, and the offset.
ChunkReader(oid, startofs) ==
    IF oid.t = "tree"
    THEN [it |-> tree_chunks(oid, startofs), blob |-> <<>>, blobofs |-> 0, ofs |-> startofs]
    ELSE [it |-> None, blob |-> oid.data, blobofs |-> startofs, ofs |-> startofs]

\* The reader with its next piece in hand, if it needs one.
Fetched(r) ==
    CASE r.it = None \/ r.blob # <<>> -> r
      [] r.it = <<>> /\ r.blob = <<>> -> [r EXCEPT !.it = None]
      [] OTHER -> [r EXCEPT !.it = Tail(@), !.blob = Head(r.it), !.blobofs = 0]

\* What the piece in hand gives of the bytes wanted, and what is left of it.
Taken(r, want) ==
    IF r.blobofs + want < Len(r.blob)
    THEN [bytes |-> SubSeq(r.blob, r.blobofs + 1, r.blobofs + want), left |-> [r EXCEPT !.blobofs = @ + want]]
    ELSE [bytes |-> SubSeq(r.blob, r.blobofs + 1, Len(r.blob)), left |-> [r EXCEPT !.blob = <<>>, !.blobofs = 0]]

\* Read up to size bytes, or everything when size is -1.
RECURSIVE ChunkNext(_, _, _)
ChunkNext(r, size, out) ==
    IF size # -1 /\ Len(out) >= size
    THEN [out |-> out, reader |-> [r EXCEPT !.ofs = @ + Len(out)]]
    ELSE LET s == Fetched(r)
             t == Taken(s, IF size = -1 THEN Len(s.blob) - s.blobofs ELSE size - Len(out))
             all == out \o t.bytes
         IN IF t.left.it = None
            THEN [out |-> all, reader |-> [t.left EXCEPT !.ofs = @ + Len(all)]]
            ELSE ChunkNext(t.left, size, all)

\* A file reader: where it stands, the size once it is known, and the chunk
\* reader it reads through.
FileReader(oid) == [oid |-> oid, ofs |-> 0, size |-> None, reader |-> None]

\* Moving needs the size; a place outside the file is an error.
MaySeek(f, ofs) == ofs = f.ofs \/ (ofs >= 0 /\ ofs <= normal_or_chunked_file_size(f.oid))
FileSeek(f, ofs) ==
    [f EXCEPT !.ofs = ofs, !.size = IF ofs = f.ofs THEN @ ELSE normal_or_chunked_file_size(f.oid)]

\* The file after a read: the end is known once a read gives nothing.
Delivered(f, n) ==
    [buf |-> n.out,
     file |-> [f EXCEPT !.reader = n.reader, !.ofs = @ + Len(n.out), !.size = IF n.out = <<>> THEN f.ofs ELSE @]]

FileRead(f, count) ==
    LET r == IF f.reader # None /\ f.reader.ofs = f.ofs THEN f.reader ELSE ChunkReader(f.oid, f.ofs)
    IN IF f.ofs = f.size THEN [buf |-> <<>>, file |-> f] ELSE Delivered(f, ChunkNext(r, count, <<>>))

\* All of a file, as an iterator over its pieces delivers it.
Contents(oid) == ChunkNext(ChunkReader(oid, 0), -1, <<>>).out
=============================================================================
