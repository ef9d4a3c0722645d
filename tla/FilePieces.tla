----------------------------- MODULE FilePieces -----------------------------
(***************************************************************************)
(* How interface.cpp cuts an encrypted file into pieces and puts it        *)
(* together again.  What is cut is the cipher text, and a byte of it is NUL *)
(* or some other byte; SHA-1 is left out.                                  *)
(***************************************************************************)
EXTENDS Integers, SequencesExt

CONSTANTS PieceSize,       \* PIECE_SIZE
          BlockSize        \* AES_BLOCK_SIZE

ASSUME SizesAssumption == {PieceSize, BlockSize} \subseteq Nat \ {0}

Nul == 0

Byte == {Nul, 1}

\* no_of_pieces: ceil(file_size / PIECE_SIZE), for sizes that the quotient of two
\* floats is exact enough for (100 MB).
NoOfPieces(s) == (Len(s) + PieceSize - 1) \div PieceSize

\* Mutant: the last byte of the buffer is left for a NUL.
FullPieceShort(s, i) == SubSeq(s, (i - 1) * PieceSize + 1, i * PieceSize - 1)

FullPiece(s, i) == SubSeq(s, (i - 1) * PieceSize + 1, i * PieceSize)

\* std::string(data.c_str()): what follows the first NUL is cut off.
CString(data) ==
    SubSeq(data, 1, SelectInSeq(data \o <<Nul>>, LAMBDA byte : byte = Nul) - 1)

\* Mutant: the last byte makes room for a terminating NUL.
LastPieceShort(s) ==
    LET from == (NoOfPieces(s) - 1) * PieceSize
    IN  CString(SubSeq(s, from + 1, from + (Len(s) % PieceSize) - 1))

\* The last piece is read with the size file_size % PIECE_SIZE, which is 0 if
\* the size is a multiple of PIECE_SIZE, and goes through c_str().
LastPiece(s) ==
    LET from == (NoOfPieces(s) - 1) * PieceSize
    IN  CString(SubSeq(s, from + 1, from + (Len(s) % PieceSize)))

\* What encrypt_split_and_hash_file cuts out of what it reads from sstream.
Split(s) ==
    [i \in 1 .. NoOfPieces(s) |->
        IF i < NoOfPieces(s) THEN FullPiece(s, i) ELSE LastPiece(s)]

\* What `read` finds in sstream, in which `size` bytes of the file were to make
\* room for the cipher text.  rdbuf() of an empty file inserts nothing and so sets
\* failbit, which str("") does not clear: nothing is inserted or read any more, and
\* the buffers keep the NULs they were made of.
Streamed(size, cipher) ==
    IF size = 0 THEN [i \in DOMAIN cipher |-> Nul] ELSE cipher

\* retrieve_file: content_stream over the pieces.  A piece that comes back empty
\* counts as not found and ends the command without a file.
Retrieved(pieces) ==
    IF \E i \in DOMAIN pieces : pieces[i] = <<>> THEN <<>>
    ELSE FlattenSeq(pieces)

\* The part of the file that ends up in the last piece.
LastBytes(s) == SubSeq(s, Len(s) - (Len(s) % PieceSize) + 1, Len(s))

=============================================================================
