-------------------------------- MODULE Files --------------------------------
(***************************************************************************)
(* What happens to the bytes of a file between store and retrieve, with    *)
(* restarts between: the keys of LocalFiles, encrypt and decrypt of        *)
(* crypto.cpp, and the cutting of FilePieces.  Where the pieces are in the *)
(* meantime is P2Pocket's matter; here each comes back as it was.          *)
(*                                                                         *)
(* Byte number i of the user's file is the number i, and a byte that       *)
(* decrypt gets wrong is Wrong.  Of the cipher text only the NULs matter,  *)
(* which are anywhere.                                                     *)
(***************************************************************************)
EXTENDS LocalFiles, FilePieces

CONSTANTS MaxSize          \* bound on the size of a file

ASSUME CipherAssumption == MaxSize \in Nat /\ IvSize = BlockSize

VARIABLES made,            \* history: the run that made the keys
          stored,          \* {} or {the file in the network, with its keys}
          written          \* {} or {what retrieve has written of which file}

fileVars == <<vars, made, stored, written>>

Wrong == 0

Plain(n) == [i \in 1 .. n |-> i]

FilesInit == Init /\ made = 0 /\ stored = {} /\ written = {}

\* EVP_EncryptFinal_ex pads with 1 to BlockSize bytes.
Padded(n) == (n \div BlockSize + 1) * BlockSize

CipherTexts(n) == [1 .. Padded(n) -> Byte]

\* store, of one file.  `cipher`, `run` and `read` (are the keys those of a file
\* that was there?) are history.
Store(n) ==
    /\ pc = "running" /\ stored = {}
    /\ \E c \in CipherTexts(n) :
          stored' = {[size |-> n, cipher |-> c, pieces |-> Split(Streamed(n, c)),
                      key |-> key, iv |-> iv, run |-> runs, read |-> made # runs]}
    /\ UNCHANGED <<vars, made, written>>

\* CBC: a byte of the plain text depends on its block of the cipher text and on
\* one byte of the block before, or of the second key; on all of the first key.
Block(i) == LET first == ((i - 1) \div BlockSize) * BlockSize
            IN  first + 1 .. first + BlockSize

Damaged(f, cipher, i) ==
    \/ f.key # key
    \/ \E j \in DOMAIN cipher \cap Block(i) : cipher[j] # f.cipher[j]
    \/ IF i <= BlockSize THEN f.iv[i] # iv[i]
       ELSE cipher[i - BlockSize] # f.cipher[i - BlockSize]

\* EVP_DecryptUpdate keeps a last whole block back, and EVP_DecryptFinal_ex gives
\* it out without its padding.  Nobody looks whether that fails: behind an
\* incomplete block it does, and behind another block than the last, or a wrong
\* one, it does unless the bytes happen to look like padding.
PaddingRead(f, cipher) ==
    /\ Len(cipher) = Len(f.cipher)
    /\ \A i \in f.size + 1 .. Len(cipher) : ~Damaged(f, cipher, i)

DecryptedSizes(f, cipher) ==
    LET whole == (Len(cipher) \div BlockSize) * BlockSize
    IN  IF Len(cipher) % BlockSize # 0 THEN {whole}
        ELSE IF PaddingRead(f, cipher) THEN {f.size}
        ELSE whole - BlockSize .. whole - 1

Decrypted(f, cipher, n) ==
    [i \in 1 .. n |-> IF i > f.size \/ Damaged(f, cipher, i) THEN Wrong ELSE i]

\* retrieve, where every piece counts as found.
Retrieve(f) ==
    /\ pc = "running"
    /\ Retrieved(f.pieces) # <<>>
    /\ LET cipher == Retrieved(f.pieces)
       IN  \E n \in DecryptedSizes(f, cipher) :
              written' = {[of |-> f, bytes |-> Decrypted(f, cipher, n), run |-> runs]}
    /\ UNCHANGED <<vars, made, stored>>

FilesNext == \/ /\ Next /\ UNCHANGED <<stored, written>>
                /\ made' = IF keyFile' # keyFile THEN runs ELSE made
             \/ \E n \in 0 .. MaxSize : Store(n)
             \/ \E f \in stored : Retrieve(f)

FilesSpec == FilesInit /\ [][FilesNext]_fileVars

-----------------------------------------------------------------------------
(***************************************************************************)
(* A file whose cipher text is no multiple of PIECE_SIZE and has no NUL    *)
(* behind its last whole piece can be retrieved, unless it is empty; and   *)
(* what is retrieved is as it was, unless it was stored in the run that    *)
(* made the keys and is retrieved in a later one.  An empty file is stored *)
(* as an empty piece, and never comes back.                                *)
(***************************************************************************)
Survives(c) == /\ Len(c) % PieceSize # 0
               /\ \A i \in DOMAIN LastBytes(c) : LastBytes(c)[i] # Nul

ComesBack ==
    /\ \A f \in stored :
          /\ f.size = 0 => Retrieved(f.pieces) = <<>>
          /\ f.size # 0 /\ Survives(f.cipher) => Retrieved(f.pieces) # <<>>
    /\ \A w \in written :
          (Survives(w.of.cipher) /\ (w.of.read \/ w.of.run = w.run))
              => w.bytes = Plain(w.of.size)

(***************************************************************************)
(* Whatever is not as it was is in the first block or missing at the end,  *)
(* less than a piece and a block of it: no other byte is wrong, moved,     *)
(* doubled or added, and the first block only across the restart after the *)
(* run that made the keys.                                                 *)
(***************************************************************************)
DamageIsBounded ==
    \A w \in written :
        LET n == Len(w.bytes)
        IN  /\ w.of.size - n < PieceSize + BlockSize
            /\ \A i \in 1 .. n : w.bytes[i] # i =>
                  i <= BlockSize /\ ~w.of.read /\ w.of.run < w.run

=============================================================================
