----------------------------- MODULE LocalFiles -----------------------------
(***************************************************************************)
(* What a process keeps about itself between its runs: id.dat              *)
(* (create_new_id) and encryption_key.dat (crypto_init), in the order      *)
(* init_node writes and reads them.  A file is created empty and gets its  *)
(* bytes when the stream is closed; the process may end anywhere between.  *)
(***************************************************************************)
EXTENDS Integers, Sequences

CONSTANTS KeyByte,         \* values of a byte of a key, 0 among them
          KeySize,         \* encryption_key_size
          IvSize,          \* conjunction_key_size
          NewId,           \* what generate_id may return, as text
          MaxRuns          \* bound on the runs of the program

ASSUME LocalFilesAssumption ==
    /\ 0 \in KeyByte /\ KeyByte \subseteq Nat
    /\ {KeySize, IvSize, MaxRuns} \subseteq Nat \ {0}
    /\ "absent" \notin NewId

Absent == <<"absent">>

\* id.dat is created but empty: the string read back is empty, and the bitset
\* made of it has no bit set.
ZeroId == "0"

VARIABLES pc,              \* "off", the next step of init_node, or "running"
          keyFile, idFile, \* bytes; id text, with "" for an empty file
          key, iv, id,     \* encryption_key, conjunction_key, self_id
          runs,            \* how much of MaxRuns is used up
          used             \* history: the keys and ids the process ran with

vars == <<pc, keyFile, idFile, key, iv, id, runs, used>>

Init == /\ pc = "off" /\ keyFile = Absent /\ idFile = Absent
        /\ key = <<>> /\ iv = <<>> /\ id = ZeroId
        /\ runs = 0 /\ used = {}

Start == /\ pc = "off" /\ runs < MaxRuns
         /\ pc' = "crypto_init" /\ runs' = runs + 1
         /\ UNCHANGED <<keyFile, idFile, key, iv, id, used>>

\* file_data.substr(0, encryption_key_size).
KeyOf(file) == SubSeq(file, 1, IF Len(file) < KeySize THEN Len(file) ELSE KeySize)

\* file_data.substr(encryption_key_size + 1), and the bytes OpenSSL reads behind
\* c_str(): one byte less than there is, and the NUL of the string instead.
IvOf(file) == SubSeq(file, KeySize + 2, Len(file)) \o <<0>>

ReadKeys ==
    /\ pc = "crypto_init" /\ keyFile # Absent
    /\ Len(keyFile) > KeySize
    /\ key' = KeyOf(keyFile) /\ iv' = IvOf(keyFile) /\ pc' = "create_new_id"
    /\ UNCHANGED <<keyFile, idFile, id, runs, used>>

\* substr beyond the end throws out_of_range, which nobody catches.
ReadKeysThrows ==
    /\ pc = "crypto_init" /\ keyFile # Absent
    /\ Len(keyFile) <= KeySize
    /\ pc' = "off"
    /\ UNCHANGED <<keyFile, idFile, key, iv, id, runs, used>>

GenerateKeys ==
    /\ pc = "crypto_init" /\ keyFile = Absent
    /\ key' \in [1 .. KeySize -> KeyByte] /\ iv' \in [1 .. IvSize -> KeyByte]
    /\ keyFile' = <<>> /\ pc' = "write_keys"
    /\ UNCHANGED <<idFile, id, runs, used>>

WriteKeys ==
    /\ pc = "write_keys"
    /\ keyFile' = key \o iv /\ pc' = "create_new_id"
    /\ UNCHANGED <<idFile, key, iv, id, runs, used>>

Runs == /\ pc' = "running"
        /\ used' = used \cup {[key |-> key, iv |-> iv, id |-> id']}

ReadId ==
    /\ pc = "create_new_id" /\ idFile # Absent
    /\ id' = (IF idFile = <<>> THEN ZeroId ELSE idFile[1])
    /\ Runs
    /\ UNCHANGED <<keyFile, idFile, key, iv, runs>>

GenerateId ==
    /\ pc = "create_new_id" /\ idFile = Absent
    /\ id' \in NewId /\ idFile' = <<>> /\ pc' = "write_id"
    /\ UNCHANGED <<keyFile, key, iv, runs, used>>

\* Mutant: the id is only kept in memory.
IdNotWritten == Absent

IdWritten == <<id>>

WriteId ==
    /\ pc = "write_id"
    /\ idFile' = IdWritten /\ id' = id /\ Runs
    /\ UNCHANGED <<keyFile, key, iv, runs>>

\* The user quits or the process is killed, at any point.
End == /\ pc # "off"
       /\ pc' = "off"
       /\ UNCHANGED <<keyFile, idFile, key, iv, id, runs, used>>

Next == \/ Start \/ ReadKeys \/ ReadKeysThrows \/ GenerateKeys \/ WriteKeys
        \/ ReadId \/ GenerateId \/ WriteId \/ End

Spec == Init /\ [][Next]_vars

-----------------------------------------------------------------------------
(***************************************************************************)
(* A process that got as far as running has run with one id and one key    *)
(* ever since, whatever interrupted its earlier starts: other peers file   *)
(* it under that id, and its stored files are encrypted with that key.     *)
(***************************************************************************)
IdentityKept == \A u, v \in used : u.id = v.id /\ u.key = v.key

(***************************************************************************)
(* crypto.cpp:13, "reading encryption keys from file": both keys are those *)
(* the file was written with, so that what was encrypted before a restart  *)
(* can be decrypted after it.                                              *)
(***************************************************************************)
KeysReadBack == \A u, v \in used : u.iv = v.iv

=============================================================================
