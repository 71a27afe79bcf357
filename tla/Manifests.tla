----------------------------- MODULE Manifests -----------------------------
(***************************************************************************)
(* Manifests as values: how Put makes one (internal/manifest), the file it *)
(* is written to and read from, and how Verify checks an object against it *)
(* (internal/verify).                                                      *)
(*                                                                         *)
(* A file is a sequence of fields.  Digests and checksums are taken to     *)
(* differ for different contents: each is the content, tagged by its kind. *)
(***************************************************************************)
EXTENDS Integers, Sequences, SequencesExt

CONSTANTS
    MaxChunks,      \* most chunks of a manifest (2^20)
    Registered      \* spelling of an algorithm's name |-> the algorithm

ASSUME ManifestAssumption == MaxChunks \in Nat \ {0}
\* An algorithm is registered under its own name.
ASSUME AlgorithmAssumption ==
    \A name \in DOMAIN Registered : LET algo == Registered[name]
                                   IN /\ algo \in DOMAIN Registered \ {"unknown"}
                                      /\ Registered[algo] = algo

SumOf(sizes) == FoldLeft(LAMBDA a, b : a + b, 0, sizes)

\* hashx: the tags keep the IDs of chunks and of objects apart.
ChunkID(algo, data) == [kind |-> "chunk", algo |-> algo, data |-> data]
ObjectID(algo, data) == [kind |-> "object", algo |-> algo, data |-> data]

\* hashx.Lookup, on names whatever their case.
Lookup(name) == IF name \in DOMAIN Registered THEN Registered[name] ELSE "unknown"

\* manifest.New.
NewManifest(algo, size, cdc, oid, chunks) ==
    [Version |-> 1, Algo |-> algo, ChunkSize |-> size, CDC |-> cdc, ObjectID |-> oid,
     Chunks |-> chunks, TotalSize |-> SumOf([i \in DOMAIN chunks |-> chunks[i].Size])]

Validate(m) ==
    /\ m.Version = 1 /\ Len(m.Chunks) <= MaxChunks
    /\ \A i \in DOMAIN m.Chunks :
         LET e == m.Chunks[i]
         IN /\ e.Size # 0
            /\ e.Offset = SumOf([j \in 1..i-1 |-> m.Chunks[j].Size])
            /\ ~m.CDC => /\ i < Len(m.Chunks) => e.Size = m.ChunkSize
                         /\ e.Size <= m.ChunkSize
    /\ m.TotalSize = SumOf([i \in DOMAIN m.Chunks |-> m.Chunks[i].Size])

-----------------------------------------------------------------------------
(* Encode and Decode *)

\* The header, three fields for each chunk, and the checksum of all that.
Header(m) == <<[magic |-> "SBLB"], [ver |-> m.Version], [flags |-> m.CDC], [algo |-> m.Algo],
               [size |-> m.ChunkSize], [count |-> Len(m.Chunks)], [total |-> m.TotalSize],
               [oid |-> m.ObjectID]>>
HeaderSize == 8
EntrySize == 3

Sealed(body) == Append(body, [sum |-> body])

Encode(m) ==
    Sealed(Header(m) \o FlattenSeq([i \in DOMAIN m.Chunks |->
        <<[id |-> m.Chunks[i].ID], [size |-> m.Chunks[i].Size], [offset |-> m.Chunks[i].Offset]>>]))

Refused == [Version |-> 0]

\* Mutant: the entry before the checksum is left out.
EntriesShort(body, n) ==
    [i \in 1..n - 1 |-> LET at == HeaderSize + (i - 1) * EntrySize
                        IN [ID |-> body[at + 1].id, Size |-> body[at + 2].size,
                            Offset |-> body[at + 3].offset]]

\* The entries of a file with n chunks.
Entries(body, n) ==
    [i \in 1..n |-> LET at == HeaderSize + (i - 1) * EntrySize
                    IN [ID |-> body[at + 1].id, Size |-> body[at + 2].size,
                        Offset |-> body[at + 3].offset]]

\* Refused unless the file is whole, has a valid checksum and a number of
\* entries that fits its length, and gives a valid manifest.
Decode(raw) ==
    LET body  == Front(raw)
        count == body[6].count
        m == [Version |-> body[2].ver, CDC |-> body[3].flags, Algo |-> body[4].algo,
              ChunkSize |-> body[5].size, TotalSize |-> body[7].total, ObjectID |-> body[8].oid,
              Chunks |-> Entries(body, count)]
    IN IF /\ Len(raw) > HeaderSize
          /\ Last(raw) = [sum |-> body] /\ body[1] = [magic |-> "SBLB"]
          /\ count <= MaxChunks /\ count * EntrySize = Len(body) - HeaderSize
          /\ Validate(m)
       THEN m ELSE Refused

-----------------------------------------------------------------------------
(* verify.Object: read every chunk from the backend, here the function      *)
(* blobs, and compare sizes and digests with the manifest's.                *)

Faults(m, blobs) ==
    LET algo == Lookup(m.Algo)
        lost == {i \in DOMAIN m.Chunks : m.Chunks[i].ID \notin DOMAIN blobs}
        bad  == {i \in DOMAIN m.Chunks \ lost :
                   LET data == blobs[m.Chunks[i].ID]
                   IN Len(data) # m.Chunks[i].Size \/ ChunkID(algo, data) # m.Chunks[i].ID}
        all  == FlattenSeq([i \in DOMAIN m.Chunks |-> blobs[m.Chunks[i].ID]])
    IN IF algo = "unknown" THEN {"algo"}
       ELSE IF ~Validate(m) THEN {"manifest"}
       ELSE IF lost \cup bad # {} THEN {"chunk"}
       ELSE IF Len(all) # m.TotalSize THEN {"size"}
       ELSE IF ObjectID(algo, all) # m.ObjectID THEN {"object"} ELSE {}
=============================================================================
