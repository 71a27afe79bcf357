------------------------------ MODULE Splitter ------------------------------
(***************************************************************************)
(* How Put cuts its input (internal/chunk) under the policy the store's    *)
(* options amount to (options.go, internal/layout/config.go), and the      *)
(* manifest it writes of the pieces (internal/manifest).                   *)
(*                                                                         *)
(* A byte matters through the table of the rolling hash only.  One action  *)
(* is one call of Next in fixed mode; in CDC mode it is the scan of the    *)
(* carried bytes, or one Read and the scan of what it returned.  The       *)
(* reader under the splitter delivers `content` in fragments of any size,  *)
(* and then ends the way `ending` says each time it is read again.         *)
(***************************************************************************)
EXTENDS Manifests, FiniteSetsExt

CONSTANTS
    Bytes,           \* byte values
    GearTable,       \* the rolling hash's number for each of them
    HashRange,       \* how many values the rolling hash has (2^64)
    DefaultAvgSize,  \* chunk size without WithChunkSize (64 KiB)
    MaxAvgSize,      \* largest chunk size (4 MiB)
    BufSize,         \* the buffer handed to Read (32 KiB)
    Requests,        \* the options the store is opened with
    Contents,        \* what readers deliver
    Endings          \* and how they end

MinAvgSize == 1
PowersOfTwo == {1, 2, 4, 8, 16, 32, 64, 128, 256, 512, 1024, 2048, 4096, 8192, 16384, 32768, 65536,
                131072, 262144, 524288, 1048576, 2097152, 4194304}
Errors == {"EOF", "UnexpectedEOF", "failed"}

\* "failed once": the error "failed", and EOF from then on.
EndingKinds == Errors \cup {"failed once"}

ASSUME GearAssumption == GearTable \in [Bytes -> Nat]
ASSUME SizesAssumption == /\ {HashRange, BufSize} \subseteq Nat \ {0}
                          /\ {DefaultAvgSize, MaxAvgSize} \subseteq PowersOfTwo
                          /\ DefaultAvgSize <= MaxAvgSize
ASSUME InputAssumption == /\ \A c \in Contents : c \in Seq(Bytes)
                          /\ Endings \subseteq EndingKinds
                          /\ Requests \subseteq [size : Int, cdc : BOOLEAN, algo : DOMAIN Registered]

VARIABLES
    algo,      \* options.algoName
    policy,    \* Splitter.pol
    content,   \* the bytes the reader delivers
    ending,    \* the error it returns after them
    at,        \* how many of them it has delivered
    told,      \* it has failed once, and ends with EOF from now on
    carry,     \* bytes read past the last boundary (CDC)
    buf,       \* bytes of the piece the running Next has so far (CDC)
    gear,      \* the rolling hash and the length it has seen (CDC)
    offset,    \* Splitter.offset
    index,     \* Splitter.index
    eof,       \* Splitter.eof
    err,       \* Splitter.err, "none" for nil
    running,   \* a CDC Next is between two Reads
    out        \* the pieces returned

inputVars == <<algo, policy, content, ending>>
vars == <<inputVars, at, told, carry, buf, gear, offset, index, eof, err, running, out>>

-----------------------------------------------------------------------------
(* Policy, options and configuration *)

Clamp(x, lo, hi) == Max({lo, Min({x, hi})})

\* The power of two nearest to n, the smaller one of two equally near.
NearestPow2(n) ==
    LET lo == Max({m \in PowersOfTwo : m <= n})
    IN IF n - lo <= 2 * lo - n THEN lo ELSE 2 * lo

AvgOf(p) == NearestPow2(IF p.Avg <= 0 THEN DefaultAvgSize
                                       ELSE Clamp(p.Avg, MinAvgSize, MaxAvgSize))
MinOf(p) == IF p.Min <= 0 THEN AvgOf(p) \div 4 ELSE p.Min
MaxOf(p) == IF p.Max <= 0 THEN AvgOf(p) * 4 ELSE p.Max

\* Mutant: Min is kept although it is above Avg.
NormalizeMinUnchecked(p) ==
    [Mode |-> p.Mode, Avg |-> AvgOf(p), Min |-> Max({MinOf(p), 1}),
     Max |-> Clamp(MaxOf(p), AvgOf(p), MaxAvgSize * 4)]

Normalize(p) ==
    [Mode |-> p.Mode, Avg |-> AvgOf(p), Min |-> Clamp(MinOf(p), 1, AvgOf(p)),
     Max |-> Clamp(MaxOf(p), AvgOf(p), MaxAvgSize * 4)]

ModeOf(cdc) == IF cdc THEN "cdc" ELSE "fixed"

DefaultPolicy == Normalize([Mode |-> "fixed", Avg |-> DefaultAvgSize, Min |-> 0, Max |-> 0])

\* The policy of a store opened WithChunkSize(r.size) and WithCDC(r.cdc): the
\* options overwrite two fields of the default policy.
Apply(r) == Normalize([DefaultPolicy EXCEPT !.Avg = r.size, !.Mode = ModeOf(r.cdc)])

\* Mutant: a root may be reopened with the other way of splitting.
CompatibleSizeOnly(have, want) == have.Algo = want.Algo /\ have.ChunkSize = want.ChunkSize

\* What Open writes to the configuration file, the check that a later Open
\* makes, and the policy the configuration stands for.
Config(name, p) == [Algo |-> name, ChunkSize |-> p.Avg, CDC |-> p.Mode = "cdc"]
Compatible(have, want) == /\ have.Algo = want.Algo /\ have.ChunkSize = want.ChunkSize
                          /\ have.CDC = want.CDC
ConfigPolicy(c) == Normalize([Mode |-> ModeOf(c.CDC), Avg |-> c.ChunkSize, Min |-> 0, Max |-> 0])

-----------------------------------------------------------------------------
(* The rolling hash *)

Fresh == [hash |-> 0, n |-> 0]

Fed(g, bytes) ==
    FoldLeft(LAMBDA h, b : [hash |-> (2 * h.hash + GearTable[b]) % HashRange, n |-> h.n + 1],
             g, bytes)

\* Mask() + 1.  An average of 1 has no bits to test; the code takes 16 then.
MaskRange == IF policy.Avg = 1 THEN 65536 ELSE policy.Avg

\* Push has just said that the piece ends here.
AtBoundary(g) == /\ g.n >= policy.Min
                 /\ g.n >= policy.Max \/ g.hash % MaskRange = 0

\* Where a gear that has seen g finds boundaries in bytes.
Cuts(g, bytes) == {i \in 1..Len(bytes) : AtBoundary(Fed(g, SubSeq(bytes, 1, i)))}

Upto(s, i) == SubSeq(s, 1, i)
After(s, i) == SubSeq(s, i + 1, Len(s))

-----------------------------------------------------------------------------
(* The splitter *)

Init ==
    /\ \E r \in Requests : algo = r.algo /\ policy = Apply(r)
    /\ content \in Contents /\ ending \in Endings
    /\ at = 0 /\ offset = 0 /\ index = 0
    /\ carry = <<>> /\ buf = <<>> /\ out = <<>>
    /\ gear = Fresh
    /\ told = FALSE /\ eof = FALSE /\ running = FALSE
    /\ err = "none"

Left == Len(content) - at

\* The error the reader returns when its bytes are used up.
ReaderErr == IF ending = "failed once" THEN IF told THEN "EOF" ELSE "failed" ELSE ending
Told(withEnd) == told \/ (withEnd /\ ending = "failed once")

Emit(data) ==
    /\ out' = Append(out, [Index |-> index, Offset |-> offset, Data |-> data])
    /\ offset' = offset + Len(data)
    /\ index' = index + 1

Fail(e) == err' = e /\ UNCHANGED <<offset, index, out>>

\* Put stops at the first error; until then it calls Next again.
CallsNext == err = "none" /\ ~running

\* Next after the last piece.
NextEOF ==
    /\ CallsNext /\ eof
    /\ Fail("EOF")
    /\ UNCHANGED <<inputVars, at, told, carry, buf, gear, eof, running>>

\* io.ReadFull: how many of the wanted bytes arrive, and the error.  One that
\* comes with the last byte wanted is dropped.
ReadFull(want) ==
    LET n == Min({want, Left})
    IN [n |-> n,
        err |-> IF n = want THEN "none"
                ELSE IF ReaderErr = "EOF" /\ n > 0 THEN "UnexpectedEOF" ELSE ReaderErr]

\* Mutant: one Read, which may return less, in the place of ReadFull.
NextFixedOneRead ==
    /\ CallsNext /\ ~eof /\ policy.Mode = "fixed"
    /\ \/ /\ Left = 0
          /\ Fail(ReaderErr)
          /\ UNCHANGED at
       \/ \E n \in 1..Min({policy.Avg, Left}) :
            /\ Emit(SubSeq(content, at + 1, at + n))
            /\ at' = at + n
            /\ UNCHANGED err
    /\ UNCHANGED <<inputVars, told, carry, buf, gear, eof, running>>

\* Mutant: nothing read is a piece, too.
NextFixedEmptyTail ==
    /\ CallsNext /\ ~eof /\ policy.Mode = "fixed"
    /\ LET r == ReadFull(policy.Avg)
       IN /\ at' = at + r.n
          /\ eof' = (r.err # "none")
          /\ Emit(SubSeq(content, at + 1, at + r.n))
    /\ UNCHANGED <<inputVars, told, carry, buf, gear, err, running>>

NextFixed ==
    /\ CallsNext /\ ~eof /\ policy.Mode = "fixed"
    /\ LET r == ReadFull(policy.Avg)
           ended == r.err \in {"EOF", "UnexpectedEOF"}
       IN /\ at' = at + r.n
          /\ \E withEnd \in BOOLEAN :
                /\ r.err # "none" => withEnd
                /\ withEnd => r.n = Left
                /\ told' = Told(withEnd)
          /\ eof' = (ended \/ eof)
          /\ \/ /\ r.n = 0 /\ ended
                /\ Fail("EOF")
             \/ /\ r.err = "failed"
                /\ Fail(r.err)
             \/ /\ r.n > 0 /\ r.err # "failed"
                /\ Emit(SubSeq(content, at + 1, at + r.n))
                /\ UNCHANGED err
    /\ UNCHANGED <<inputVars, carry, buf, gear, running>>

\* Mutant: the carried bytes are taken over without looking for a boundary.
ScanCarryUnscanned ==
    /\ CallsNext /\ ~eof /\ policy.Mode = "cdc"
    /\ buf' = carry /\ carry' = <<>>
    /\ gear' = Fed(Fresh, carry)
    /\ running' = TRUE
    /\ UNCHANGED <<inputVars, at, told, offset, index, eof, err, out>>

\* A CDC Next begins with the bytes left over from the last one.
ScanCarry ==
    /\ CallsNext /\ ~eof /\ policy.Mode = "cdc"
    /\ LET cuts == Cuts(Fresh, carry)
       IN \/ /\ cuts # {}
             /\ Emit(Upto(carry, Min(cuts)))
             /\ carry' = After(carry, Min(cuts))
             /\ gear' = Fed(Fresh, Upto(carry, Min(cuts)))
             /\ UNCHANGED <<buf, running>>
          \/ /\ cuts = {}
             /\ buf' = carry /\ carry' = <<>>
             /\ gear' = Fed(Fresh, carry)
             /\ running' = TRUE
             /\ UNCHANGED <<offset, index, out>>
    /\ UNCHANGED <<inputVars, at, told, eof, err>>

\* Mutants: the bytes behind the boundary are lost; any error ends the input.
ReadCutDropping(got, withEnd) ==
    LET i == Min(Cuts(gear, got))
    IN /\ Cuts(gear, got) # {}
       /\ Emit(buf \o Upto(got, i))
       /\ carry' = <<>>
       /\ gear' = Fed(gear, Upto(got, i))
       /\ eof' = (withEnd /\ ReaderErr = "EOF")
       /\ UNCHANGED err

ReadTailAnyError(got, withEnd) ==
    /\ Cuts(gear, got) = {} /\ withEnd
    /\ eof' = TRUE
    /\ IF buf \o got # <<>> THEN Emit(buf \o got) /\ UNCHANGED err ELSE Fail("EOF")
    /\ UNCHANGED <<carry, gear>>

\* One Read returned `got`, and the reader's ending with it when withEnd.  A
\* boundary in `got` ends the piece, and that error is dropped.
ReadCut(got, withEnd) ==
    LET i == Min(Cuts(gear, got))
    IN /\ Cuts(gear, got) # {}
       /\ Emit(buf \o Upto(got, i))
       /\ carry' = After(got, i)
       /\ gear' = Fed(gear, Upto(got, i))
       /\ eof' = (withEnd /\ ReaderErr = "EOF" /\ i = Len(got))
       /\ UNCHANGED err

ReadTail(got, withEnd) ==
    /\ Cuts(gear, got) = {} /\ withEnd
    /\ eof' = (ReaderErr = "EOF")
    /\ IF ReaderErr = "EOF" /\ buf \o got # <<>>
         THEN Emit(buf \o got) /\ UNCHANGED err
         ELSE Fail(ReaderErr)
    /\ UNCHANGED <<carry, gear>>

ReadMore(got, withEnd) ==
    /\ Cuts(gear, got) = {} /\ ~withEnd
    /\ gear' = Fed(gear, got)
    /\ UNCHANGED <<carry, eof, err, offset, index, out>>

\* One Read of a CDC Next and the scan of what it returned.  The reader may
\* report its end with the last bytes or after them.
ReadCDC ==
    /\ running
    /\ \E n \in 0..Min({BufSize, Left}), withEnd \in BOOLEAN :
         LET got == SubSeq(content, at + 1, at + n)
         IN /\ withEnd => n = Left
            /\ n = 0 => withEnd
            /\ at' = at + n
            /\ told' = Told(withEnd)
            /\ \/ ReadCut(got, withEnd) /\ running' = FALSE /\ buf' = <<>>
               \/ ReadTail(got, withEnd) /\ running' = FALSE /\ buf' = <<>>
               \/ ReadMore(got, withEnd) /\ buf' = buf \o got /\ UNCHANGED running
    /\ UNCHANGED inputVars

Next == NextEOF \/ NextFixed \/ ScanCarry \/ ReadCDC

Spec == Init /\ [][Next]_vars

-----------------------------------------------------------------------------
(* What Put does with the pieces, and what reading them back gives *)

\* Put's entries, its object ID and manifest.New.  Sizes are at most four times
\* MaxAvgSize, so the conversions to uint32 lose nothing.
Manifest ==
    NewManifest(Lookup(algo), policy.Avg, policy.Mode = "cdc",
                ObjectID(Lookup(algo), FlattenSeq([i \in DOMAIN out |-> out[i].Data])),
                [i \in DOMAIN out |-> [ID |-> ChunkID(Lookup(algo), out[i].Data),
                                      Size |-> Len(out[i].Data), Offset |-> out[i].Offset]])

\* The chunks the Put has stored.
Blobs == LET ids == {ChunkID(Lookup(algo), out[i].Data) : i \in DOMAIN out}
         IN [id \in ids |-> id.data]

\* Assemble: pieces must come in order and without a gap.
Fits(pieces) ==
    \A i \in DOMAIN pieces :
       /\ pieces[i].Index = i - 1
       /\ pieces[i].Offset = SumOf([j \in 1..i-1 |-> Len(pieces[j].Data)])
Datas(pieces) == [i \in DOMAIN pieces |-> pieces[i].Data]
Assembled(pieces) == FlattenSeq(Datas(pieces))

\* FindBoundary: the length of the first piece of s when all of s is at hand.
FindBoundary(s) == LET cuts == Cuts(Fresh, s) IN IF cuts = {} THEN Len(s) ELSE Min(cuts)

-----------------------------------------------------------------------------
(* Properties *)

\* Every variable keeps to its domain; no piece is empty (the manifest's
\* Validate refuses empty ones).
TypeOK ==
    /\ policy \in [Mode : {"fixed", "cdc"}, Avg : Nat, Min : Nat, Max : Nat]
    /\ algo \in DOMAIN Registered /\ content \in Contents /\ ending \in Endings
    /\ told \in BOOLEAN /\ at \in 0..Len(content) /\ offset \in 0..at /\ index = Len(out)
    /\ carry \in Seq(Bytes) /\ buf \in Seq(Bytes)
    /\ gear \in [hash : 0..(HashRange - 1), n : 0..policy.Max]
    /\ eof \in BOOLEAN /\ running \in BOOLEAN
    /\ err \in {"none"} \cup Errors
    /\ \A i \in DOMAIN out : out[i].Data \in Seq(Bytes) /\ out[i].Data # <<>>

\* Every byte the reader delivered is in one piece, in order, or waits in the
\* buffer of the running Next or in the carry: cutting and assembling are
\* inverse.  A Next that reports an error gives up what it had read.
NothingLost ==
    /\ Fits(out)
    /\ err \in {"none", "EOF"} => Assembled(out) \o buf \o carry = Upto(content, at)
    /\ IsPrefix(Assembled(out), content)

\* The pieces do not depend on the sizes the Reads happened to have: they are
\* those of cutting the whole content at once, so equal contents share chunks.
CutsIndependentOfReads ==
    LET size == Len(content)
        Pieces[k \in 0..size] ==
            IF k = size THEN <<>>
            ELSE LET rest == After(content, k)
                     n == IF policy.Mode = "fixed" THEN Min({policy.Avg, Len(rest)})
                                                   ELSE FindBoundary(rest)
                 IN <<Upto(rest, n)>> \o Pieces[k + n]
    IN /\ IsPrefix(Datas(out), Pieces[0])
       /\ err = "EOF" => Datas(out) = Pieces[0]

\* An input read to its end, if it has not too many chunks, is stored whole:
\* the manifest is valid and survives its file, Verify finds no fault in what
\* the Put has written, and no part of the file passes for a manifest
\* (manifest.Encode and Decode, verify.Object).
StoredVerifies ==
    err = "EOF" /\ index <= MaxChunks =>
        LET raw == Encode(Manifest)
        IN /\ Decode(raw) = Manifest
           /\ Faults(Decode(raw), Blobs) = {}
           /\ \A n \in 1..Len(raw) - 1 : Decode(Upto(raw, n)) = Refused

\* A piece that is complete without the input's end.
Complete(data) == IF policy.Mode = "fixed" THEN Len(data) = policy.Avg
                                           ELSE AtBoundary(Fed(Fresh, data))

\* A reader that fails makes Next return its error: Put does not store the
\* part it has got.  Two errors are excepted.  io.ErrUnexpectedEOF is sure to be
\* returned in CDC mode only; and one that is not repeated is lost if a piece
\* was completed by the last Read, but in no other case.
FailureReported ==
    err = "EOF" =>
        /\ ending # "failed"
        /\ ending = "UnexpectedEOF" => policy.Mode = "fixed"
        /\ ending = "failed once" =>
             \E i \in DOMAIN out : /\ Complete(out[i].Data)
                                   /\ out[i].Offset + Len(out[i].Data) > at - BufSize

\* Next ends with io.EOF only when the reader did: what Put stores is what the
\* reader had.  It fails in fixed mode for a reader that ends with
\* io.ErrUnexpectedEOF, as a truncated HTTP body does.
EOFOnlyAtEnd == err = "EOF" => ending = "EOF"

\* Normalize is idempotent (NewSplitter, NewGear and Mask each apply it again)
\* and leaves room for a boundary between the smallest and the largest piece.
PolicySound ==
    /\ Normalize(policy) = policy
    /\ 1 <= policy.Min /\ policy.Min <= policy.Avg /\ policy.Avg <= policy.Max
    /\ policy.Avg <= MaxAvgSize

\* Whatever options a later Open of the same root gives, it is refused or cuts
\* and names every content as this store does; and it is not refused for
\* options that do so and spell the algorithm as this store did.
ReopenSplitsAlike ==
    \A r \in Requests :
        LET accepted == Compatible(Config(algo, policy), Config(r.algo, Apply(r)))
        IN /\ accepted => Apply(r) = policy /\ Lookup(r.algo) = Lookup(algo)
           /\ Apply(r) = policy /\ r.algo = algo => accepted

\* Names of algorithms are taken whatever their case (hashx.Lookup).  It fails:
\* Compatible compares them as they were given.
ReopenAnySpelling ==
    \A r \in Requests :
        Apply(r) = policy /\ Lookup(r.algo) = Lookup(algo) =>
            Compatible(Config(algo, policy), Config(r.algo, Apply(r)))

\* A store that splits by content uses the policy its configuration file stands
\* for, with Min = Avg/4 and Max = 4*Avg as Normalize says.  It fails: the
\* default policy's Min and Max stay when WithChunkSize sets Avg.
PolicyMatchesConfig ==
    policy.Mode = "cdc" => policy = ConfigPolicy(Config(algo, policy))
=============================================================================
