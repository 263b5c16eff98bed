------------------------------ MODULE Uploads ------------------------------
(***************************************************************************)
(* One upload session (fileId) of SongService: chunks arrive in            *)
(* uploads/temp/<fileId>, and a finalise request merges them into          *)
(* uploads/merged/<fileId>.mp3, has that file scanned, stores it in S3     *)
(* under a key made of the fileId, and saves a song or a version.  A       *)
(* client that got no answer sends chunks and finalise requests again.     *)
(* Requests may carry an idempotency key: the middleware answers one from  *)
(* the cached reply of another (finalizeUpload only).                      *)
(*                                                                         *)
(* The client numbers its chunks rightly.  Node runs the statements        *)
(* between two awaits at once, so reading and deleting all chunks is one   *)
(* step; the file is whole when the last stream that opened it finishes,   *)
(* whatever earlier streams still write to it.  All keyed requests of the  *)
(* session carry the same key.                                             *)
(***************************************************************************)
EXTENDS Naturals, FiniteSets

CONSTANTS
    N,            \* totalChunks
    Finaliser,    \* finalise requests in progress
    MaxReceived,  \* bound: times a chunk is received
    MaxMerges,    \* bound: merges begun
    MaxLapses     \* bound: times the key could not protect

VARIABLES
    folder,    \* uploads/temp/<fileId>: is it there, and the chunks in it
    merged,    \* uploads/merged/<fileId>.mp3
    writer,    \* whose stream opened that file last
    stored,    \* the object in S3
    finaliser, \* what each finalise request is about to do
    songs,     \* songs and versions saved
    received,  \* history: times each chunk was received
    merges,    \* bound
    overlaps,  \* history: merges begun before another request ended
    reply,     \* is a reply cached under the key?
    keyed,     \* requests under way that carry the key
    protected, \* songs saved by such requests
    lapses     \* history: replies lost or expired, lookups in vain, see OneWholeSongPerUpload

uploadVars == <<folder, merged, writer, stored, songs, received, merges, overlaps>>
keyVars == <<reply, keyed, protected, lapses>>
vars == <<uploadVars, finaliser, keyVars>>

Chunk == 0..N - 1
Nobody == "nobody"
Content == {"absent", "partial", "whole"}

TypeOK ==
    /\ folder \in [there : BOOLEAN, chunks : SUBSET Chunk]
    /\ merged \in Content /\ stored \in Content
    /\ writer \in Finaliser \cup {Nobody}
    /\ finaliser \in [Finaliser -> {"none", "asked", "writing", "scanning", "storing", "torn", "saving", "replying"}]
    /\ songs \in Nat /\ received \in [Chunk -> Nat] /\ merges \in Nat /\ overlaps \in Nat
    /\ reply \in BOOLEAN /\ keyed \subseteq Finaliser
    /\ protected \in 0..songs /\ lapses \in 0..MaxLapses

Init ==
    /\ folder = [there |-> FALSE, chunks |-> {}]
    /\ merged = "absent" /\ stored = "absent" /\ writer = Nobody
    /\ finaliser = [f \in Finaliser |-> "none"]
    /\ received = [i \in Chunk |-> 0]
    /\ songs = 0 /\ merges = 0 /\ overlaps = 0
    /\ reply = FALSE /\ keyed = {} /\ protected = 0 /\ lapses = 0

Busy == {f \in Finaliser : finaliser[f] \notin {"none", "asked", "replying"}}

\* Request f goes on; at its end it no longer counts as keyed.
Go(f, at) ==
    /\ finaliser' = [finaliser EXCEPT ![f] = at]
    /\ keyed' = IF at = "none" THEN keyed \ {f} ELSE keyed

Lapse == lapses < MaxLapses /\ lapses' = lapses + 1

----------------------------------------------------------------------------
(* Chunks *)

\* saveChunk: the folder is made when missing; a chunk sent again overwrites.
SaveChunk(i) ==
    /\ received[i] < MaxReceived
    /\ received' = [received EXCEPT ![i] = @ + 1]
    /\ folder' = [there |-> TRUE, chunks |-> folder.chunks \cup {i}]
    /\ UNCHANGED <<merged, writer, stored, finaliser, songs, merges, overlaps, keyVars>>

----------------------------------------------------------------------------
(* The idempotency middleware *)

\* No reply is cached, or the read fails.  A cached reply is sent again, and
\* nothing else happens.  The key does not protect from a request under way.
LookUp(f) ==
    /\ finaliser[f] = "none"
    /\ finaliser' = [finaliser EXCEPT ![f] = "asked"]
    /\ keyed' = keyed \cup {f}
    /\ IF reply \/ keyed # {} THEN Lapse ELSE UNCHANGED lapses
    /\ UNCHANGED <<uploadVars, reply, protected>>

\* Mutant: the cached reply is not looked at.
LookUpNothing(f) ==
    /\ finaliser[f] = "none"
    /\ finaliser' = [finaliser EXCEPT ![f] = "asked"]
    /\ keyed' = keyed \cup {f}
    /\ UNCHANGED <<uploadVars, reply, protected, lapses>>

\* The reply has been sent; it is cached after that.
CacheReply(f) ==
    /\ finaliser[f] = "replying"
    /\ reply' = TRUE
    /\ Go(f, "none")
    /\ UNCHANGED <<uploadVars, protected, lapses>>

ReplyExpires ==
    /\ reply /\ reply' = FALSE
    /\ Lapse
    /\ UNCHANGED <<uploadVars, finaliser, keyed, protected>>

----------------------------------------------------------------------------
(* mergeScanAndUpload, finalizeUpload *)

\* Chunks are missing: an error, and an empty folder is left.
Refuse(f) ==
    /\ finaliser[f] \in {"none", "asked"} /\ folder.chunks # Chunk
    /\ finaliser[f] = "asked" \/ ~folder.there
    /\ folder' = [folder EXCEPT !.there = TRUE]
    /\ Go(f, "none")
    /\ UNCHANGED <<merged, writer, stored, songs, received, merges, overlaps, reply, protected, lapses>>

\* Request f opens the file anew, under whoever reads it, and goes on to next.
OpenStream(f, next) ==
    /\ finaliser[f] \in {"none", "asked"} /\ folder.chunks = Chunk
    /\ merges < MaxMerges /\ merges' = merges + 1
    /\ overlaps' = overlaps + IF Busy = {} THEN 0 ELSE 1
    /\ merged' = "partial"
    /\ finaliser' = [g \in Finaliser |->
         IF g = f THEN next ELSE IF finaliser[g] = "storing" THEN "torn" ELSE finaliser[g]]
    /\ keyed' = IF next = "none" THEN keyed \ {f} ELSE keyed
    /\ UNCHANGED <<stored, songs, received, reply, protected, lapses>>

\* Mutant: the end of the stream is not awaited.
MergeUnawaited(f) ==
    /\ OpenStream(f, "scanning") /\ writer' = f
    /\ folder' = [there |-> FALSE, chunks |-> {}]

\* Every chunk is read, handed to the stream and deleted.
Merge(f) ==
    /\ OpenStream(f, "writing") /\ writer' = f
    /\ folder' = [folder EXCEPT !.chunks = {}]

\* A chunk cannot be read after those before it were deleted; nobody ends the stream.
MergeBreaks(f) ==
    /\ OpenStream(f, "none") /\ writer' = Nobody
    /\ \E i \in Chunk : folder' = [folder EXCEPT !.chunks = i..N - 1]

\* The stream finishes; rmdir throws when another request removed the folder, or a
\* chunk has come since.
Finish(f) ==
    /\ finaliser[f] = "writing"
    /\ merged' = IF writer = f THEN "whole" ELSE merged
    /\ IF folder.there /\ folder.chunks = {}
       THEN folder' = [folder EXCEPT !.there = FALSE] /\ Go(f, "scanning")
       ELSE UNCHANGED folder /\ Go(f, "none")
    /\ UNCHANGED <<writer, stored, songs, received, merges, overlaps, reply, protected, lapses>>

\* ScanService.scanFile
ScanPasses(f) ==
    /\ finaliser[f] = "scanning" /\ merged # "absent"
    /\ Go(f, IF merged = "whole" THEN "storing" ELSE "torn")
    /\ UNCHANGED <<uploadVars, reply, protected, lapses>>

\* The file is deleted; a stream still open on it writes to no name.
ScanRejects(f) ==
    /\ finaliser[f] = "scanning"
    /\ merged' = "absent" /\ writer' = Nobody
    /\ Go(f, "none")
    /\ UNCHANGED <<folder, stored, songs, received, merges, overlaps, reply, protected, lapses>>

\* s3.upload: what a reader finds in a file that is being written is open.
Store(f) ==
    /\ \/ finaliser[f] = "storing" /\ stored' = "whole"
       \/ finaliser[f] = "torn" /\ stored' \in {"partial", "whole"}
    /\ Go(f, "saving")
    /\ UNCHANGED <<folder, merged, writer, songs, received, merges, overlaps, reply, protected, lapses>>

\* finalizeUpload saves a song, finalizeReupload a version.
SaveSong(f) ==
    /\ finaliser[f] = "saving"
    /\ songs' = songs + 1
    /\ IF f \in keyed THEN protected' = protected + 1 /\ Go(f, "replying")
                      ELSE UNCHANGED protected /\ Go(f, "none")
    /\ UNCHANGED <<folder, merged, writer, stored, received, merges, overlaps, reply, lapses>>

\* An awaited call fails, or the process dies: a reply may not be cached.
Fail(f) ==
    /\ finaliser[f] # "none"
    /\ Go(f, "none")
    /\ IF finaliser[f] = "replying" THEN Lapse ELSE UNCHANGED lapses
    /\ UNCHANGED <<uploadVars, reply, protected>>

Next ==
    \/ ReplyExpires \/ \E i \in Chunk : SaveChunk(i)
    \/ \E f \in Finaliser :
         \/ LookUp(f) \/ CacheReply(f)
         \/ Refuse(f) \/ Merge(f) \/ MergeBreaks(f) \/ Finish(f)
         \/ ScanPasses(f) \/ ScanRejects(f) \/ Store(f) \/ SaveSong(f) \/ Fail(f)

Spec == Init /\ [][Next]_vars

----------------------------------------------------------------------------
(* Properties *)

\* However often a client repeats itself, one song or version comes of each time it
\* sent all chunks; unless a merge began before another finalise request of the
\* session had ended, the object in S3 is the whole file; and the requests with one
\* idempotency key save one song, and one more at most for each time its reply was
\* lost, expired or not readable, or a request with the key was still under way.
OneWholeSongPerUpload ==
    /\ \A i \in Chunk : songs <= received[i]
    /\ overlaps = 0 => stored # "partial"
    /\ protected <= 1 + lapses

=============================================================================
