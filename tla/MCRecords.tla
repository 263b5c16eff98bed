----------------------------- MODULE MCRecords -----------------------------
(* The components that serve requests over their own rows: sessions,       *)
(* account deletion, the song row, its versions, releases, playlists, and  *)
(* the keys tokens are verified with.  A behaviour is one of one of them   *)
(* (`part'), and the others keep to an initial state.                      *)
(* The song versions are extended rather than instantiated, so that the    *)
(* run checks the formula the proofs are about.                           *)
EXTENDS SongVersions, TLC

CONSTANTS
    Account, MaxTokens, Nonce, Request, MaxLost,
    User, Caller, Purger, Editor, MaxRequests, MaxEdits,
    Takedown, Report, ReportThreshold, SongWriter, MaxWriters,
    Fan, Track, Publisher, MaxPreSaves, MaxPublishes,
    Entry, Arranger, MaxRows, MaxArranged,
    Kid, Ttl, StaleTtl, NegativeTtl, Threshold, ResetTimeout, MaxTime

\* A playlist has finitely many songs and there are finitely many requests in
\* progress; intVar yields no window of zero.
ASSUME RecordsAssumption ==
    /\ IsFiniteSet(Entry) /\ IsFiniteSet(Request) /\ MaxTokens \in Nat /\ MaxPreSaves \in Nat
    /\ MaxTime \in Nat /\ NegativeTtl \in Nat \ {0}

\* Two of each of these, which are alike, are swapped all at once.
Permuted == {u @@ r @@ w @@ p @@ k : u \in Permutations(User), r \in Permutations(Request),
               w \in Permutations(SongWriter), p \in Permutations(Publisher), k \in Permutations(Kid)}
MCSymmetry == {swap \in Permuted : {x \in DOMAIN swap : swap[x] # x} \in {{}, DOMAIN swap}}

VARIABLES
    part,
    token, nonce, request, drawn, doubled, condemned, escaping, lost,
    account, requests, call, purger, editor, edits, kept, exposed, unrecorded,
    song, takedown, report, writer, begun, chain, doubtful, lifted,
    release, tracks, presave, library, fan, publisher, joined, begunReleases, delivered, missed, hasty,
    entry, arranger, rows, arrangements, muddled,
    now, published, keySet, unknown, fetch, breaker, failedAt, refusal

sessionVars == <<token, nonce, request, drawn, doubled, condemned, escaping, lost>>
deletionVars == <<account, requests, call, purger, editor, edits, kept, exposed, unrecorded>>
songVars == <<song, takedown, report, writer, begun, chain, doubtful, lifted>>
versionVars == vars
releaseVars == <<release, tracks, presave, library, fan, publisher, joined, begunReleases, delivered, missed, hasty>>
playlistVars == <<entry, arranger, rows, arrangements, muddled>>
keyVars == <<now, published, keySet, unknown, fetch, breaker, failedAt, refusal>>

Sess == INSTANCE Sessions
Deletion == INSTANCE AccountDeletion
Row == INSTANCE SongRow WITH Threshold <- ReportThreshold
Rel == INSTANCE Releases
Lists == INSTANCE Playlists
Keys == INSTANCE PrivyKeys WITH entry <- keySet

RecordsInit ==
    /\ part \in {"sessions", "deletion", "song", "versions", "releases", "playlists", "keys"}
    /\ Sess!Init /\ Deletion!Init /\ Row!Init /\ Init /\ Rel!Init /\ Lists!Init /\ Keys!Init
    /\ part # "versions" => \A r \in Revision : revising[r].at = "none"
    /\ part # "releases" => release.status = "draft"
    /\ part # "keys" => ~breaker.open /\ \A k \in Kid : published[k] = 0

RecordsNext ==
    /\ UNCHANGED part
    /\ \/ part = "sessions" /\ Sess!Next
          /\ UNCHANGED <<deletionVars, songVars, versionVars, releaseVars, playlistVars, keyVars>>
       \/ part = "deletion" /\ Deletion!Next
          /\ UNCHANGED <<sessionVars, songVars, versionVars, releaseVars, playlistVars, keyVars>>
       \/ part = "song" /\ Row!Next
          /\ UNCHANGED <<sessionVars, deletionVars, versionVars, releaseVars, playlistVars, keyVars>>
       \/ part = "versions" /\ Next
          /\ UNCHANGED <<sessionVars, deletionVars, songVars, releaseVars, playlistVars, keyVars>>
       \/ part = "releases" /\ Rel!Next
          /\ UNCHANGED <<sessionVars, deletionVars, songVars, versionVars, playlistVars, keyVars>>
       \/ part = "playlists" /\ Lists!Next
          /\ UNCHANGED <<sessionVars, deletionVars, songVars, versionVars, releaseVars, keyVars>>
       \/ part = "keys" /\ Keys!Next
          /\ UNCHANGED <<sessionVars, deletionVars, songVars, versionVars, releaseVars, playlistVars>>

RecordsSpec == RecordsInit /\ [][RecordsNext]_<<part, sessionVars, deletionVars, songVars, versionVars, releaseVars, playlistVars, keyVars>>

OneLineOfTokens == Sess!OneLineOfTokens
RevocationHolds == Sess!RevocationHolds
ErasedAsAsked == Deletion!ErasedAsAsked
ErasureIsFinal == Deletion!ErasureIsFinal
LandedIsMinted == Row!LandedIsMinted
TakenDownStaysHidden == Row!TakenDownStaysHidden
PreSavesAreFulfilled == Rel!PreSavesAreFulfilled
PositionsDistinct == Lists!PositionsDistinct
RotationCatchesOn == Keys!RotationCatchesOn

=============================================================================
