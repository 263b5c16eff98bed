------------------------------ MODULE Playlists ------------------------------
(***************************************************************************)
(* The songs of one playlist (PlaylistService): its owner and its editors  *)
(* add, remove, reorder and move them at the same time.  A request reads   *)
(* the rows of playlist_songs and writes them an await later; save() of    *)
(* several rows is one transaction, inserts again a row deleted meanwhile, *)
(* and fails on a song that has a new row (playlistId, songId is unique).  *)
(*                                                                         *)
(* Who may do so is in PlaylistAccess; rule-based playlists are left out.  *)
(***************************************************************************)
EXTENDS Integers, FiniteSets, SequencesExt

CONSTANTS
    Entry,      \* songs
    Arranger,   \* requests in progress
    MaxRows,    \* bound: rows stored
    MaxArranged \* bound: reorders and moves begun

VARIABLES
    entry,    \* the row of each song: nth identifies it
    arranger, \* requests between their read and their write
    rows, arrangements, \* bounds
    muddled   \* history: a partial reorder, or overlapping writes, since the last
              \* time the whole list was written

vars == <<entry, arranger, rows, arrangements, muddled>>

NoEntry == [nth |-> 0]
EntryRow == [nth : 1..MaxRows, position : Nat]
Quiet == [at |-> "none"]
Present == {s \in Entry : entry[s] # NoEntry}
Position(s) == entry[s].position

TypeOK ==
    /\ entry \in [Entry -> EntryRow \cup {NoEntry}]
    /\ \A a \in Arranger :
         \/ arranger[a] = Quiet
         \/ arranger[a] \in [at : {"adding"}, song : Entry, position : Nat, stale : BOOLEAN]
         \/ /\ arranger[a].at = "saving" /\ arranger[a].whole \in BOOLEAN /\ arranger[a].stale \in BOOLEAN
            /\ DOMAIN arranger[a].list \subseteq Entry
            /\ \A s \in DOMAIN arranger[a].list : arranger[a].list[s] \in EntryRow
    /\ rows \in 0..MaxRows /\ arrangements \in 0..MaxArranged
    /\ muddled \in BOOLEAN

Init ==
    /\ entry = [s \in Entry |-> NoEntry]
    /\ arranger = [a \in Arranger |-> Quiet]
    /\ rows = 0 /\ arrangements = 0 /\ muddled = FALSE

----------------------------------------------------------------------------

Begin(a, state) ==
    /\ arranger[a] = Quiet
    /\ arranger' = [arranger EXCEPT ![a] = state]
    /\ UNCHANGED <<entry, rows, muddled>>

\* The request of a ends; the others hold an older list from here on.
EndWrite(a) ==
    arranger' = [b \in Arranger |-> IF b = a \/ arranger[b] = Quiet THEN Quiet
                                    ELSE [arranger[b] EXCEPT !.stale = TRUE]]

\* Mutant: the songs are counted instead of looking for the last position.
AddCounting(a, s) ==
    /\ s \notin Present
    /\ Begin(a, [at |-> "adding", song |-> s, position |-> Cardinality(Present), stale |-> FALSE])
    /\ UNCHANGED arrangements

\* addSong: a song already there is left alone.
Add(a, s) ==
    /\ s \notin Present
    /\ Begin(a, [at |-> "adding", song |-> s, stale |-> FALSE,
                 position |-> Max({-1} \cup {Position(t) : t \in Present}) + 1])
    /\ UNCHANGED arrangements

Insert(a) ==
    LET s == arranger[a].song
    IN  /\ arranger[a].at = "adding"
        /\ s \notin Present /\ rows < MaxRows /\ rows' = rows + 1
        /\ entry' = [entry EXCEPT ![s] = [nth |-> rows + 1, position |-> arranger[a].position]]
        /\ muddled' = (muddled \/ arranger[a].stale)
        /\ EndWrite(a)
        /\ UNCHANGED arrangements

\* removeSong, one DELETE; or the deletion of the song itself.
RemoveSong(s) ==
    /\ s \in Present
    /\ entry' = [entry EXCEPT ![s] = NoEntry]
    /\ arranger' = [a \in Arranger |-> IF arranger[a] = Quiet THEN Quiet ELSE [arranger[a] EXCEPT !.stale = TRUE]]
    /\ UNCHANGED <<rows, arrangements, muddled>>

\* The rows of a list of songs, with their indexes (from 0) as positions.
Placed(list) ==
    [s \in ToSet(list) |-> [entry[s] EXCEPT !.position = (CHOOSE i \in DOMAIN list : list[i] = s) - 1]]

Arrange(a, list) ==
    /\ arrangements' = arrangements + 1
    /\ Begin(a, [at |-> "saving", list |-> Placed(list), stale |-> FALSE, whole |-> ToSet(list) = Present])

\* reorder: any of the songs, in any order.  (An id sent twice takes its last
\* place; left out.)
Reorder(a) ==
    /\ arranger[a] = Quiet /\ arrangements < MaxArranged
    /\ \E chosen \in SUBSET Present \ {{}} : \E list \in SetToSeqs(chosen) : Arrange(a, list)

\* The songs by position, but for s, which is put at the index (from 1).
SortedWith(s, index) ==
    {list \in SetToSeqs(Present) :
       /\ list[index] = s
       /\ \A i, j \in DOMAIN list : i < j /\ s \notin {list[i], list[j]} => Position(list[i]) <= Position(list[j])}

\* moveSong to index to (from 0), cut to the last one; it does nothing when to is
\* the song's position, though positions have gaps after a removal.
Move(a, s, to) ==
    LET target == Min({to, Cardinality(Present) - 1})
    IN  /\ arranger[a] = Quiet /\ arrangements < MaxArranged
        /\ s \in Present /\ target # Position(s)
        /\ \E list \in SortedWith(s, target + 1) : Arrange(a, list)

\* Whether a row of the list has gone and another one is in its place.
Conflict(list) == \E s \in DOMAIN list : s \in Present /\ entry[s].nth # list[s].nth

SaveList(a) ==
    LET me == arranger[a]
    IN  /\ me.at = "saving" /\ ~Conflict(me.list)
        /\ entry' = [s \in Entry |-> IF s \in DOMAIN me.list THEN me.list[s] ELSE entry[s]]
        /\ muddled' = (me.stale \/ ~me.whole)
        /\ EndWrite(a)
        /\ UNCHANGED <<rows, arrangements>>

\* The write fails, as on a unique index, or the process dies.
Fail(a) ==
    /\ arranger[a] # Quiet
    /\ arranger' = [arranger EXCEPT ![a] = Quiet]
    /\ UNCHANGED <<entry, rows, arrangements, muddled>>

Next ==
    \/ \E s \in Entry : RemoveSong(s)
    \/ \E a \in Arranger :
         \/ Insert(a) \/ Reorder(a) \/ SaveList(a) \/ Fail(a)
         \/ \E s \in Entry : Add(a, s) \/ \E to \in 0..Cardinality(Entry) : Move(a, s, to)

Spec == Init /\ [][Next]_vars

----------------------------------------------------------------------------
(* Properties *)

\* Two songs share a position only after a reorder of some of the songs, or after
\* overlapping writes; a move, or a reorder of all, undoes it.  Removals leave gaps
\* and never lead to it.
PositionsDistinct ==
    \A s, t \in Present : Position(s) = Position(t) => s = t \/ muddled

=============================================================================
