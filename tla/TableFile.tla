------------------------------ MODULE TableFile ------------------------------
(***************************************************************************)
(* What a restart makes of a table: db::SaveToFile writes the entries of   *)
(* the skip list in its order, db::CheckDbFileAndLoad inserts them one     *)
(* after the other into a new sorted set.  The dictionary is not saved: it *)
(* comes back from the list.                                               *)
(*                                                                         *)
(* One table, in a file that is always a finished one (Persistence is about*)
(* how it gets there) but may lack records that could not be written, or   *)
(* hold them in part: sldb writes the type, the length and the bytes of a  *)
(* record one after the other, and whoever reads a part of them is out of  *)
(* step with all that follows.                                             *)
(***************************************************************************)
EXTENDS SortSet, SequencesExt

CONSTANT GROUP  \* entries in a KEY record, 50 in the code

ASSUME GroupAssumption == GROUP \in Nat \ {0}

VARIABLES
    table,  \* the table is in db_dict
    file,   \* what the database file holds of the table
    todo,   \* the entries still to be loaded
    phase,  \* "loading" in OnInit, "astray" there out of step, "serving" in Run
    kept,   \* history: the dictionary at the last save
    whole,  \* history: the last save wrote every record
    tied,   \* history: two members shared a score in the present process
    keptTied    \* history: they did before the last save, in the process that made it

fileVars == <<vars, table, file, todo, phase, kept, whole, tied, keptTied>>

-----------------------------------------------------------------------------
(* SaveToFile.                                                              *)

\* The entries from begin() on.
Entries(L) ==
    LET after[n \in DOMAIN L.node] ==
            LET x == Forward(L, n, 1) IN
            IF x = NULL THEN << >>
            ELSE <<[score |-> L.node[x].score, val |-> L.node[x].val]>> \o after[x]
    IN  after[head_]

RecordsWithoutRest(entries) ==
    [k \in 1..Len(entries) \div GROUP |->
        SubSeq(entries, (k - 1) * GROUP + 1, k * GROUP)]

\* A record for every GROUP entries, and one for the rest.
Records(entries) ==
    [k \in 1..(Len(entries) + GROUP - 1) \div GROUP |->
        SubSeq(entries, (k - 1) * GROUP + 1,
               IF k * GROUP < Len(entries) THEN k * GROUP ELSE Len(entries))]

\* The entries of the KEY records in the file, of which the loader reads the
\* first intact before it comes upon a record in part, if one is torn, of this
\* table or of another; table is whether it gets to the TABLE record.
NoTable == [table |-> FALSE, keys |-> << >>, intact |-> 0, torn |-> FALSE]

\* Files with nothing of the table.
Bare == {[NoTable EXCEPT !.torn = t] : t \in BOOLEAN}

\* Files in which the records of some numbers are written whole.
Mixed(records) ==
    LET left(K) == [k \in DOMAIN records |-> IF k \in K THEN records[k] ELSE << >>]
    IN  [table : BOOLEAN, keys : {left(K) : K \in SUBSET DOMAIN records},
         intact : 0..Len(records), torn : BOOLEAN]

\* Every record is written, not at all or in part; without its TABLE record
\* nothing of a table is written, behind another table's record in part it is.
Files(records) ==
    Bare \cup {f \in Mixed(records) :
                 IF f.table
                 THEN f.intact < Len(records) => f.torn /\ f.keys[f.intact + 1] = << >>
                 ELSE f.intact = 0 /\ f.torn}

\* begin() of a list without nodes goes through tail_, which is NULL: a child
\* that saves an empty table dies and leaves the file as it is.
SaveToFile ==
    /\ phase = "serving"
    /\ table => sl.tail # NULL
    /\ LET records == IF table THEN Records(Entries(sl)) ELSE << >>
           end     == Len(records)
       IN  /\ file' \in IF table THEN Files(records) ELSE Bare
           /\ whole' = (file' = [table |-> table, keys |-> records, intact |-> end, torn |-> FALSE])
    /\ kept' = dict /\ keptTied' = tied
    /\ UNCHANGED <<vars, table, todo, phase>>

-----------------------------------------------------------------------------
(* CheckDbFileAndLoad.                                                      *)

\* The entries the loader reads in step.
Reached(f) == FlattenSeq(SubSeq(f.keys, 1, f.intact))

\* The server stops, however it does, and starts: the TABLE record gives an
\* empty sorted set.
Restart ==
    /\ sl' = EmptyList /\ dict' = [m \in {} |-> 0]
    /\ table' = file.table
    /\ todo' = Reached(file)
    /\ phase' = "loading"
    /\ UNCHANGED <<file, kept, whole, keptTied>>

LoadByUpdate ==
    /\ phase = "loading" /\ todo # << >>
    /\ Update(Head(todo).score, Head(todo).val)
    /\ todo' = Tail(todo)
    /\ UNCHANGED <<table, file, phase, kept, whole, keptTied>>

\* An entry of a KEY record.
LoadEntry ==
    /\ phase = "loading" /\ todo # << >>
    /\ Insert_(Head(todo).score, Head(todo).val)
    /\ todo' = Tail(todo)
    /\ UNCHANGED <<table, file, phase, kept, whole, keptTied>>

LoadDone ==
    /\ phase = "loading" /\ todo = << >>
    /\ phase' = IF file.torn THEN "astray" ELSE "serving"
    /\ UNCHANGED <<vars, table, file, todo, kept, whole, keptTied>>

\* From a record in part on any bytes can be taken for a TABLE record, also this
\* table's, and then for entries of it.
Astray ==
    /\ phase = "astray"
    /\ \/ table' = TRUE /\ UNCHANGED vars
       \/ /\ table /\ UNCHANGED table
          /\ \E s \in Score, m \in Member : Insert_(s, m)
    /\ UNCHANGED <<file, todo, phase, kept, whole, keptTied>>

\* The file ends, or a type byte is none ("Never Go Here!!"): OnInit does not
\* look at the result.
AstrayDone ==
    /\ phase = "astray" /\ phase' = "serving"
    /\ UNCHANGED <<vars, table, file, todo, kept, whole, keptTied>>

-----------------------------------------------------------------------------
(* db::Insert, the one update the handlers of the server make.              *)
DbInsert(s, m) ==
    /\ phase = "serving"
    /\ Update(s, m)
    /\ table' = TRUE
    /\ UNCHANGED <<file, todo, phase, kept, whole, keptTied>>

\* db::DelMem, which no handler calls: it can leave a table without nodes.
DbDelMem(m) ==
    /\ phase = "serving" /\ table
    /\ DelMem(m)
    /\ UNCHANGED <<table, file, todo, phase, kept, whole, keptTied>>

FileInit ==
    /\ Init
    /\ table = FALSE /\ file = NoTable /\ todo = << >> /\ phase = "serving"
    /\ kept = dict /\ whole = TRUE /\ tied = FALSE /\ keptTied = FALSE

Ties(d) == \E m, o \in DOMAIN d : m # o /\ d[m] = d[o]

FileNext ==
    /\ \/ \E s \in Score, m \in Member : DbInsert(s, m)
       \/ \E m \in Member : DbDelMem(m)
       \/ SaveToFile
       \/ Restart \/ LoadEntry \/ LoadDone \/ Astray \/ AstrayDone
    /\ tied' = (Ties(dict') \/ (tied /\ phase' = "serving"))

FileSpec == FileInit /\ [][FileNext]_fileVars

-----------------------------------------------------------------------------
(* Properties.                                                              *)

Loaded == phase = "loading" /\ todo = << >>

\* A restart brings every member back, whatever Delete left in the list: the
\* last, shorter KEY record is written too, and Insert_ refuses only members
\* it has.  (A deleted member whose node Delete missed comes back with them.)
\* A table that comes back has a node, so that range queries and the next save
\* can go through tail_ untested.
MembersRestored ==
    Loaded /\ whole => /\ DOMAIN kept \subseteq DOMAIN dict
                       /\ table => sl.tail # NULL

\* Of the entries of one member the loader takes the first, so the new list is
\* the saved one, as far as it was read in step, without repetitions, in the
\* same order even where scores are equal, and agrees with the dictionary again.
\* What is read behind a record in part changes none of it.
FirstEntriesRestored ==
    LET saved == Reached(file)
        first == {k \in DOMAIN saved : \A j \in 1..k - 1 : saved[j].val # saved[k].val}
    IN  /\ Loaded =>
             /\ Len(Entries(sl)) = Cardinality(first)
             /\ \A k \in first : Entries(sl)[Cardinality(first \cap (1..k))] = saved[k]
             /\ \A k \in DOMAIN Entries(sl) :
                  dict[Entries(sl)[k].val] = Entries(sl)[k].score
        /\ phase = "astray" =>
             \A k \in first : saved[k].val \in DOMAIN dict /\ dict[saved[k].val] = saved[k].score

\* While no two members ever shared a score, dictionary and list hold the same
\* entries: Update and DelMem left nothing behind in the list.
ListIsDictUntilTied ==
    ~ tied => /\ Cardinality(Elements(sl)) = Cardinality(DOMAIN dict)
              /\ DictInList

\* A restart brings back exactly the dictionary that was saved, as long as no
\* two members had shared a score in the process that saved it.
DictRestoredUntilTied == Loaded /\ whole /\ ~ keptTied => dict = kept

\* The comment in SaveToFile, that all the data in memory gets to disk: a
\* restart brings back the dictionary that was saved.
DictRestored == Loaded /\ whole => dict = kept

\* The same comment, of the records that a save which goes on behind a failed
\* one writes whole: when the server serves again their members are there.
WrittenRestored ==
    [][phase # "serving" /\ phase' = "serving" =>
         LET written == FlattenSeq(file.keys)
         IN  \A k \in DOMAIN written : written[k].val \in DOMAIN dict']_fileVars
=============================================================================
