----------------------------- MODULE MCTableFile -----------------------------
(***************************************************************************)
(* TLC instance of TableFile and Requests.  Members may share scores, and  *)
(* from then on Delete can miss its node.                                  *)
(***************************************************************************)
EXTENDS Requests, Sldb

Symmetry == Permutations(Node) \cup Permutations(Member)

\* Bounds on lenth_, which starts again at 0 in every process, and a smaller one
\* once a table was saved: what is changed between a save and the restart is
\* lost, and what a loaded table does a table made by requests does as well.
CONSTANTS MaxLenth, MaxLenthSaved

\* Records are written in part in a first save only, of a table whose lenth_ is
\* below TornBelow; what is read behind them, at most MaxAstray entries, stays in
\* memory until a restart: such a table does what one made by requests does.
CONSTANTS TornBelow, MaxAstray

\* Whether anybody calls db::DelMem, as no handler does.
CONSTANT DelMemCalled

MCNext ==
    /\ sl.lenth < MaxLenth \/ phase # "serving"
    /\ FileNext
    /\ phase' # "serving" \/ UNCHANGED sl \/ kept = << >> \/ sl.lenth < MaxLenthSaved
    /\ (file'.torn /\ ~ file.torn) => (sl.lenth < TornBelow /\ kept = << >>)
    /\ (file.torn /\ phase = "serving") => phase' = "loading"
    /\ phase = "astray" => (UNCHANGED sl \/ sl'.lenth <= Len(Reached(file)) + MaxAstray)
    /\ DelMemCalled \/ DOMAIN dict \subseteq DOMAIN dict' \/ phase' = "loading"

MCSpec == FileInit /\ [][MCNext]_fileVars

\* What SldbProofs proves of the codec, where an encoding ends: of the bytes of
\* a length or a string and two more, the first n are read.
ASSUME CodecReadsBack ==
    /\ \A len \in {0, 63, 64, 255, 256, 16383, 16384, 65535, 65536, 16777215, 2147483647} :
        LET f == SaveLen(len) \o <<200, 7>>
        IN  \A n \in 0..Len(f) : ReadsBack(len, SubSeq(f, 1, n))
    /\ \A len \in {1, 2, 63, 64, 65} :
        LET s == [i \in 1..len |-> 255 - i]
            f == SaveRawString(s) \o <<200, 7>>
        IN  \A n \in 0..Len(f) : StringReadsBack(s, SubSeq(f, 1, n))
=============================================================================
