------------------------------- MODULE GitPatch -------------------------------
(***************************************************************************)
(* The Git patches InReview captures.  jj prints the difference of two     *)
(* trees; parseGitPatch and parseHunk read it back into numbered lines,    *)
(* and buildFileManifest makes the manifest entry every comment is         *)
(* anchored in.                                                            *)
(*                                                                         *)
(* A file content is a sequence of lines as Git has them, each a text and  *)
(* whether the newline at its end is missing.  A text is a sequence of     *)
(* words with a carriage return between them: one word as a rule, or one   *)
(* and an empty one in a file with CRLF.  Git ends lines at line feeds, an *)
(* editor at carriage returns too.  A path is a sequence of parts joined   *)
(* by the delimiter " b/" of a diff header, nearly always one part.        *)
(***************************************************************************)
EXTENDS Integers, FiniteSets, Sequences, SequencesExt

CONSTANTS Blank,       \* the empty word
          NoPath,      \* no path: /dev/null or null
          Missing,     \* a header the patch does not have
          NoContent,   \* no stored content
          Malformed    \* the paths assertRepositoryPath refuses: "dir/"

Side == {"old", "new"}

(* The marks of the lines on one side of a hunk.                           *)
Marks(side) == IF side = "old" THEN {" ", "-"} ELSE {" ", "+"}

(* What an editor makes of a line: a carriage return before the newline is *)
(* one line end with it, any other is a line end of its own.               *)
Broken(line) ==
    IF ~line.cut /\ Len(line.text) > 1 /\ Last(line.text) = Blank
    THEN Front(line.text) ELSE line.text

(* splitTextDocumentLines, as the editor numbers lines: with an empty one  *)
(* after a final newline.                                                  *)
DocumentLines(content) ==
    FlattenSeq([i \in DOMAIN content |->
                   [j \in DOMAIN Broken(content[i]) |-> <<Broken(content[i])[j]>>]])
      \o (IF content # <<>> /\ Last(content).cut THEN <<>> ELSE <<<<Blank>>>>)

-----------------------------------------------------------------------------
(* What jj prints.  A change of a file is its status, its two paths, its   *)
(* two contents and whether it is text.                                    *)

(* How many of the first i marks are of lines on a side.                   *)
Reached(side, marks, i) == Cardinality({k \in 1 .. i : marks[k] \in Marks(side)})

(* The scripts that turn one content into the other, deletions before      *)
(* additions: a mark for each line of either, in order.  Which of them jj  *)
(* prints is open: its histogram need not find the shortest.               *)
Scripts(old, new) ==
    LET turns == {w \in SeqOf({" ", "-", "+"}, Len(old) + Len(new)) :
                     /\ Reached("old", w, Len(w)) = Len(old)
                     /\ Reached("new", w, Len(w)) = Len(new)
                     /\ \A i \in DOMAIN w :
                           /\ w[i] = " " => old[Reached("old", w, i)] = new[Reached("new", w, i)]
                           /\ i > 1 /\ w[i] = "-" => w[i - 1] # "+"}
        line(w, i) == IF w[i] = "+" THEN new[Reached("new", w, i)] ELSE old[Reached("old", w, i)]
    IN  {[i \in DOMAIN w |-> [mark |-> w[i], line |-> line(w, i)]] : w \in turns}

(* A line, and the marker behind it when it has no newline.                *)
Printed(e) ==
    <<[mark |-> e.mark, text |-> e.line.text]>>
      \o (IF e.line.cut THEN <<[mark |-> "\\", text |-> <<Blank>>]>> ELSE <<>>)

(* A hunk starts at the first of its lines on each side, or at the line    *)
(* before it when it has none there.                                       *)
HunkAt(script, first, last) ==
    LET marks == [k \in DOMAIN script |-> script[k].mark]
        before(side) == Reached(side, marks, first - 1)
        count(side) == Reached(side, marks, last) - before(side)
        start(side) == before(side) + (IF count(side) = 0 THEN 0 ELSE 1)
    IN  [oldStart |-> start("old"), oldLines |-> count("old"),
         newStart |-> start("new"), newLines |-> count("new"),
         body |-> FlattenSeq([i \in 1 .. last - first + 1 |-> Printed(script[first + i - 1])])]

(* The changed lines with `context` unchanged ones around them, in runs.   *)
HunksOf(script, context) ==
    LET kept == {i \in DOMAIN script :
                    \E k \in DOMAIN script :
                        script[k].mark # " " /\ i - k \in -context .. context}
        firsts == {i \in kept : i - 1 \notin kept}
        lastOf(i) == CHOOSE k \in kept : k >= i /\ k + 1 \notin kept /\ i .. k \subseteq kept
    IN  [h \in 1 .. Cardinality(firsts) |->
            LET first == CHOOSE i \in firsts : Cardinality({k \in firsts : k <= i}) = h
            IN  HunkAt(script, first, lastOf(first))]

(* The patch of one file.  The header has both paths in one string, which  *)
(* is why paths are sequences; the other headers depend on the change.     *)
Section(change, hunks) ==
    LET left == IF change.original = NoPath THEN change.current ELSE change.original
        right == IF change.current = NoPath THEN change.original ELSE change.current
        moved == change.status \in {"renamed", "copied"}
    IN  [header |-> left \o right,
         from |-> IF moved THEN change.original ELSE Missing,
         to |-> IF moved THEN change.current ELSE Missing,
         copy |-> change.status = "copied",
         newFile |-> change.status = "added",
         deletedFile |-> change.status = "deleted",
         oldMarker |-> IF hunks = <<>> THEN Missing ELSE change.original,
         newMarker |-> IF hunks = <<>> THEN Missing ELSE change.current,
         binary |-> ~change.isText,
         hunks |-> hunks]

Stored(content) == IF content = NoContent THEN <<>> ELSE content

(* The sections jj may print for a change, with the contexts in use.       *)
Sections(change, contexts) ==
    IF change.isText
    THEN {Section(change, HunksOf(s, c)) :
             s \in Scripts(Stored(change.old), Stored(change.new)), c \in contexts}
    ELSE {Section(change, <<>>)}

(* jj's own list of the changed files, read next to the patch.             *)
Listed(change) ==
    [status |-> change.status, original |-> change.original, current |-> change.current]

-----------------------------------------------------------------------------
(* parseHunk, line by line: a marker belongs to the line before it, any    *)
(* other line takes its numbers and advances the sides it is on.           *)
Numbered(state, e) ==
    [mark |-> e.mark, text |-> e.text, cut |-> FALSE,
     old |-> IF e.mark \in Marks("old") THEN state.old ELSE 0,
     new |-> IF e.mark \in Marks("new") THEN state.new ELSE 0]

(* Mutation: a context line does not advance the old side.                 *)
ReadLine_ContextIsNew(state, e) ==
    IF e.mark = "\\"
    THEN [state EXCEPT !.lines[Len(state.lines)].cut = TRUE]
    ELSE [lines |-> Append(state.lines, Numbered(state, e)),
          old |-> state.old + (IF e.mark = "-" THEN 1 ELSE 0),
          new |-> state.new + (IF e.mark \in Marks("new") THEN 1 ELSE 0)]

ReadLine(state, e) ==
    IF e.mark = "\\"
    THEN [state EXCEPT !.lines[Len(state.lines)].cut = TRUE]
    ELSE [lines |-> Append(state.lines, Numbered(state, e)),
          old |-> state.old + (IF e.mark \in Marks("old") THEN 1 ELSE 0),
          new |-> state.new + (IF e.mark \in Marks("new") THEN 1 ELSE 0)]

ReadHunk(printed) ==
    LET read[i \in 0 .. Len(printed.body)] ==
            IF i = 0 THEN [lines |-> <<>>, old |-> printed.oldStart, new |-> printed.newStart]
            ELSE ReadLine(read[i - 1], printed.body[i])
    IN  read[Len(printed.body)]

(* The hunk is refused unless its lines are as many as its header says,    *)
(* and numbered from one.                                                  *)
HunkAccepted(printed) ==
    LET read == ReadHunk(printed)
    IN  /\ \A i \in DOMAIN printed.body :
              printed.body[i].mark = "\\" => i > 1 /\ printed.body[i - 1].mark # "\\"
        /\ read.old - printed.oldStart = printed.oldLines
        /\ read.new - printed.newStart = printed.newLines
        /\ \A i \in DOMAIN read.lines : \A side \in Side :
              read.lines[i].mark \in Marks(side) => read.lines[i][side] >= 1

(* resolveStatus.                                                          *)
Status(s) ==
    IF s.copy THEN "copied"
    ELSE IF s.from # Missing THEN "renamed"
    ELSE IF s.newFile \/ s.oldMarker = NoPath THEN "added"
    ELSE IF s.deletedFile \/ s.newMarker = NoPath THEN "deleted"
    ELSE "modified"

(* validateMetadata.                                                       *)
MetadataAccepted(s) ==
    /\ (s.from = Missing) = (s.to = Missing)
    /\ Cardinality({k \in {"new", "deleted", "moved"} :
                      \/ k = "new" /\ s.newFile
                      \/ k = "deleted" /\ s.deletedFile
                      \/ k = "moved" /\ s.from # Missing}) <= 1
    /\ (s.oldMarker = Missing) = (s.newMarker = Missing)
    /\ s.newFile => s.oldMarker \in {Missing, NoPath}
    /\ s.deletedFile => s.newMarker \in {Missing, NoPath}
    /\ s.binary => s.hunks = <<>>

(* parseDiffHeader: an unquoted header can be cut at every delimiter.      *)
HeaderPairs(s) ==
    {<<SubSeq(s.header, 1, k), SubSeq(s.header, k + 1, Len(s.header))>> :
        k \in 1 .. Len(s.header) - 1}

(* decodeUnquotedPath asserts both paths of each cut, also of those that   *)
(* are not the right one, and throws.                                      *)
HeaderAccepted(s) == \A pair \in HeaderPairs(s) : {pair[1], pair[2]} \cap Malformed = {}

(* Mutation: the header is cut at its first delimiter.                     *)
PathPairs_First(s, listed) == {<<SubSeq(s.header, 1, 1), Tail(s.header)>>}

(* resolvePaths: the cuts that agree with every path known from elsewhere; *)
(* if nothing is known from the patch, those with equal paths first.       *)
PathPairs(s, listed) ==
    LET expect(moved, marker) == IF moved # Missing THEN moved
                                 ELSE IF marker = NoPath THEN Missing ELSE marker
        old == expect(s.from, s.oldMarker)
        new == expect(s.to, s.newMarker)
        agree == {p \in HeaderPairs(s) :
                     /\ old \in {Missing, p[1]}
                     /\ new \in {Missing, p[2]}
                     /\ listed.original \in {NoPath, p[1]}
                     /\ listed.current \in {NoPath, p[2]}}
        same == {p \in agree : p[1] = p[2]}
    IN  IF Cardinality(agree) > 1 /\ old = Missing /\ new = Missing /\ same # {}
        THEN same ELSE agree

(* parseGitPatch accepts the section, next to what jj listed.              *)
Accepted(s, listed) ==
    /\ HeaderAccepted(s)
    /\ \A i \in DOMAIN s.hunks : HunkAccepted(s.hunks[i])
    /\ s.hunks # <<>> => s.oldMarker # Missing /\ s.newMarker # Missing
    /\ MetadataAccepted(s)
    /\ Status(s) = listed.status
    /\ \/ Cardinality(PathPairs(s, listed)) = 1
       \/ PathPairs(s, listed) # {} /\ (s.binary \/ s.hunks = <<>>)

(* The paths it reports: of an ambiguous header those jj listed.           *)
PathsOf(s, listed) ==
    LET pairs == PathPairs(s, listed)
        pair == IF Cardinality(pairs) = 1 THEN CHOOSE p \in pairs : TRUE
                ELSE <<listed.original, listed.current>>
    IN  [original |-> IF Status(s) = "added" THEN NoPath ELSE pair[1],
         current |-> IF Status(s) = "deleted" THEN NoPath ELSE pair[2]]

(* prepareSnapshot and buildFileManifest: the entry of a file, with the    *)
(* contents read at the two commits.  A deleted file has an empty new      *)
(* content, and only text has hunks and contents.                          *)
Entry(s, listed, old, new) ==
    LET paths == PathsOf(s, listed)
    IN  [status |-> Status(s),
         original |-> paths.original,
         current |-> paths.current,
         isText |-> ~s.binary,
         old |-> IF s.binary \/ paths.original = NoPath THEN NoContent ELSE old,
         new |-> IF s.binary THEN NoContent
                 ELSE IF paths.current = NoPath THEN <<>> ELSE new,
         hunks |-> IF s.binary THEN <<>>
                   ELSE [i \in DOMAIN s.hunks |-> ReadHunk(s.hunks[i]).lines]]
=============================================================================
