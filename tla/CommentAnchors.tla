---------------------------- MODULE CommentAnchors ----------------------------
(***************************************************************************)
(* One comment thread over the snapshots of a review: where createThread   *)
(* anchors it, what a refresh makes of it (findProjection), and in which   *)
(* documents the editor shows it (commentPlacements).                      *)
(*                                                                         *)
(* A refresh reads a new set of changes.  A thread is current when its     *)
(* anchor is found in them, outdated otherwise, and looked for again at    *)
(* the next refresh.  All views of a snapshot are treated alike, so there  *)
(* is one; the fingerprints of an anchor are hashes of what it stores.     *)
(***************************************************************************)
EXTENDS GitPatch

CONSTANTS Trees,       \* the sets of changes a refresh can find
          Contexts,    \* the numbers of context lines jj prints hunks with
          Around,      \* stored lines before and after a target; 5 in the code
          Word, Part,  \* what texts and paths are made of
          NoThread, NoProjection, Unreadable

Content == Seq([text : Seq(Word), cut : BOOLEAN])

ASSUME AnchorsAssumption ==
    /\ Around \in Nat /\ Contexts \subseteq Nat
    /\ Blank \in Word
    /\ \A t \in Trees : \A c \in t : \A side \in Side : c[side] \in {NoContent} \cup Content

PathOn(side, e) == IF side = "old" THEN e.original ELSE e.current

(* A file as jj lists it: its status says which paths it has, and a text   *)
(* has a content where it has a path.                                      *)
IsChange(c) ==
    /\ c.status \in {"added", "deleted", "modified", "renamed", "copied"}
    /\ (c.original = NoPath) = (c.status = "added")
    /\ (c.current = NoPath) = (c.status = "deleted")
    /\ c.status = "modified" => c.original = c.current
    /\ c.isText \in BOOLEAN
    /\ \A side \in Side :
          LET path == PathOn(side, c) IN
          IF path = NoPath THEN c.isText => c[side] = NoContent
          ELSE /\ path \in Seq(Part) \ {<<>>}
               /\ path # Missing
               /\ c.isText => c[side] \in Content /\ c[side] # NoContent

ASSUME TreesAssumption ==
    /\ Missing # NoPath
    /\ \A t \in Trees :
          /\ IsFiniteSet(t)
          /\ \A c \in t : IsChange(c)
          /\ \A c, d \in t : c # d => c.original # d.original \/ c.current # d.current

VARIABLES tree,        \* the changes the last refresh was to capture
          manifest,    \* the entries of the current snapshot
          thread       \* the thread, [anchor, projection]

vars == <<tree, manifest, thread>>

NotFound == 0

OneOf(p, q) == IF p # NoPath THEN p ELSE q
IsSingle(S) == \E x \in S : S = {x}

-----------------------------------------------------------------------------
(* buildAnchor.                                                            *)

(* The places of a line in the hunks of a file: <<hunk, index>>.           *)
Places(e, side, line) ==
    {p \in UNION {{<<h, i>> : i \in DOMAIN e.hunks[h]} : h \in DOMAIN e.hunks} :
        /\ e.hunks[p[1]][p[2]].mark \in Marks(side)
        /\ e.hunks[p[1]][p[2]][side] = line}

FileAnchor(e) ==
    [kind |-> "file", side |-> "new", original |-> e.original, current |-> e.current,
     line |-> 0]

HunkAnchor(e, line) ==
    LET place == CHOOSE p \in Places(e, "new", line) : TRUE
        hunk == e.hunks[place[1]]
    IN  [kind |-> "hunk", side |-> "new", original |-> e.original, current |-> e.current,
         line |-> line, text |-> hunk[place[2]].text, hunk |-> hunk]

(* Mutation: the first of the stored lines is taken for the target.        *)
DocumentAnchor_FirstLine(e, side, line) ==
    LET lines == DocumentLines(e[side])
        first == IF line - Around < 1 THEN 1 ELSE line - Around
        last == IF line + Around > Len(lines) THEN Len(lines) ELSE line + Around
    IN  [kind |-> "document", side |-> side, original |-> e.original, current |-> e.current,
         line |-> line, text |-> lines[first], around |-> SubSeq(lines, first, last),
         index |-> line - first + 1, document |-> e[side]]

DocumentAnchor(e, side, line) ==
    LET lines == DocumentLines(e[side])
        first == IF line - Around < 1 THEN 1 ELSE line - Around
        last == IF line + Around > Len(lines) THEN Len(lines) ELSE line + Around
    IN  [kind |-> "document", side |-> side, original |-> e.original, current |-> e.current,
         line |-> line, text |-> lines[line], around |-> SubSeq(lines, first, last),
         index |-> line - first + 1, document |-> e[side]]

(* A new-side line of a hunk is anchored in the hunk, any other line in    *)
(* the document.                                                           *)
LineAnchor(e, side, line) ==
    IF side = "new" /\ IsSingle(Places(e, side, line))
    THEN HunkAnchor(e, line)
    ELSE DocumentAnchor(e, side, line)

-----------------------------------------------------------------------------
(* findProjection.                                                         *)

SameHunk(left, right) ==
    /\ DOMAIN left = DOMAIN right
    /\ \A i \in DOMAIN left : \A f \in {"mark", "text", "cut"} : left[i][f] = right[i][f]

(* Mutation: of several equal hunks the first is taken.                    *)
HunkLine_First(anchor, e) ==
    LET targets == {i \in DOMAIN anchor.hunk :
                       /\ anchor.hunk[i].mark \in Marks(anchor.side)
                       /\ anchor.hunk[i][anchor.side] = anchor.line
                       /\ anchor.hunk[i].text = anchor.text}
        equal == {h \in DOMAIN e.hunks : SameHunk(anchor.hunk, e.hunks[h])}
    IN  IF IsSingle(targets) /\ equal # {}
        THEN e.hunks[CHOOSE h \in equal : \A k \in equal : h <= k]
               [CHOOSE i \in targets : TRUE][anchor.side]
        ELSE NotFound

(* findExactHunkLine: the stored hunk has the target once, the file has    *)
(* the stored hunk once.                                                   *)
HunkLine(anchor, e) ==
    LET targets == {i \in DOMAIN anchor.hunk :
                       /\ anchor.hunk[i].mark \in Marks(anchor.side)
                       /\ anchor.hunk[i][anchor.side] = anchor.line
                       /\ anchor.hunk[i].text = anchor.text}
        equal == {h \in DOMAIN e.hunks : SameHunk(anchor.hunk, e.hunks[h])}
    IN  IF IsSingle(targets) /\ IsSingle(equal)
        THEN e.hunks[CHOOSE h \in equal : TRUE][CHOOSE i \in targets : TRUE][anchor.side]
        ELSE NotFound

(* The places where the stored lines are found in a document, as the line  *)
(* of the target.                                                          *)
Fits(anchor, lines) ==
    {start + anchor.index : start \in
        {s \in 0 .. Len(lines) - Len(anchor.around) :
            \A i \in DOMAIN anchor.around : anchor.around[i] = lines[s + i]}}

(* Mutation: an unchanged document is searched like any other.             *)
DocumentLine_AlwaysSearched(anchor, e) ==
    LET fits == Fits(anchor, DocumentLines(e[anchor.side]))
    IN  IF IsSingle(fits) THEN CHOOSE l \in fits : TRUE ELSE NotFound

(* findExactFullFileLine: the line itself while the document is the one it *)
(* was anchored in, else the only place where its surroundings fit.        *)
DocumentLine(anchor, e) ==
    LET fits == Fits(anchor, DocumentLines(e[anchor.side]))
    IN  IF e[anchor.side] = anchor.document THEN anchor.line
        ELSE IF IsSingle(fits) THEN CHOOSE l \in fits : TRUE
        ELSE NotFound

Line(anchor, e) ==
    IF ~e.isText \/ PathOn(anchor.side, e) = NoPath \/ e[anchor.side] = NoContent
    THEN NotFound
    ELSE IF anchor.kind = "hunk" THEN HunkLine(anchor, e) ELSE DocumentLine(anchor, e)

(* anchorPaths: where the thread was last shown counts too.                *)
AnchorPaths(t) ==
    ({t.anchor.original, t.anchor.current}
       \cup IF t.projection = NoProjection THEN {} ELSE {t.projection.path}) \ {NoPath}

Bearers(entries, paths) ==
    {e \in entries : {e.original, e.current} \cap paths # {}}

(* Where a thread is shown in a file, given its path there.                *)
Shown(anchor, e, line) ==
    IF anchor.kind = "file"
    THEN [path |-> OneOf(e.current, e.original), side |-> "new", line |-> 0]
    ELSE [path |-> PathOn(anchor.side, e), side |-> anchor.side, line |-> line]

Projection(t, entries) ==
    LET bearers == Bearers(entries, AnchorPaths(t))
        e == CHOOSE f \in bearers : TRUE
    IN  IF ~IsSingle(bearers) THEN NoProjection
        ELSE IF t.anchor.kind = "file" THEN Shown(t.anchor, e, 0)
        ELSE IF Line(t.anchor, e) = NotFound THEN NoProjection
        ELSE Shown(t.anchor, e, Line(t.anchor, e))

-----------------------------------------------------------------------------
(* The documents of the native diff: both sides of every file, named by a  *)
(* path, that of the other side where a file has none.                     *)
Documents(entries) ==
    {[file |-> e, side |-> side,
      path |-> IF side = "old" THEN OneOf(e.original, e.current)
               ELSE OneOf(e.current, e.original)] : e \in entries, side \in Side}

(* resolveCommentDocument: where a new comment can be written.             *)
Commentable(d) ==
    /\ d.file.isText
    /\ d.path = PathOn(d.side, d.file)
    /\ d.file[d.side] # NoContent

(* commentPlacements, for a current thread.                                *)
Placements(t, entries) ==
    {d \in Documents(entries) :
        /\ t.projection # NoProjection
        /\ d.side = t.projection.side
        /\ d.path = t.projection.path
        /\ t.projection.path \in {d.file.original, d.file.current}}

-----------------------------------------------------------------------------
(* preflightSnapshot and prepareSnapshot: what may be read of each set of  *)
(* changes, a manifest or nothing when a patch is not accepted.            *)
Manifest(printed) ==
    {Entry(printed[c], Listed(c), c.old, c.new) : c \in DOMAIN printed}

Reading(printed) ==
    IF \A c \in DOMAIN printed : Accepted(printed[c], Listed(c))
    THEN Manifest(printed) ELSE Unreadable

Patches ==
    LET prints == [c \in UNION Trees |-> Sections(c, Contexts)]
    IN  [t \in Trees |->
            {f \in [t -> UNION {prints[c] : c \in t}] : \A c \in t : f[c] \in prints[c]}]

Readings == [t \in Trees |-> {Reading(printed) : printed \in Patches[t]}]

ASSUME UnreadableAssumption ==
    \A t \in Trees : \A printed \in Patches[t] : Manifest(printed) # Unreadable

Init ==
    /\ tree \in Trees
    /\ manifest \in Readings[tree] \ {Unreadable}
    /\ thread = NoThread

(* createThread, on a line of a document or on a file.                     *)
Comment ==
    /\ thread = NoThread
    /\ \E d \in Documents(manifest) :
          /\ Commentable(d)
          /\ \E line \in DOMAIN DocumentLines(d.file[d.side]) :
                LET anchor == LineAnchor(d.file, d.side, line)
                IN  thread' = [anchor |-> anchor, projection |-> Shown(anchor, d.file, line)]
    /\ UNCHANGED <<tree, manifest>>

CommentOnFile ==
    /\ thread = NoThread
    /\ \E e \in manifest :
          thread' = [anchor |-> FileAnchor(e), projection |-> Shown(FileAnchor(e), e, 0)]
    /\ UNCHANGED <<tree, manifest>>

(* refreshActive: new commits, perhaps with the same changes; a patch that *)
(* is not accepted leaves the review as it was.                            *)
Refresh ==
    \E t \in Trees : \E reading \in Readings[t] :
        /\ tree' = t
        /\ IF reading = Unreadable
           THEN UNCHANGED <<manifest, thread>>
           ELSE /\ manifest' = reading
                /\ thread' = IF thread = NoThread THEN NoThread
                             ELSE [thread EXCEPT !.projection = Projection(thread, reading)]

Next == Comment \/ CommentOnFile \/ Refresh

Spec == Init /\ [][Next]_vars

-----------------------------------------------------------------------------
(* Properties.                                                             *)

(* The lines of one side of a change that no hunk of the entry has.        *)
Unprinted(c, e, side) ==
    LET numbers == {l[side] : l \in UNION {Range(h) : h \in Range(e.hunks)}}
        lines == Stored(c[side])
    IN  [i \in 1 .. Len(lines) - Cardinality(numbers \cap DOMAIN lines) |->
            lines[CHOOSE k \in DOMAIN lines \ numbers :
                     Cardinality((1 .. k) \ numbers) = i]]

Describes(e, c) ==
    /\ \A f \in {"status", "original", "current", "isText"} : e[f] = c[f]
    /\ c.isText =>
          /\ \A side \in Side : PathOn(side, c) # NoPath => e[side] = c[side]
          /\ \A h \in DOMAIN e.hunks, side \in Side : \A i \in DOMAIN e.hunks[h] :
                LET l == e.hunks[h][i]
                IN  l.mark \in Marks(side) =>
                       /\ l[side] \in DOMAIN c[side]
                       /\ c[side][l[side]] = [text |-> l.text, cut |-> l.cut]
          /\ Unprinted(c, e, "old") = Unprinted(c, e, "new")

(* No cut of the change's header has a path that is refused.               *)
Legible(c) == HeaderAccepted(Section(c, <<>>))

(* What the parser reads back from jj's patches is what changed: status    *)
(* and paths, however ambiguous the header; each hunk line under its       *)
(* numbers in both contents, with its missing newline; and what no hunk    *)
(* shows is the same on both sides.  Every patch is accepted but for one   *)
(* whose header has a cut with a malformed path.                           *)
ManifestIsTrue ==
    (\A c \in tree : Legible(c)) =>
        /\ Cardinality(manifest) = Cardinality(tree)
        /\ \A c \in tree : \E e \in manifest : Describes(e, c)

(* The document lines of a side that can be shown.                         *)
Lines(e, side) == DocumentLines(e[side])

(* Up to a line of Git's, the editor has one line for each.                *)
UnbrokenTo(content, line) ==
    \A i \in DOMAIN content : i <= line => Len(Broken(content[i])) = 1

(* The text is that of the line in the editor, or has the carriage return  *)
(* of its line end too.                                                    *)
ReadsAs(text, line) == text \in {line, line \o <<Blank>>}

(* The line is in a hunk equal to the stored one, and no other hunk is,    *)
(* unless the line is still where it was written.                          *)
HunkShows(a, hunks, line) ==
    \E h \in DOMAIN hunks :
        /\ SameHunk(a.hunk, hunks[h])
        /\ line \in {l[a.side] : l \in Range(hunks[h])}
        /\ line = a.line \/ \A k \in DOMAIN hunks \ {h} : ~SameHunk(a.hunk, hunks[k])

(* README: "A thread remains inline only when its complete target and      *)
(* context map exactly and uniquely to the refreshed diff."  A current     *)
(* thread is shown where its text is, in a file that bears its path; the   *)
(* hunk it was written in is there once, or the lines around it fit there, *)
(* and nowhere else unless the document is the one it was written in.  A   *)
(* hunk numbers lines as Git does: above a carriage return within a line.  *)
CurrentMeansExact ==
    thread # NoThread /\ thread.projection # NoProjection =>
        \E d \in Placements(thread, manifest) :
            LET a == thread.anchor
                line == thread.projection.line
                lines == Lines(d.file, d.side)
            IN  \/ a.kind = "file"
                \/ /\ a.kind = "hunk"
                   /\ HunkShows(a, d.file.hunks, line)
                   /\ UnbrokenTo(d.file[d.side], line) =>
                         line \in DOMAIN lines /\ ReadsAs(a.text, lines[line])
                \/ /\ a.kind = "document"
                   /\ line \in DOMAIN lines /\ lines[line] = a.text
                   /\ \/ d.file[d.side] = a.document /\ line = a.line
                      \/ Fits(a, lines) = {line}

(* The files a thread is looked for in.                                    *)
Candidates(t, entries) == Bearers(entries, {t.anchor.original, t.anchor.current} \ {NoPath})

(* A refresh that leaves the file of a current thread as it is, and brings *)
(* no other file of its paths, leaves the thread where it is: also when    *)
(* its lines occur in several places of the file.  A hunk that occurs      *)
(* twice is the exception.                                                 *)
UnchangedFileKeepsThread ==
    [][\A e \in manifest \cap manifest' :
           /\ thread # NoThread /\ thread' # NoThread
           /\ thread.projection # NoProjection
           /\ Bearers(manifest, AnchorPaths(thread)) = {e}
           /\ Bearers(manifest', AnchorPaths(thread)) = {e}
           /\ thread.anchor.kind = "hunk" =>
                 IsSingle({h \in DOMAIN e.hunks : SameHunk(thread.anchor.hunk, e.hunks[h])})
           => thread'.projection = thread.projection]_vars

(* A new line thread is anchored in the text its author sees at the line   *)
(* he chose, up to the carriage return of the line end.  A hunk has the    *)
(* line under Git's number: it is the same above a carriage return within  *)
(* a line.                                                                 *)
AnchorsWhatIsShown ==
    [][thread = NoThread /\ thread' # NoThread /\ thread'.anchor.kind # "file" =>
           \E e \in manifest :
               LET a == thread'.anchor
                   shown == Lines(e, a.side)[a.line]
               IN  /\ e.original = a.original /\ e.current = a.current
                   /\ IF a.kind = "document" THEN a.text = shown
                      ELSE UnbrokenTo(e[a.side], a.line) => ReadsAs(a.text, shown)]_vars

(* Refuted.  The text is the one its author sees, in any file: in one with *)
(* CRLF that of a hunk's line ends in a carriage return, and below a       *)
(* carriage return within a line it is another line's.                     *)
AnchorsExactlyWhatIsShown ==
    [][thread = NoThread /\ thread' # NoThread /\ thread'.anchor.kind # "file" =>
           \E e \in manifest :
               /\ e.original = thread'.anchor.original /\ e.current = thread'.anchor.current
               /\ Lines(e, thread'.anchor.side)[thread'.anchor.line] = thread'.anchor.text]_vars

(* Refuted.  Every patch is accepted: one of a file in a directory " b" is *)
(* not, as cutting its header there leaves a path that ends in a slash.    *)
EveryPatchIsAccepted == \A c \in tree : \E e \in manifest : Describes(e, c)

(* Refuted.  A thread is shown in one document,                            *)
ShownOnce ==
    thread # NoThread => Cardinality(Placements(thread, manifest)) <= 1

(* and where a thread is shown depends on its anchor and the files of its  *)
(* paths, not on where it was shown before.                                *)
HistoryDoesNotMatter ==
    [][/\ thread # NoThread /\ thread' # NoThread
       /\ Candidates(thread, manifest) = Candidates(thread, manifest')
       /\ thread.projection = NoProjection
       => thread'.projection = NoProjection]_vars
=============================================================================
