--------------------------- MODULE MCCommentAnchors ---------------------------
(***************************************************************************)
(* CommentAnchors for TLC: one file with all short contents, and a second  *)
(* one for renames, copies and files that follow each other at a path.     *)
(***************************************************************************)
EXTENDS CommentAnchors

CONSTANTS p, q, dir, x, y

OneWord(w) == [text |-> <<w>>, cut |-> FALSE]
Lined(words) == [i \in DOMAIN words |-> OneWord(words[i])]
Crlf(words) == [i \in DOMAIN words |-> [text |-> <<words[i], Blank>>, cut |-> FALSE]]
Cut(content) == [content EXCEPT ![Len(content)].cut = TRUE]

Change(status, original, current, old, new) ==
    [status |-> status, original |-> original, current |-> current,
     old |-> old, new |-> new, isText |-> TRUE]

P == <<p>>
Q == <<q>>
PQ == <<p, q>>     \* a path with " b/" in it
InB == <<dir, p>>  \* a file in a directory named " b"
Refused == {<<dir>>}

A == Lined(<<x, y>>)
B == Lined(<<x, x>>)

Same == Lined(<<x, x, x>>)    \* every line looks like the next

Short == UNION {[1 .. n -> {x, y}] : n \in 0 .. 2}

Edits ==
    {{Change("modified", P, P, A, n)} : n \in {Lined(w) : w \in Short} \ {A}}
      \cup {{Change("modified", P, P, o, n)} :
              o \in {Cut(A), Same}, n \in {A, Cut(B)}}
      \cup {{Change("modified", P, P, Lined(<<x>>), n)} : n \in {B, Same}}

Moves ==
    { {Change("modified", P, P, A, B)},
      {Change("deleted", P, NoPath, A, NoContent)},
      {Change("renamed", P, Q, A, A)},
      {Change("renamed", P, Q, A, B)},
      {Change("renamed", P, Q, A, B), Change("added", NoPath, P, NoContent, A)},
      {Change("modified", P, P, A, B), Change("added", NoPath, Q, NoContent, B)},
      {Change("copied", P, Q, A, B)},
      {Change("added", NoPath, P, NoContent, A)},
      {[Change("modified", P, P, NoContent, NoContent) EXCEPT !.isText = FALSE]},
      {Change("modified", PQ, PQ, A, B)},
      {Change("renamed", PQ, P, A, B)},
      {Change("modified", InB, InB, A, B)},
      {[Change("modified", PQ, PQ, NoContent, NoContent) EXCEPT !.isText = FALSE]} }

(* With CRLF, from LF to CRLF, and with a carriage return within a line.   *)
Returns ==
    {{Change("modified", P, P, o, n)} :
        o \in {Crlf(<<x, y>>), A},
        n \in {Crlf(<<x, x>>), Cut(Crlf(<<x, y>>)),
               <<OneWord(x), [text |-> <<x, y>>, cut |-> FALSE], OneWord(y)>>}}

SomeTrees == Edits \cup Moves \cup Returns
=============================================================================
