------------------------------ MODULE MCSearch ------------------------------
(***************************************************************************)
(* A small index for Search: video "a" has two scenes, "b" is audio only   *)
(* and "p" is a document.  Segment 1 of "a" crosses the cut, segment 2     *)
(* lies past the end of the last scene, segment 4 is a moment on the cut.  *)
(***************************************************************************)
EXTENDS Evaluate

Span(asset, start, end) == [asset |-> asset, start |-> start, end |-> end]

MCScene == <<Span("a", 0, 4), Span("a", 4, 8)>>
MCSegment == <<Span("a", 2, 6), Span("a", 9, 10), Span("b", 0, 3), Span("a", 4, 4)>>
MCFrame == <<[scene |-> 1, at |-> 1], [scene |-> 2, at |-> 5]>>

\* A page, the transcript item of segment 1, and a frame with text.
MCItem == <<
  [asset |-> "p", scene |-> 0, frame |-> 0, start |-> 0, end |-> 0, text |-> "page"],
  [asset |-> "a", scene |-> 1, frame |-> 0, start |-> 2, end |-> 6, text |-> "speech"],
  [asset |-> "a", scene |-> 2, frame |-> 2, start |-> 5, end |-> 5, text |-> "screen"]>>

MCVecScores == {-1, 1}

\* An instant on the cut, and a part of the second scene.
MCRanges == {NoRange, <<4, 4>>, <<5, 6>>}
Unbounded == {NoRange}

\* A question about a moment of the video, or about a later one or the document.
MCGolds == {<<[assets |-> {"a"}, range |-> <<4, 4>>]>>,
            <<[assets |-> {"a"}, range |-> <<5, 6>>], [assets |-> {"p"}, range |-> NoRange]>>}
=============================================================================
