------------------------------- MODULE Search -------------------------------
(***************************************************************************)
(* The search handler: what a query's streams find, and how the answer is  *)
(* made of it in each mode (fts, vector, hybrid, hybrid_graph), up to the  *)
(* evidence the ask handler files.                                         *)
(*                                                                         *)
(* The index is constant.  A search asks each stream of its mode; a stream *)
(* answers with rows and their scores, best first, or with nothing when it *)
(* fails.  Which rows match is for SQLite and the embedding model to say,  *)
(* so the answers are arbitrary.  An id 0 stands for NULL.                 *)
(*                                                                         *)
(* A reciprocal rank contribution is a fraction; it is multiplied by Unit, *)
(* a common denominator.                                                   *)
(***************************************************************************)
EXTENDS Integers, FiniteSets, Sequences, SequencesExt, FiniteSetsExt

CONSTANTS Scene,     \* Scene[s]: [asset, start, end], in order of start
          Segment,   \* Segment[g]: [asset, start, end]
          Frame,     \* Frame[f]: [scene, at]
          Item,      \* Item[c]: [asset, scene, frame, start, end, text]; text is "page",
                     \* "speech", or "screen" for screen text and captions
          Modes,     \* the modes asked for
          FtsScores, \* bound: the scores -bm25 of a match
          VecScores, \* bound: the cosines of a match
          TopKs,     \* bound: the top_k asked for
          Ranges,    \* bound: the time ranges asked for, <<from, to>> or NoRange
          MaxRows,   \* bound: the rows a stream answers
          MaxFound,  \* bound: the rows all streams answer
          Unit       \* common denominator of the contributions

VARIABLES mode, topK, within,  \* the request; within is its time range
          asked,  \* how many streams have been asked
          pc,     \* "ask", "expand" or "done"
          found,  \* found[stream]: what the stream answered
          listed, \* the hits made of it, stream by stream
          base,   \* the answer without graph neighbours
          neighbours,  \* the items the graph answered
          hits    \* the answer

request == <<mode, topK, within>>
vars == <<request, asked, pc, found, listed, base, neighbours, hits>>

Streams == {"fts_transcript", "fts_scenes", "vec_frames", "vec_transcript",
            "vec_scenes", "content_items"}
RrfK == 60
NoRange == <<>>

ASSUME SearchAssumption ==
  /\ FtsScores \subseteq Nat \ {0} /\ VecScores \subseteq Int
  /\ TopKs \subseteq Nat \ {0}
  /\ Ranges \subseteq {NoRange} \cup {w \in Nat \X Nat : w[1] <= w[2]}
  /\ Modes \subseteq {"fts", "vector", "hybrid", "hybrid_graph"}
  /\ MaxRows \in Nat /\ Unit \in Nat \ {0}
  /\ \A n \in 1..MaxRows, top \in FtsScores \cup VecScores :
       top > 0 => Unit % (top * (RrfK + n)) = 0

Assets == STRING \ {""}

\* A frame always has its scene; the other references may be NULL.
ASSUME IndexAssumption ==
  LET Span == [asset : Assets, start : Nat, end : Nat]
  IN  /\ Scene \in Seq(Span)
      /\ Segment \in Seq(Span) /\ \A g \in DOMAIN Segment : Segment[g].start <= Segment[g].end
      /\ Frame \in Seq([scene : DOMAIN Scene, at : Nat])
      /\ Item \in Seq([asset : Assets, scene : DOMAIN Scene \cup {0},
                      frame : DOMAIN Frame \cup {0}, start : Nat, end : Nat,
                      text : {"page", "speech", "screen"}])

-----------------------------------------------------------------------------
(* What the streams answer.                                                *)

RowsOf(stream) ==
  CASE stream \in {"fts_transcript", "vec_transcript"} -> DOMAIN Segment
    [] stream \in {"fts_scenes", "vec_scenes"} -> DOMAIN Scene
    [] stream = "vec_frames" -> DOMAIN Frame
    [] stream = "content_items" -> DOMAIN Item

ScoresOf(stream) ==
  IF stream \in {"vec_frames", "vec_transcript", "vec_scenes"}
  THEN VecScores ELSE FtsScores

Overlaps(start, end, w) == w = NoRange \/ (end >= w[1] /\ start <= w[2])

\* A page has no times, which no range contains.
Passes(stream, row) ==
  CASE stream \in {"fts_transcript", "vec_transcript"} ->
         Overlaps(Segment[row].start, Segment[row].end, within)
    [] stream \in {"fts_scenes", "vec_scenes"} ->
         Overlaps(Scene[row].start, Scene[row].end, within)
    [] stream = "vec_frames" -> Overlaps(Frame[row].at, Frame[row].at, within)
    [] stream = "content_items" ->
         /\ Overlaps(Item[row].start, Item[row].end, within)
         /\ within # NoRange => Item[row].text # "page"

\* ORDER BY score DESC LIMIT: rows of the time range once each, best first.
Answers(stream) ==
  {a \in SeqOf([row : {row \in RowsOf(stream) : Passes(stream, row)},
               score : ScoresOf(stream)], MaxRows) :
     \A i, k \in DOMAIN a :
       i < k => a[i].row # a[k].row /\ a[i].score >= a[k].score}

\* The streams a mode asks: vec_scenes for vector only, never for fusion.
Asked(m) ==
  CASE m = "fts" -> {"fts_transcript", "fts_scenes", "content_items"}
    [] m = "vector" -> {"vec_frames", "vec_transcript", "vec_scenes"}
    [] OTHER -> Streams \ {"vec_scenes"}

\* In the order of handle_search.
StreamOrder == <<"fts_transcript", "fts_scenes", "vec_frames",
                 "vec_transcript", "vec_scenes", "content_items">>

-----------------------------------------------------------------------------
(* The hits of a stream.                                                   *)

ScenesOf(asset) == {s \in DOMAIN Scene : Scene[s].asset = asset}

\* scene_detect cuts a video without gaps from its start; only the one scene of a
\* video of unknown length is empty.
ASSUME ScenesTile ==
  \A s \in DOMAIN Scene :
    /\ Scene[s].start < Scene[s].end \/ Scene[s].start = 0
    /\ \A r \in ScenesOf(Scene[s].asset) : r < s => Scene[r].end <= Scene[s].start
    /\ \A t \in 0..Scene[s].end - 1 :
         \E r \in ScenesOf(Scene[s].asset) : Scene[r].start <= t /\ t < Scene[r].end

\* _assign_scene: the scene a segment starts in, or the last one before it.
AssignScene(asset, start) ==
  LET around == {s \in ScenesOf(asset) : Scene[s].start <= start /\ start < Scene[s].end}
      last == Max(ScenesOf(asset))
  IN  CASE around # {} -> Min(around)
        [] around = {} /\ ScenesOf(asset) # {} ->
             IF start >= Scene[last].start THEN last ELSE 0
        [] ScenesOf(asset) = {} -> 0

\* As below, with only the scenes that begin during the segment.
FaultAttributed(g) ==
  LET over == {s \in ScenesOf(Segment[g].asset) :
                 Scene[s].start > Segment[g].start /\ Scene[s].start < Segment[g].end}
  IN  IF over # {} THEN over
      ELSE {AssignScene(Segment[g].asset, Segment[g].start)}

\* _expand_over_scenes: the scenes a segment overlaps, or else its stored one.
Attributed(g) ==
  LET over == {s \in ScenesOf(Segment[g].asset) :
                 Scene[s].end > Segment[g].start /\ Scene[s].start < Segment[g].end}
  IN  IF over # {} THEN over
      ELSE {AssignScene(Segment[g].asset, Segment[g].start)}

\* The members of S in the order of R, a strict total order.
Ordered(S, R) ==
  [i \in 1..Cardinality(S) |->
     CHOOSE a \in S : Cardinality({b \in S : <<b, a>> \in R}) = i - 1]
InOrder(S) == Ordered(S, {p \in S \X S : p[1] < p[2]})

\* The members of S, the highest score first, and of equals the one of first place.
Outranks(score, place, a, b) ==
  \/ score[a] > score[b]
  \/ score[a] = score[b] /\ place[a] < place[b]
ByScore(S, score, place) == Ordered(S, {p \in S \X S : Outranks(score, place, p[1], p[2])})

\* The elements of seq at the places I.
Places(seq, I) == LET order == InOrder(I) IN [k \in DOMAIN order |-> seq[order[k]]]

First(k, seq) == SubSeq(seq, 1, Min({k, Len(seq)}))

Hit == [scene |-> 0, frame |-> 0, item |-> 0, asset |-> "", start |-> 0, end |-> 0,
        score |-> 0, rank |-> 0, source |-> "", snippet |-> ""]

SegmentHit(stream, row, scene) ==
  [Hit EXCEPT !.scene = scene, !.asset = Segment[row].asset, !.start = Segment[row].start,
              !.end = Segment[row].end, !.source = stream, !.snippet = "speech"]

\* A hit for each scene of each segment: the rows with the scenes of each.
Copies(a) == UNION {{i} \X Attributed(a[i].row) : i \in DOMAIN a}
Precedes(b, c) == b[1] < c[1] \/ (b[1] = c[1] /\ b[2] < c[2])
CopyOrder(a) ==
  Ordered(Copies(a), {p \in Copies(a) \X Copies(a) : Precedes(p[1], p[2])})

\* As below, with the rank a copy has in the stream that came of it.
FaultSegmentHits(stream, a) ==
  LET order == CopyOrder(a)
  IN  [n \in DOMAIN order |->
         [SegmentHit(stream, a[order[n][1]].row, order[n][2]) EXCEPT
            !.score = a[order[n][1]].score, !.rank = n - 1]]

\* A transcript stream: every copy of a segment keeps the segment's rank.
SegmentHits(stream, a) ==
  LET order == CopyOrder(a)
  IN  [n \in DOMAIN order |->
         [SegmentHit(stream, a[order[n][1]].row, order[n][2]) EXCEPT
            !.score = a[order[n][1]].score, !.rank = order[n][1] - 1]]

SceneHit(s, stream) ==
  [Hit EXCEPT !.scene = s, !.asset = Scene[s].asset, !.start = Scene[s].start,
              !.end = Scene[s].end, !.source = stream]

ItemHit(c) ==
  [Hit EXCEPT !.item = c, !.scene = Item[c].scene, !.frame = Item[c].frame,
              !.asset = Item[c].asset, !.start = Item[c].start, !.end = Item[c].end,
              !.source = "content_items", !.snippet = Item[c].text]

OtherHit(stream, row) ==
  CASE stream = "fts_scenes" -> [SceneHit(row, stream) EXCEPT !.snippet = "screen"]
    [] stream = "vec_scenes" -> [SceneHit(row, stream) EXCEPT !.snippet = "summary"]
    [] stream = "vec_frames" -> [SceneHit(Frame[row].scene, stream) EXCEPT !.frame = row]
    [] stream = "content_items" -> ItemHit(row)

HitsOf(stream, a) ==
  IF stream \in {"fts_transcript", "vec_transcript"}
  THEN SegmentHits(stream, a)
  ELSE [i \in DOMAIN a |-> [OtherHit(stream, a[i].row) EXCEPT !.score = a[i].score,
                                                              !.rank = i - 1]]

-----------------------------------------------------------------------------
(* hybrid: _rrf_fuse.                                                      *)

TopScore(stream) == Max({0} \cup {found[stream][i].score : i \in DOMAIN found[stream]})

\* 1 / (k + rank + 1), weighted when the best score of the stream is positive.
Contribution(h) ==
  LET top == TopScore(h.source)
  IN  IF top > 0
      THEN (Unit \div (top * (RrfK + h.rank + 1))) * Max({h.score, 0})
      ELSE Unit \div (RrfK + h.rank + 1)

Key(h) == IF h.scene # 0 THEN <<"scene", h.scene>> ELSE <<"item", h.item>>
Keys == {Key(listed[n]) : n \in DOMAIN listed}
At(key) == {n \in DOMAIN listed : Key(listed[n]) = key}

\* The sum of what the streams give.
Total(f) ==
  f["fts_transcript"] + f["fts_scenes"] + f["vec_frames"] + f["vec_transcript"]
    + f["vec_scenes"] + f["content_items"]

\* A key scores once per stream, with its first hit there.
FirstIn(stream, key) ==
  LET mine == {n \in At(key) : listed[n].source = stream}
  IN  IF mine = {} THEN 0 ELSE Contribution(listed[Min(mine)])
Fused(key) == Total([stream \in Streams |-> FirstIn(stream, key)])

\* The first of the hits that contribute most.
Best(ns) ==
  CHOOSE n \in ns :
    \A m \in ns : \/ Contribution(listed[n]) > Contribution(listed[m])
                  \/ Contribution(listed[n]) = Contribution(listed[m]) /\ n <= m

WithSnippet(key) == {n \in At(key) : listed[n].snippet # ""}

\* As below, with the label of the best hit on the snippet of another.
FaultRepresentative(key) ==
  IF WithSnippet(key) # {}
  THEN [listed[Best(WithSnippet(key))] EXCEPT !.source = listed[Best(At(key))].source]
  ELSE listed[Best(At(key))]

\* The best hit that has a snippet, or else the best hit.
Representative(key) ==
  listed[Best(IF WithSnippet(key) # {} THEN WithSnippet(key) ELSE At(key))]

FrameFor(key) ==
  LET framed == {n \in At(key) : listed[n].frame # 0}
  IN  IF framed = {} THEN 0 ELSE listed[Best(framed)].frame

SceneTimed(h) ==
  IF h.scene = 0 THEN h
  ELSE [h EXCEPT !.asset = Scene[h.scene].asset, !.start = Scene[h.scene].start,
                 !.end = Scene[h.scene].end]

Visual(h) == IF h.snippet = "" THEN [h EXCEPT !.snippet = "visual match"] ELSE h

\* The keys, the best first, and of equals the one that was listed first.
KeyOrder ==
  ByScore(Keys, [key \in Keys |-> Fused(key)], [key \in Keys |-> Min(At(key))])

HybridHit(key) ==
  Visual(SceneTimed([Representative(key) EXCEPT !.score = Fused(key),
                                                !.frame = FrameFor(key)]))

Hybrid == LET top == First(topK, KeyOrder) IN [i \in DOMAIN top |-> HybridHit(top[i])]

-----------------------------------------------------------------------------
(* fts and vector: one hit for a scene, by raw score.                      *)

\* The first of the hits that score highest.
Highest(ns) ==
  CHOOSE n \in ns :
    \A m \in ns : \/ listed[n].score > listed[m].score
                  \/ listed[n].score = listed[m].score /\ n <= m

\* A hit of fts_transcript is preferred: it has the times of the segment.
Chosen(ns) ==
  LET speech == {n \in ns : listed[n].source = "fts_transcript"}
  IN  Highest(IF speech # {} THEN speech ELSE ns)

\* One hit for a scene, the best first.
SceneStreams == {n \in DOMAIN listed : listed[n].source # "content_items"}
AtScene(s) == {n \in SceneStreams : listed[n].scene = s}
ListedScenes == {listed[n].scene : n \in SceneStreams}
SceneOrder ==
  ByScore(ListedScenes, [s \in ListedScenes |-> listed[Chosen(AtScene(s))].score],
                        [s \in ListedScenes |-> Min(AtScene(s))])

\* The best top_k; the hits without a scene come to nothing.
Flat ==
  LET first == First(topK, SceneOrder)
      top == Places(first, {i \in DOMAIN first : first[i] # 0})
  IN  [i \in DOMAIN top |-> listed[Chosen(AtScene(top[i]))]]

Vector == [i \in DOMAIN Flat |-> Visual(SceneTimed(Flat[i]))]

\* content_items is appended and sorted in by its scores, which are BM25 too.
Sorted ==
  LET both == Flat \o First(topK, Places(listed, DOMAIN listed \ SceneStreams))
      order == ByScore(DOMAIN both, [i \in DOMAIN both |-> both[i].score],
                                    [i \in DOMAIN both |-> i])
  IN  [i \in DOMAIN order |-> both[order[i]]]

\* As below, without the second cut.
FaultFts == Sorted

Fts == First(topK, Sorted)

-----------------------------------------------------------------------------
(* hybrid_graph: _with_graph_expansion.                                    *)

Identity(h) == <<h.asset, h.item, h.scene, h.frame>>
GraphQuota == Max({1, topK \div 4})

\* expand_search_hits: neighbours that are not in the answer, once each.
Fresh(rows) ==
  LET nodes == [i \in DOMAIN rows |-> [ItemHit(rows[i]) EXCEPT !.source = "graph"]]
      new == {i \in DOMAIN nodes :
                /\ \A h \in Range(base) : Identity(h) # Identity(nodes[i])
                /\ \A k \in 1..i - 1 : Identity(nodes[k]) # Identity(nodes[i])}
  IN  Places(nodes, new)

\* As below, with the neighbours behind all other hits.
FaultBlend(fresh) == First(topK, base \o fresh)

\* A quota of neighbours, and the hits they displace as far as there is room.
Blend(fresh) ==
  LET quota == Min({Len(fresh), GraphQuota})
  IN  First(topK, First(topK - quota, base) \o First(quota, fresh)
                  \o SubSeq(base, topK - quota + 1, Len(base)))

-----------------------------------------------------------------------------
(* The handler.                                                            *)

Init ==
  /\ mode \in Modes
  /\ topK \in TopKs
  /\ within \in Ranges
  /\ asked = 0
  /\ pc = "ask"
  /\ found = [stream \in Streams |-> <<>>]
  /\ listed = <<>>
  /\ base = <<>>
  /\ neighbours = <<>>
  /\ hits = <<>>

Found == Total([stream \in Streams |-> Len(found[stream])])

\* The next stream answers; one that is not asked, or fails, has no rows.
AskStream ==
  /\ pc = "ask" /\ asked < Len(StreamOrder)
  /\ LET stream == StreamOrder[asked + 1]
     IN  \E a \in (IF stream \in Asked(mode) THEN Answers(stream) ELSE {<<>>}) :
           /\ Found + Len(a) <= MaxFound
           /\ found' = [found EXCEPT ![stream] = a]
           /\ listed' = listed \o HitsOf(stream, a)
  /\ asked' = asked + 1
  /\ UNCHANGED <<request, pc, base, neighbours, hits>>

Answer(result) ==
  /\ pc = "ask" /\ asked = Len(StreamOrder)
  /\ base' = result
  /\ hits' = result
  /\ UNCHANGED <<request, asked, found, listed, neighbours>>

AnswerFts == mode = "fts" /\ Answer(Fts) /\ pc' = "done"
AnswerVector == mode = "vector" /\ Answer(Vector) /\ pc' = "done"
AnswerHybrid == mode = "hybrid" /\ Answer(Hybrid) /\ pc' = "done"
AnswerBeforeGraph == mode = "hybrid_graph" /\ Answer(Hybrid) /\ pc' = "expand"

\* The hits the graph has a node for.
Seeds == {h \in Range(base) : h.item # 0 \/ h.scene # 0}

\* The graph answers with an item for each edge from a hit, if it is enabled.
ExpandGraph ==
  /\ pc = "expand"
  /\ neighbours' \in
       IF Seeds = {} THEN {<<>>}
       ELSE SeqOf({c \in DOMAIN Item : Passes("content_items", c)}, topK)
  /\ hits' = LET fresh == Fresh(neighbours')
             IN  IF fresh = <<>> THEN base ELSE Blend(fresh)
  /\ pc' = "done"
  /\ UNCHANGED <<request, asked, found, listed, base>>

Next ==
  AskStream \/ AnswerFts \/ AnswerVector \/ AnswerHybrid \/ AnswerBeforeGraph \/ ExpandGraph

Spec == Init /\ [][Next]_vars

\* As below, for ranges that share more than an instant.
FaultShown(h, w) == w = NoRange \/ (h.end > w[1] /\ h.start < w[2])

\* The ask handler searches in hybrid mode and shows the hits whose times, by now
\* those of the scene, overlap the range asked for.
Shown(h, w) == Overlaps(h.start, h.end, w)
Evidence == Places(hits, {i \in DOMAIN hits : Shown(hits[i], within)})

\* It files a snippet by the stream of its hit.
SpeechFiled(h) == IF h.source \in {"fts_transcript", "vec_transcript"} THEN h.snippet ELSE ""
ScreenFiled(h) ==
  IF h.source \in {"fts_scenes", "vec_frames"} /\ h.snippet # "visual match"
  THEN h.snippet ELSE ""

-----------------------------------------------------------------------------
(* Properties.                                                             *)

Done == pc = "done"

\* The variables keep their types: an answer has at most top_k hits, each of an
\* asset, with scene, frame and item ids of the index.
SearchTypeOK ==
  /\ mode \in Modes /\ topK \in TopKs /\ within \in Ranges /\ asked \in 0..Len(StreamOrder)
  /\ pc \in {"ask", "expand", "done"}
  /\ \A h \in Range(hits) :
       /\ h.scene \in DOMAIN Scene \cup {0} /\ h.frame \in DOMAIN Frame \cup {0}
       /\ h.item \in DOMAIN Item \cup {0} /\ h.asset # ""
  /\ Len(hits) <= topK

\* The rows of a stream that speak for a key.
RowsFor(stream, key) ==
  {i \in DOMAIN found[stream] :
     LET row == found[stream][i].row
     IN  CASE stream \in {"fts_transcript", "vec_transcript"} ->
                key \in {IF s # 0 THEN <<"scene", s>> ELSE <<"item", 0>> : s \in Attributed(row)}
           [] stream = "content_items" ->
                key = IF Item[row].scene # 0 THEN <<"scene", Item[row].scene>> ELSE <<"item", row>>
           [] stream = "vec_frames" -> key = <<"scene", Frame[row].scene>>
           [] OTHER -> key = <<"scene", row>>}

\* What a stream's best row for a key is worth: its reciprocal rank among the
\* rows of the stream, times its score over the best score of the stream.
BestRow(stream, key) ==
  LET rows == found[stream]
      top == Max({0} \cup {rows[i].score : i \in DOMAIN rows})
      worth(i) == IF top = 0 THEN Unit \div (RrfK + i)
                  ELSE (Max({rows[i].score, 0}) * Unit) \div (top * (RrfK + i))
  IN  Max({0} \cup {worth(i) : i \in RowsFor(stream, key)})

Deserved(key) == Total([stream \in Streams |-> BestRow(stream, key)])

FoundKeys ==
  {key \in ({"scene"} \X DOMAIN Scene) \cup ({"item"} \X (DOMAIN Item \cup {0})) :
     \E stream \in Streams : RowsFor(stream, key) # {}}

\* A found segment is of an asset that has no scenes.
SceneLess ==
  \E stream \in {"fts_transcript", "vec_transcript"} : \E i \in DOMAIN found[stream] :
    ScenesOf(Segment[found[stream][i].row].asset) = {}

\* What fts and vector answer of: a scene by the scores of its speech, if a text
\* search found some, or else of all its rows; an item by its own.
SceneScores(streams, s) ==
  UNION {{found[stream][i].score : i \in RowsFor(stream, <<"scene", s>>)} : stream \in streams}
RawScores(entry) ==
  IF entry[1] = "item"
  THEN LET rows == found["content_items"]
       IN  {rows[i].score : i \in {i \in DOMAIN rows : rows[i].row = entry[2]}}
  ELSE LET speech == SceneScores({"fts_transcript"}, entry[2])
       IN  IF speech # {} THEN speech ELSE SceneScores(Streams \ {"content_items"}, entry[2])

\* What an answer has to choose from, what each is worth, and which one a hit is.
Fuses == mode \in {"hybrid", "hybrid_graph"}
Offered ==
  IF Fuses THEN FoundKeys
  ELSE {entry \in ({"scene"} \X DOMAIN Scene) \cup ({"item"} \X DOMAIN Item) : RawScores(entry) # {}}
Value(entry) == IF Fuses THEN Deserved(entry) ELSE Max(RawScores(entry))
Entry(h) == IF ~Fuses /\ h.source = "content_items" THEN <<"item", h.item>> ELSE Key(h)

\* An answer is the best of what was found, best first, each entry once, whatever is
\* cut, merged and cut again on the way.  In hybrid a scene, or an item without a scene,
\* is worth the sum over the streams of the best row of each, though a segment comes
\* back once for every scene it overlaps, and an item of a scene beside the row it is a
\* projection of (_rrf_fuse, _expand_over_scenes); in fts and vector the raw score,
\* except that speech of an asset without scenes takes a place (handle_search).
BestMatchesAnswered ==
  Done /\ (Fuses \/ ~SceneLess) =>
    /\ Len(base) = Min({topK, Cardinality(Offered)})
    /\ \A i \in DOMAIN base :
         Entry(base[i]) \in Offered /\ base[i].score = Value(Entry(base[i]))
    /\ \A i, k \in DOMAIN base :
         i < k => Entry(base[i]) # Entry(base[k]) /\ base[i].score >= base[k].score
    /\ \A entry \in Offered \ {Entry(base[i]) : i \in DOMAIN base} :
         \A i \in DOMAIN base : base[i].score >= Value(entry)

\* What was said is never filed as on-screen text nor the reverse, and a hybrid
\* hit shows text whenever any stream had some for its scene (_rrf_fuse and
\* _hit_to_evidence, which goes by source_stream alone).
EvidenceFiled ==
  Done =>
    \A h \in Range(hits) :
      /\ SpeechFiled(h) \in {"", "speech"}
      /\ ScreenFiled(h) \in {"", "screen"}
      /\ mode = "hybrid" /\ h.snippet = "visual match" =>
           \A stream \in Streams \ {"vec_frames"} : RowsFor(stream, Key(h)) = {}

\* Attributing a segment to the scenes it overlaps adds reach and never removes
\* it: while the answer has room, the scene a found segment is stored under is in
\* it (_expand_over_scenes against _assign_scene).
StoredSceneReached ==
  Done /\ Len(base) < topK /\ (mode \in {"fts", "vector"} => ~SceneLess) =>
    \A stream \in {"fts_transcript", "vec_transcript"} : \A i \in DOMAIN found[stream] :
      LET g == Segment[found[stream][i].row]
      IN  ScenesOf(g.asset) # {} =>
            \E h \in Range(base) : h.scene = AssignScene(g.asset, g.start)

\* An ask about a time range shows whatever was said in it: the row is filtered by
\* the times of the segment, the evidence by those of the scenes it is copied to,
\* and while the answer has room one of them is left (_filter_time_range against
\* _time_overlap_clause).  Not so where the speech or the range begins after the last
\* scene ends.
AskKeepsSpeech ==
  Done /\ mode = "hybrid" /\ Len(hits) < topK =>
    \A stream \in {"fts_transcript", "vec_transcript"} : \A i \in DOMAIN found[stream] :
      LET g == found[stream][i].row
      IN  (\E s \in ScenesOf(Segment[g].asset) :
             /\ Segment[g].start < Scene[s].end
             /\ within # NoRange => within[1] <= Scene[s].end) =>
            \E h \in Range(Evidence) : h.scene \in Attributed(g)

\* Whenever the graph knows an item that is not in the answer, some neighbour is
\* heard, however full the answer was; the hits it displaces are the last, no
\* more than the quota, and only when the answer is full; and no identity is answered
\* twice, by the graph or as a hit that is put back (_with_graph_expansion).
GraphIsHeard ==
  Done /\ mode = "hybrid_graph" =>
    LET direct == Places(hits, {i \in DOMAIN hits : hits[i].source # "graph"})
        heard == Len(hits) - Len(direct)
    IN  /\ heard <= GraphQuota
        /\ (\E i \in DOMAIN neighbours :
              \A h \in Range(base) : Identity(h) # Identity(ItemHit(neighbours[i])))
             => heard > 0
        /\ IsPrefix(direct, base)
        /\ Len(direct) < Len(base) => Len(hits) = topK
        /\ \A i, k \in DOMAIN hits : i < k => Identity(hits[i]) # Identity(hits[k])

\* A segment that was found stays reachable though it has no scene: while the
\* answer has room, a hit is of its asset (the comment in _fts_transcript_stream).
SegmentReached ==
  Done /\ Len(base) < topK =>
    \A stream \in {"fts_transcript", "vec_transcript"} : \A i \in DOMAIN found[stream] :
      \E h \in Range(base) : h.asset = Segment[found[stream][i].row].asset
=============================================================================
