------------------------------ MODULE Evaluate ------------------------------
(***************************************************************************)
(* ops/evaluate.py: the score of a search's hits against the gold refs of  *)
(* a question.  A ref names a source, which resolves to some assets, and   *)
(* may have a time range.                                                  *)
(***************************************************************************)
EXTENDS Search

CONSTANT Golds   \* the gold of questions: refs [assets, range]

ASSUME EvaluateAssumption ==
  \A gold \in Golds : gold # <<>> /\ \A i \in DOMAIN gold : DOMAIN gold[i] = {"assets", "range"}

\* As below, for ranges that share more than an instant.
FaultOverlapsGold(h, range) == range = NoRange \/ (h.end > range[1] /\ h.start < range[2])

\* _overlaps
OverlapsGold(h, range) == range = NoRange \/ (h.end >= range[1] /\ h.start <= range[2])

IsRelevant(h, gold) ==
  \E i \in DOMAIN gold : h.asset \in gold[i].assets /\ OverlapsGold(h, gold[i].range)

\* score_hits: one pass over the hits.  first 0 and stream "" stand for None.
Nothing == [relevant |-> 0, first |-> 0, stream |-> ""]
Counted(score, n) ==
  IF score.first # 0 THEN [score EXCEPT !.relevant = @ + 1]
  ELSE [relevant |-> score.relevant + 1, first |-> n, stream |-> hits[n].source]

ScoreHits(gold) ==
  LET pass[n \in 0..Len(hits)] ==
        IF n = 0 THEN Nothing
        ELSE IF IsRelevant(hits[n], gold) THEN Counted(pass[n - 1], n) ELSE pass[n - 1]
  IN  pass[Len(hits)]

-----------------------------------------------------------------------------
\* The hits that an ask about the range of a ref would show of its assets, for each
\* ref of a question.
Wanted(g) == {i \in DOMAIN hits : hits[i].asset \in g.assets /\ Shown(hits[i], g.range)}
Evidenced(gold) == UNION {Wanted(gold[n]) : n \in DOMAIN gold}

\* What counts as relevant is the evidence an ask about the range of a ref would
\* show of its assets, each hit once though several refs want it, and the rank
\* and stream are those of the first ("same predicate as ask's time filtering").
EvalCountsEvidence ==
  Done =>
    \A gold \in Golds :
      LET score == ScoreHits(gold)
          counted == Evidenced(gold)
      IN  /\ score.relevant = Cardinality(counted)
          /\ score.first = IF counted = {} THEN 0 ELSE Min(counted)
          /\ score.stream = IF counted = {} THEN "" ELSE hits[Min(counted)].source
=============================================================================
