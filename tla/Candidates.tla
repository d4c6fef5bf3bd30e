----------------------------- MODULE Candidates -----------------------------
(***************************************************************************)
(* Which pairs MarketMatcher.match_all scores: token weights over both     *)
(* venues, the inverted index over the other venue, the seeds of a Kalshi  *)
(* market and the best of the markets they retrieve.  A market is the set  *)
(* of its tokens; tokens and market ids are numbers, for their order.      *)
(***************************************************************************)
EXTENDS Integers, Sequences, FiniteSets, FiniteSetsExt, Functions

CONSTANTS
  SEED_TOKENS,              \* _SEED_TOKENS
  MAX_CANDIDATES,           \* MatcherConfig.max_candidates_per_market
  INDEX_PERCENT,            \* 100 * _MAX_INDEX_DOCUMENT_FRACTION
  MAX_COUNT, Log            \* a bound on the documents, and 1000 * log(n) up to it

ASSUME CandidateConstants ==
  /\ SEED_TOKENS \in Nat /\ MAX_CANDIDATES \in Nat /\ INDEX_PERCENT \in 0..100
  /\ MAX_COUNT \in Nat /\ \A n \in 1..MAX_COUNT : Log[n] \in Int

Holding(t, docs) == { d \in DOMAIN docs : t \in docs[d] }
Tokens(docs) == UNION { docs[d] : d \in DOMAIN docs }

\* log(N / (1 + df)), at least 0.
inverse_document_frequency(docs) ==
  [t \in Tokens(docs) |->
     Max({0, Log[Cardinality(DOMAIN docs)] - Log[1 + Cardinality(Holding(t, docs))]})]

\* int(len(entries) * fraction), at least 1.
IndexCeiling(others) == Max({1, (Cardinality(DOMAIN others) * INDEX_PERCENT) \div 100})

\* The postings of every token that is not too common.
_build_index(others) ==
  [t \in { t \in Tokens(others) : Cardinality(Holding(t, others)) <= IndexCeiling(others) } |->
     Holding(t, others)]

\* The first n of S by descending weight, ties in their own order.
First(n, S, weight) ==
  LET before(x) == { y \in S : weight[y] > weight[x] \/ (weight[y] = weight[x] /\ y < x) }
  IN  { x \in S : Cardinality(before(x)) < n }

\* The rarest tokens of the market.
Seeds(entry, weights) == First(SEED_TOKENS, entry, weights)

\* A hit keeps the weight of the last seed that found it.
AccumulatedLast(m, seeds, index, weights) ==
  LET found == { t \in seeds \cap DOMAIN index : m \in index[t] }
  IN  Min({ weights[t] : t \in found })

\* The weight of all the seeds that found the market.
Accumulated(m, seeds, index, weights) ==
  SumFunctionOnSet(weights, { t \in seeds \cap DOMAIN index : m \in index[t] })

\* The markets worth scoring against one Kalshi market.
_candidates(entry, index, weights) ==
  LET seeds == Seeds(entry, weights)
      hits == UNION { index[t] : t \in seeds \cap DOMAIN index }
      weight == [m \in hits |-> Accumulated(m, seeds, index, weights)]
  IN  First(MAX_CANDIDATES, hits, weight)

WeightOf(S, weights) == SumFunctionOnSet(weights, S)

\* The fallback left out: words that are all common count for nothing.
overlapOfWeights(left, right, weights) ==
  IF WeightOf(left \cup right, weights) = 0 THEN <<0, 1>>
  ELSE <<WeightOf(left \cap right, weights), WeightOf(left \cup right, weights)>>

\* IDF-weighted Jaccard as a fraction; unweighted where no token has a weight.
weighted_overlap(left, right, weights) ==
  IF left = {} \/ right = {} THEN <<0, 1>>
  ELSE IF WeightOf(left \cup right, weights) = 0
    THEN <<Cardinality(left \cap right), Cardinality(left \cup right)>>
  ELSE <<WeightOf(left \cap right, weights), WeightOf(left \cup right, weights)>>

\* The pairs match_all hands to _evaluate, each with its lexical score; nothing
\* when a side is empty.
match_all(kalshi, others) ==
  IF kalshi = <<>> \/ others = <<>> THEN {}
  ELSE LET weights == inverse_document_frequency(kalshi \o others)
           index == _build_index(others)
       IN  UNION { { [k |-> k, m |-> m, lexical |-> weighted_overlap(kalshi[k], others[m], weights)] :
                       m \in _candidates(kalshi[k], index, weights) } : k \in DOMAIN kalshi }

\* The tokens by which a Kalshi market finds others: seeds in the index.
Finders(k, kalshi, others) ==
  LET weights == inverse_document_frequency(kalshi \o others)
  IN  { t \in Seeds(kalshi[k], weights) \cap DOMAIN _build_index(others) : weights[t] > 0 }
=============================================================================
