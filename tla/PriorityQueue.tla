--------------------------- MODULE PriorityQueue ---------------------------
(***************************************************************************)
(* WDPriorityQueue (src/src/core/wddeque.hpp): a list of WDs kept in       *)
(* decreasing order of priority.  An insertion looks at one end first and  *)
(* then searches by halves, so what it does to a list that is not in order *)
(* depends on the elements it probes.                                      *)
(***************************************************************************)
EXTENDS Integers, Sequences, SequencesExt

\* std::lower_bound and std::upper_bound on seq: the first position (from 0) from which
\* on, as far as the search probes, the priorities are not above p (below p for upper).
\* A range of the search goes from its first position to before its last.
BoundOf(seq, prio, p, upper) ==
    LET goesOn(i) == IF upper THEN prio[seq[i]] >= p ELSE prio[seq[i]] > p
        search[range \in (0..Len(seq)) \X (0..Len(seq))] ==
          LET first == range[1]
              last == range[2]
              middle == first + ((last - first) \div 2)
          IN IF first >= last THEN first
             ELSE search[IF goesOn(middle + 1) THEN <<middle + 1, last>> ELSE <<first, middle>>]
    IN search[<<0, Len(seq)>>]

\* Mutant of Behind: the shortcut compares with the other end.
BehindShort(seq, prio, p, fifo) ==
    CASE seq = <<>> -> 0
      [] seq # <<>> /\ fifo -> IF prio[Head(seq)] >= p THEN Len(seq) ELSE BoundOf(seq, prio, p, TRUE)
      [] OTHER -> IF prio[Last(seq)] < p THEN 0 ELSE BoundOf(seq, prio, p, FALSE)

\* insertOrdered with its optimise option: how many WDs a WD of priority p goes behind,
\* those of its priority too (fifo), as in push_back, or not, as in push_front.
Behind(seq, prio, p, fifo) ==
    CASE seq = <<>> -> 0
      [] seq # <<>> /\ fifo -> IF prio[Last(seq)] >= p THEN Len(seq) ELSE BoundOf(seq, prio, p, TRUE)
      [] OTHER -> IF prio[Head(seq)] < p THEN 0 ELSE BoundOf(seq, prio, p, FALSE)

InOrder(seq, prio) == \A i, j \in DOMAIN seq : i < j => prio[seq[i]] >= prio[seq[j]]
=============================================================================
