-------------------------- MODULE MCQueueService --------------------------
(* Instances of QueueService for TLC. *)
EXTENDS QueueService, TLC

\* Session identifiers and handler goroutines are interchangeable.
Symmetry == Permutations(Sessions) \cup Permutations(Requests)

\* The places are counted rather than collected in KeepIn; on every short list
\* it is the standard filter.
ASSUME KeepInIsSelectSeq ==
    \A S \in SUBSET Sessions :
        \A n \in 0 .. 4 : \A q \in [1 .. n -> Sessions] :
            KeepIn(q, S) = SelectSeq(q, LAMBDA x : x \in S)
=============================================================================
