-------------------------- MODULE MCAdmissionEta --------------------------
(* An instance of AdmissionEta for TLC. *)
EXTENDS AdmissionEta

\* Timestamps says what a sorted list is rather than how it is made; on every
\* short list it is the standard sort.
ASSUME TimestampsIsSortSeq ==
    \A n \in 0 .. 5 : \A h \in [1 .. n -> 0 .. 3] : Timestamps(h) = SortSeq(h, <)
=============================================================================
