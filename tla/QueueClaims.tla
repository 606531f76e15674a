---------------------------- MODULE QueueClaims ----------------------------
(***************************************************************************)
(* What the comments and the README of the waiting room say of it and its  *)
(* interleavings do not keep. Each property is refuted by a run.           *)
(***************************************************************************)
EXTENDS QueueService

\* Sessions that wait, are alive and hold no slot.
Waiting == {t \in Sessions : /\ db.status[t] = "queued"
                             /\ t \in db.beat
                             /\ t \notin db.active}

\* README.md:20-21: the line is FIFO and a slot that opens up goes to the next
\* person in line. luaTryAdmit does not look at the line.
NextInLineGetsTheSlot ==
    [][\A s \in db'.active \ db.active : \A t \in Waiting \ {s} :
          s \in Range(db.queue) /\ Place(db, s) <= Place(db, t)]_vars

\* store.go:31: all mutations are atomic scripts, so there are no races.
\* Without expiry or fault a slot holder would then always have its hash; but
\* rootHandler reads status, reads membership and deletes in three calls.
SlotHolderHasHash ==
    \A s \in db.active : db.status[s] = "active"
=============================================================================
