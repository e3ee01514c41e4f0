---------------------------- MODULE AtomicReviews ----------------------------
(***************************************************************************)
(* What the review store promises: a set of review records, every one of   *)
(* which can be read with all its blobs, changed by one batch at a time    *)
(* and by deletions somebody asked for.  It has no files, no index and no  *)
(* garbage; a crash only closes it, and a batch is there entirely or not   *)
(* at all.  Records can be lost to damage only while it is closed.  A      *)
(* power loss leaves a consistent set of those that may have survived it.  *)
(***************************************************************************)
EXTENDS Naturals, FiniteSets

CONSTANT Retention   \* archived reviews kept

(* A record is one version of a review, with the blobs its snapshots refer *)
(* to: [review, version, state, stamp, blobs].  stamp orders the archived  *)
(* ones.  A version never changes, it is replaced.                         *)
Ids(records) == {r.review : r \in records}
Active(records) == {r \in records : r.state = "active"}
Archived(records) == {r \in records : r.state = "archived"}

VARIABLES reviews,    \* the records
          deleting,   \* the record somebody asked to delete, if any
          open,       \* a process has the store open
          restorable  \* the records a power loss may bring back or leave

Init == reviews = {} /\ deleting = {} /\ open = FALSE /\ restorable = {}

Start == ~open /\ open' = TRUE /\ UNCHANGED <<reviews, deleting>>

Stop == open /\ open' = FALSE /\ deleting' = {} /\ UNCHANGED reviews

(* A batch replaces the reviews it names.  The snapshots of a review only  *)
(* grow.  Of the archived reviews the newest Retention remain: whoever is  *)
(* dropped is older than everyone kept.                                    *)
Commit ==
    /\ open /\ deleting = {} /\ UNCHANGED <<deleting, open>>
    /\ \E kept \in SUBSET reviews, new \in SUBSET reviews' :
           /\ reviews' = kept \cup new
           /\ new # {}
           /\ Ids(kept) \cap Ids(new) = {}
           /\ \A r \in new, p \in reviews :
                 r.review = p.review => p.blobs \subseteq r.blobs
           /\ \A p \in reviews \ kept :
                 \/ p.review \in Ids(new)
                 \/ /\ p.state = "archived"
                    /\ Cardinality({r \in Archived(reviews') : r.stamp >= p.stamp})
                         = Retention

(* A deletion is asked for, happens at most once, and is over.             *)
AskDelete ==
    /\ open /\ deleting = {}
    /\ Cardinality(deleting') = 1
    /\ UNCHANGED <<reviews, open>>

Delete ==
    /\ deleting \cap reviews # {}
    /\ reviews' = reviews \ deleting
    /\ UNCHANGED <<deleting, open>>

(* Of what may be restored, some is settled.                               *)
Settle == UNCHANGED <<reviews, deleting, open>>

EndDelete == deleting # {} /\ deleting' = {} /\ UNCHANGED <<reviews, open>>

(* Something else damages the file of one record.                          *)
Lose ==
    /\ ~open
    /\ \E p \in reviews : reviews' = reviews \ {p}
    /\ UNCHANGED <<deleting, open>>

PowerLoss ==
    /\ reviews' \subseteq restorable
    /\ open' = FALSE /\ deleting' = {}

(* What was replaced, pruned or deleted for certain does not come back.    *)
OnlyCommittedIsRestorable == restorable' \subseteq restorable \cup reviews'

Consistent ==
    /\ Cardinality(Ids(reviews)) = Cardinality(reviews)
    /\ Cardinality(Active(reviews)) <= 1
    /\ Cardinality(Archived(reviews)) <= Retention

Next ==
    /\ \/ Start \/ Stop \/ Commit \/ AskDelete \/ Delete \/ EndDelete \/ Lose
       \/ Settle \/ PowerLoss
    /\ OnlyCommittedIsRestorable
    /\ Consistent'

Spec == Init /\ [][Next]_<<reviews, deleting, open, restorable>>
=============================================================================
