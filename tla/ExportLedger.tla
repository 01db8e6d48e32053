---------------------------- MODULE ExportLedger ----------------------------
(***************************************************************************)
(* What an export promises: a run takes a snapshot of eligible programmes, *)
(* no two of them the same, and later publishes exactly that snapshot in   *)
(* one step, package and record together, or nothing of it                 *)
(* (docs/PATHFINDER_EXPORT.md as services/exporting.py carries it out).    *)
(***************************************************************************)

CONSTANTS Candidates, Runs

VARIABLES
  status,    \* review_status of each candidate
  key,       \* country, university, programme name and degree of each
  blocked,   \* candidates with something that blocks their export
  prepared,  \* run -> its snapshot, for the runs under way
  published  \* run -> the rows of its package, for the recorded runs

ledgerVars == <<status, key, blocked, prepared, published>>

With(f, r, value) == [q \in DOMAIN f \cup {r} |-> IF q = r THEN value ELSE f[q]]
Without(f, r) == [q \in DOMAIN f \ {r} |-> f[q]]

Init ==
  /\ \A c \in Candidates : status[c] # "exported"
  /\ prepared = [r \in {} |-> {}]
  /\ published = [r \in {} |-> {}]

\* Anything but an export: nobody becomes exported, no package changes.
Review ==
  /\ \A c \in Candidates : status'[c] = "exported" => status[c] = "exported"
  /\ UNCHANGED <<prepared, published>>

\* rows: what the package will say; fresh: whom it will mark.
Prepare(r, chosen) ==
  /\ r \notin DOMAIN prepared \cup DOMAIN published
  /\ chosen \cap blocked = {}
  /\ \A c \in chosen : status[c] \in {"approved", "exported"}
  /\ \A c, d \in chosen : key[c] = key[d] => c = d
  /\ prepared' = With(prepared, r, [rows |-> [c \in chosen |-> key[c]],
                                    fresh |-> {c \in chosen : status[c] # "exported"}])
  /\ UNCHANGED <<status, key, blocked, published>>

Publish(r) ==
  /\ r \in DOMAIN prepared
  /\ published' = With(published, r, prepared[r].rows)
  /\ status' = [c \in Candidates |-> IF c \in prepared[r].fresh THEN "exported" ELSE status[c]]
  /\ prepared' = Without(prepared, r)
  /\ UNCHANGED <<key, blocked>>

Discard(r) ==
  /\ r \in DOMAIN prepared
  /\ prepared' = Without(prepared, r)
  /\ UNCHANGED <<status, key, blocked, published>>

Next ==
  \/ Review
  \/ \E r \in Runs :
       \/ \E chosen \in SUBSET Candidates : Prepare(r, chosen)
       \/ Publish(r) \/ Discard(r)

Spec == Init /\ [][Next]_ledgerVars
=============================================================================
