----------------------------- MODULE MCStoredLog -----------------------------
(***************************************************************************)
(* Instances of StoredLog: histories of three leaders that the protocol    *)
(* allows.  In the first kind the leader of term 3 goes back to entries of *)
(* term 1 that the leader of term 2 had replaced.                          *)
(***************************************************************************)
EXTENDS StoredLog

\* A leader by the terms of its entries, its last commit index and the
\* indexes at which it sends snapshots.
L(terms, commit, snaps) ==
  [log |-> [i \in 1..Len(terms) |-> [Term |-> terms[i]]], commit |-> commit, snaps |-> snaps]

BackAndForth(snaps) == << L(<<1, 1>>, 0, {}), L(<<2>>, 0, {}), L(<<1, 1, 3>>, 3, snaps) >>

Histories ==
  { BackAndForth({2, 3}),
    << L(<<1, 1>>, 1, {1}), L(<<1, 2>>, 2, {2}), L(<<1, 2, 3>>, 3, {1, 3}) >> }

ShortSnapshot == {BackAndForth({1})}
=============================================================================
