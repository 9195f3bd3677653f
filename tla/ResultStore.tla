----------------------------- MODULE ResultStore -----------------------------
(***************************************************************************)
(* core/result_store.py InMemoryResultStore: a dict in insertion order,    *)
(* without a lock, as pure operators.                                      *)
(*                                                                         *)
(* scan_by_status is a loop over the live dict.  CPython compares the size *)
(* of the dict with the one it had when the loop began at every step of    *)
(* the loop, the one that finds the end included, and raises RuntimeError  *)
(* when a key was inserted; the status of a key is read when the loop gets *)
(* to it, so a scan is no snapshot.                                        *)
(***************************************************************************)
EXTENDS Naturals, Sequences

EmptyStore(Ids) == [keys |-> <<>>, status |-> [r \in Ids |-> "absent"]]

\* A mutant: every put goes to the end of the dict.
StoredAtEnd(db, r, s) ==
    [keys |-> Append(db.keys, r), status |-> [db.status EXCEPT ![r] = s]]

\* put: a new key goes to the end of the dict, a known one keeps its place.
Stored(db, r, s) ==
    [keys   |-> IF db.status[r] = "absent" THEN Append(db.keys, r) ELSE db.keys,
     status |-> [db.status EXCEPT ![r] = s]]

\* A loop over the dict: the size it expects, the keys visited, those found.
BeginScan(db) == [size |-> Len(db.keys), visited |-> 0, found |-> 0]

Raises(scan, db) == scan.size # Len(db.keys)

\* Has the loop come to the end of the dict?
Ends(scan) == scan.visited = scan.size

\* The next key of the loop.
Visited(scan, db, s) ==
    [scan EXCEPT !.visited = @ + 1,
                 !.found = IF db.status[db.keys[scan.visited + 1]] = s THEN @ + 1 ELSE @]
=============================================================================
