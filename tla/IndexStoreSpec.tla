--------------------------- MODULE IndexStoreSpec ---------------------------
(***************************************************************************)
(* The index store as its callers may think of it: a call waits, then      *)
(* takes effect at once.  MemoryStore implements it.                       *)
(***************************************************************************)
EXTENDS IndexStore

CONSTANTS
  EntryValues,    \* the entries a caller can store
  NoCall          \* no call is under way

VARIABLES store, call

FileMaps == [Paths -> EntryValues \cup {NoEntry}]
ReplaceCalls == [op: {"replace"}, files: FileMaps, errs: SUBSET Paths]
ApplyCalls ==
  [op: {"apply"}, changes: [added: FileMaps, updated: FileMaps,
                            deleted: SUBSET Paths, errors: SUBSET Paths]]

Init == store = EmptyStore /\ call = NoCall

Invoke ==
  /\ call = NoCall
  /\ call' \in ReplaceCalls \/ call' \in ApplyCalls
  /\ UNCHANGED store

\* The caller does not know what the memory estimate will say.
Commit ==
  /\ call # NoCall
  /\ \E st \in {"ready", "partial"} :
       store' = IF call.op = "replace" THEN Replace(store, call.files, call.errs, st)
                                       ELSE Apply(store, call.changes, st)
  /\ call' = NoCall

SetRefreshing ==
  /\ call = NoCall
  /\ store' = SetState(store, "refreshing")
  /\ UNCHANGED call

Next == Invoke \/ Commit \/ SetRefreshing

Spec == Init /\ [][Next]_<<store, call>>
=============================================================================
