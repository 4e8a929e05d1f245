---------------------------- MODULE FrameIdCache ----------------------------
(***************************************************************************)
(* The cache of frame ids by which a node tells a frame it has handled     *)
(* (ts-core/src/net/discovery/frameId.ts): a JavaScript Set, hence a       *)
(* sequence without repetition in the order of the first insertion.        *)
(***************************************************************************)
EXTENDS SequencesExt

(* Set.add leaves an id that is there in its place, so hearing an id again  *)
(* does not keep it from being the next to go.                              *)
InsertId(cache, id, maxCacheSize) ==
  LET ids == IF Contains(cache, id) THEN cache ELSE Append(cache, id)
  IN  IF Len(ids) > maxCacheSize THEN Tail(ids) ELSE ids
=============================================================================
