----------------------------- MODULE MCForceMemory -----------------------------
(* Two providers: one with a bloc and a data mutation, one with a generator patch. *)
EXTENDS ForceMemory

CONSTANTS movie, series, bloc, patch, data

MCSelected == <<movie, series>>
MCMutations == {bloc, patch, data}
MCOwner == bloc :> movie @@ data :> movie @@ patch :> series
MCScope == bloc :> "bloc" @@ patch :> "patch" @@ data :> "data"
=============================================================================
