-------------------------- MODULE MCAsyncWebChannel --------------------------
(* Small instances of AsyncWebChannel. *)
EXTENDS AsyncWebChannel, TLC

\* Clients are interchangeable.
ClientSymmetry == Permutations(Clients)
==============================================================================
