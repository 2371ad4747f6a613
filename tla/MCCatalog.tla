------------------------------ MODULE MCCatalog ------------------------------
(* The catalog runs: the state machine, and the modes of a provider row. *)
EXTENDS Catalog, ProviderModes, TLC

\* Admin calls are told apart by nothing but their names.
AdminSymmetry == Permutations(ADMINS)

\* What an old client saves in flat fields it reads back from the catalog's
\* mirror, after a create and after an update, although the row holds modes;
\* except a move to a monthly plan while the API-key mode is on, which wins
\* (normalizeLegacy against the legacy mirror of loadCatalog). It speaks of rows
\* and bodies, not of a history, so the initial states are enough.
LegacySavesReadBack == Init => FlatBodiesReadBack
==============================================================================
