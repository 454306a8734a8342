-------------------------- MODULE MCCollectionHook --------------------------
(* The instance for TLC of the hook and its collectors.                    *)
EXTENDS CollectionHook

\* A collector with startup attempts and one without, in the order of a profile.
MCRequested == <<"prism", "snapshot", "perf-core">>
===============================================================================
