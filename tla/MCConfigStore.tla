--------------------------- MODULE MCConfigStore ---------------------------
(* What the program may find at its first start, and what the user may write. *)
EXTENDS ConfigStore

\* Nothing, no TOML, or no annotations and both features on, which onReady resolves
ThreeFirst == {Missing, Broken, Written("clash", "one", "rough")}

\* With faulty rules; with a value that has to be corrected
TwoEdits == {Written("calm", "faulty", "rendered"), Written("odd", "one", "rendered")}
=============================================================================
