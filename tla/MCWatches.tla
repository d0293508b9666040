------------------------------ MODULE MCWatches ------------------------------
(* Instances of Watches for TLC. *)
EXTENDS Watches

\* The model asks for a persistent watch under an id that /watch start may
\* make up too, and the person may stop it like any other.
Local == {"w1", "w2"}
Asked == {[id |-> "w2", kind |-> "persistent"]}
=============================================================================
