------------------------------ MODULE MCRoutes ------------------------------
(***************************************************************************)
(* Routes for TLC: paths of up to five segments over the words that route, *)
(* "a" standing for any other word, and n from -1 to 2.  IntWidth 32 keeps *)
(* Go's int bounds within TLC's integers; the behaviour of strconv.Atoi at *)
(* the bounds is the same at width 64.                                     *)
(***************************************************************************)
EXTENDS Routes

MCWords == {"a", "manifests", "tags", "referrers", "_catalog"}

MCNumValues == -1..2

=============================================================================
