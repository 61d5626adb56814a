--------------------------- MODULE PaperSessionMC ---------------------------
(* Small instance of PaperSession: the symmetries TLC may use. *)
EXTENDS PaperSession, TLC

Symmetric == Permutations(Clients) \cup Permutations(Keys)
=============================================================================
