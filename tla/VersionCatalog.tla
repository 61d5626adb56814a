--------------------------- MODULE VersionCatalog ---------------------------
(***************************************************************************)
(* What publication promises the readers of a dataset: a catalog of        *)
(* versions numbered 1, 2, 3, ... in the order they are claimed, each of   *)
(* which may become published once, and is never renumbered, withdrawn or  *)
(* published again.  DatasetPublication implements it (see the instance    *)
(* Catalog there).                                                         *)
(***************************************************************************)
EXTENDS Naturals

CONSTANT Batches   \* import batches; a batch makes at most one version

VARIABLES
  numbers,     \* version number of each batch, 0 while it has none
  published    \* batches whose version readers can see

catalogVars == <<numbers, published>>

CatalogInit ==
  /\ numbers = [b \in Batches |-> 0]
  /\ published = {}

(* The next number, without a gap. *)
Register(b) ==
  /\ numbers[b] = 0
  /\ \E n \in {numbers[a] : a \in Batches} \cup {0} :
       /\ \A a \in Batches : numbers[a] <= n
       /\ numbers' = [numbers EXCEPT ![b] = n + 1]
  /\ UNCHANGED published

Reveal(b) ==
  /\ numbers[b] # 0
  /\ b \notin published
  /\ published' = published \cup {b}
  /\ UNCHANGED numbers

CatalogNext == \E b \in Batches : Register(b) \/ Reveal(b)

CatalogSpec == CatalogInit /\ [][CatalogNext]_catalogVars
=============================================================================
