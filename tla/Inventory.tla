------------------------------- MODULE Inventory -------------------------------
(***************************************************************************)
(* inventoryRepository of packages/intake: which files of a materialized   *)
(* tree are eligible, and when the whole tree is refused.                  *)
(*                                                                         *)
(* A path is a sequence of names.  A tree is a function from the paths of  *)
(* its files to their sources; a source is [lines, nul], nul standing for  *)
(* a zero byte.  A digest is the source itself, which says that digests do *)
(* not collide.  Symbolic links cannot be in a tree that intake extracted. *)
(***************************************************************************)
EXTENDS Naturals, Sequences, FiniteSets, FiniteSetsExt

CONSTANTS
  Names, Lower,         \* names, and the lower-case name of each
  ExcludedDirectories,  \* names to reasons
  Visualizations,       \* the path docs/visualizations
  SensitiveNames, BinaryMedia, \* by lower-case name
  SensitivePaths,       \* those of the caller
  MaxFiles, MaxAnalyzedFileBytes, MaxAnalyzedBytes,
  None

ASSUME InventoryAssumption ==
  /\ Lower \in [Names -> Names]
  /\ DOMAIN ExcludedDirectories \subseteq Names
  /\ None \notin Names \cup {"generated", "sensitive", "binary-media"}
  /\ \A d \in DOMAIN ExcludedDirectories : ExcludedDirectories[d] # None
  /\ SensitiveNames \subseteq Names /\ BinaryMedia \subseteq Names
  /\ MaxFiles \in Nat /\ MaxAnalyzedFileBytes \in Nat /\ MaxAnalyzedBytes \in Nat

Bytes(source) == MapThenSumSet(LAMBDA n : source.lines[n].size, DOMAIN source.lines)

Basename(path) == Lower[path[Len(path)]]

\* Mutant: only the directory that holds the file is looked up.
ParentExclusion(path) ==
  IF Len(path) > 1 /\ path[Len(path) - 1] \in DOMAIN ExcludedDirectories
    THEN ExcludedDirectories[path[Len(path) - 1]] ELSE None

\* The reason visit inherits: that of the topmost excluded directory.
InheritedExclusion(path) ==
  LET reason[k \in 0 .. Len(path) - 1] ==
        IF k = 0 THEN None
        ELSE IF reason[k - 1] # None THEN reason[k - 1]
        ELSE IF SubSeq(path, 1, k) = Visualizations THEN "generated"
        ELSE IF path[k] \in DOMAIN ExcludedDirectories THEN ExcludedDirectories[path[k]]
        ELSE None
  IN  reason[Len(path) - 1]

\* What is decided before the file is opened.
KnownExclusion(path) ==
  IF InheritedExclusion(path) # None THEN InheritedExclusion(path)
  ELSE IF Basename(path) \in SensitiveNames \/ path \in SensitivePaths THEN "sensitive"
  ELSE IF Basename(path) \in BinaryMedia THEN "binary-media"
  ELSE None

Exclusion(path, source) ==
  IF KnownExclusion(path) # None THEN KnownExclusion(path)
  ELSE IF source.nul THEN "binary-media" ELSE None

\* The entries: a digest only where the body was read and is text.
InventoryOf(tree) ==
  [p \in DOMAIN tree |->
     LET reason == Exclusion(p, tree[p])
     IN  [reason |-> reason, digest |-> IF reason = None THEN tree[p] ELSE None]]

Eligible(inventory) == {p \in DOMAIN inventory : inventory[p].reason = None}

\* FILE_COUNT_LIMIT, FILE_SIZE_LIMIT and TOTAL_SIZE_LIMIT: an excluded file
\* counts as a file, one that turns out binary counts by its own size.
WithinLimits(tree) ==
  /\ Cardinality(DOMAIN tree) <= MaxFiles
  /\ \A p \in DOMAIN tree :
       KnownExclusion(p) = None => Bytes(tree[p]) <= MaxAnalyzedFileBytes
  /\ MapThenSumSet(LAMBDA p : Bytes(tree[p]), Eligible(InventoryOf(tree))) <= MaxAnalyzedBytes
=============================================================================
