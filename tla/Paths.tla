------------------------------- MODULE Paths -------------------------------
(* Absolute paths, as the sequences of their segments.                     *)
EXTENDS Integers, SequencesExt

CONSTANT Segments
Path == Seq(Segments) \ {<<>>}

\* Whether path is root or lies below it.
Covers(root, path) == IsPrefix(root, path)

Nested(a, b) == Covers(a, b) \/ Covers(b, a)

\* Where path, which from covers, is found when from is shown at to.
Moved(path, from, to) == to \o SubSeq(path, Len(from) + 1, Len(path))
=============================================================================
