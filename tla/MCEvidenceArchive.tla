---------------------------- MODULE MCEvidenceArchive ---------------------------
(* Instances of EvidenceArchive for TLC. *)
EXTENDS EvidenceArchive, TLC

\* No task, one, and two, in the first schema of task archives.
Archive(n, before) == Append(before, [task |-> -n, schema |-> 1, named |-> before])
UpToTwo == {<<>>, Archive(1, <<>>), Archive(2, Archive(1, <<>>))}
=============================================================================
