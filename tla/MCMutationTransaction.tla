------------------------ MODULE MCMutationTransaction ------------------------
EXTENDS MutationTransaction

\* `context move`: the file at its new path, the manifest, the file at its old
\* path; a referring document comes before the manifest.
MoveKind == <<"create", "update", "delete">>
MoveKindWithReference == <<"create", "update", "update", "delete">>

\* Every point between two effects of a command.
AnyPoint == {"mkdir", "stage", "record staged", "recheck", "prepare",
  "restage", "record temporary", "publish", "commit", "unlink temporary",
  "confirm", "validating", "check", "cleanup", "rmdir", "finish"}
=============================================================================
