---------------------------- MODULE MC_Directory ----------------------------
(***************************************************************************)
(* Instantiations of Directory for TLC.                                    *)
(***************************************************************************)
EXTENDS Directory

\* Two names are enough for a directory to hold two entries, for a hole
\* between them, and for a rename to a different name.
MCNames == {"a", "b"}

\* One component over CT_MAX_NAME bytes.
MCLongNames == {"long"}
MCNoLongNames == {}

\* The client calls of each run.
MCNoRename == {"create", "mkdir", "unlink", "rmdir"}
MCAll == {"create", "mkdir", "unlink", "rmdir", "rename"}
MCCreateRename == {"create", "rename"}
MCCreateUnlink == {"create", "mkdir", "unlink"}
MCCreate == {"create"}
=============================================================================
