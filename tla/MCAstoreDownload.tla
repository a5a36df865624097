-------------------------- MODULE MCAstoreDownload --------------------------
(***************************************************************************)
(* Instances of AstoreDownload for TLC.                                    *)
(***************************************************************************)
EXTENDS AstoreDownload

CONSTANTS base, config, d1

\* An archive of three blocks, an apk of one, an archive with one part less
Sizes    == <<3, 1, 2>>
Contents == <<{base, config}, {}, {base}>>
=============================================================================
