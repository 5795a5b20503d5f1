----------------------------- MODULE MCFileStore ----------------------------
(* Two identities and lists of up to three entries: one may be added twice.    *)
EXTENDS FileStore

CONSTANTS i1, i2
=============================================================================
