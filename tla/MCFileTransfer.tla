---------------------------- MODULE MCFileTransfer ----------------------------
(* Small instances of FileTransfer and OldTransfer for TLC.                                    *)
EXTENDS OldTransfer, TLC

CONSTANTS f, g

\* A file of one byte and one of three bytes.
OneAndThree == (f :> {<< <<"a">> >>}) @@ (g :> {<< <<"b">>, <<"c">>, <<"d">> >>})

\* A negative number and one that is no size of a file.
Wrong == {-1, 2}
===============================================================================
