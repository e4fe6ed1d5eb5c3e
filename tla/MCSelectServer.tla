---------------------------- MODULE MCSelectServer ----------------------------
(* Small instances of SelectServer for TLC.                                    *)
EXTENDS SelectServer
===============================================================================
