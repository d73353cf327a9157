------------------------------ MODULE MCJournal ------------------------------
(***************************************************************************)
(* Instance of Journal for TLC: three sections, of two jobs where a second *)
(* section is appended to a file, or each in a file of its own.            *)
(***************************************************************************)
EXTENDS Journal, TLC

CONSTANTS s1, s2, s3, f1, f2, f3

TwoFiles == s1 :> f1 @@ s2 :> f1 @@ s3 :> f2
OwnFiles == s1 :> f1 @@ s2 :> f2 @@ s3 :> f3
==============================================================================
