------------------------------- MODULE MCAttest -------------------------------
(***************************************************************************)
(* Instance of Attest for TLC: a block list with an exempt entry and a     *)
(* field that must not change.                                             *)
(***************************************************************************)
EXTENDS Attest, TLC

CONSTANTS block, port, ads, youtube, old, new

Policies == block :> "list_removal_bad" @@ port :> "must_not_change"
FieldValues == block :> {{ads, youtube}, {youtube}, {}} @@ port :> {{old}, {new}}
Exemptions == block :> {youtube} @@ port :> {}
Starts == block :> {ads, youtube} @@ port :> {old}
==============================================================================
