-------------------------- MODULE MC_TransferFlow --------------------------
(* A user's wallet in the terminal client and in primus-cli, and the       *)
(* architect's in the terminal client and at the node's console.           *)
EXTENDS TransferFlow

MCSetups == {[owner |-> "user",      via |-> <<"client", "cli">>],
             [owner |-> "user",      via |-> <<"client", "client">>],
             [owner |-> "architect", via |-> <<"client", "legacy">>],
             [owner |-> "architect", via |-> <<"cli", "console">>]}
=============================================================================
