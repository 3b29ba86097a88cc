--------------------------- MODULE MCDeliveryViews ---------------------------
(***************************************************************************)
(* A page for DeliveryViews that is loaded again while a job is downloaded.*)
(***************************************************************************)
EXTENDS DeliveryViews

LoadedAgain ==
    {[account |-> TRUE, folder |-> TRUE, running |-> TRUE, status |-> "downloading", changes |-> 0]}

=============================================================================
