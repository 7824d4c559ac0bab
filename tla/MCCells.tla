------------------------------- MODULE MCCells -------------------------------
(* Every column of every reader in every version, over chunks of two rows and   *)
(* files of up to three records: one chunk and the beginning of the next.       *)
EXTENDS Cells

AllScans == DOMAIN ColumnsOf

=============================================================================
