----------------------------- MODULE MCBlockIO ------------------------------
(* Two disks; the first has one partition, which starts at sector 1.       *)
EXTENDS BlockIO

CONSTANTS master, slave

MCParts == master :> <<1>> @@ slave :> <<>>
=============================================================================
