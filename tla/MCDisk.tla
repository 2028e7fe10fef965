-------------------------------- MODULE MCDisk --------------------------------
EXTENDS Disk

\* Inside the device, to its end and past it, and of no length.
MCRequests == [write : {TRUE}, addr : {0}, len : {1, 2}] \cup
              {[write |-> TRUE, addr |-> 1, len |-> 2],
               [write |-> FALSE, addr |-> 0, len |-> 2], [write |-> FALSE, addr |-> 1, len |-> 2],
               [write |-> FALSE, addr |-> 0, len |-> 0]}
=============================================================================
