---------------------------- MODULE MCBlockBuffer ----------------------------
(***************************************************************************)
(* The block buffer for TLC, with the mapping under which it implements a   *)
(* mailbox of total_items - 1 items.                                        *)
(***************************************************************************)
EXTENDS BlockBuffer, Sequences

(* The k-th place after the item read last. *)
Place(k) == IF rd + k < total_items THEN rd + k ELSE rd + k - total_items

(* The queued items, oldest first. *)
QueuedItems == [k \in 1 .. CountItems(rd, wr) |-> slots[Place(k)]]

(* A write takes effect when pb_writeto leaves its item, a read when        *)
(* pb_readfrom reaches its item; the read ends by returning what it copied. *)
ItemInHand == CASE r_pc \in {"wrap", "length", "data"} -> slots[rd]
                [] r_pc \in {"load", "store"} -> r_item
                [] OTHER -> NoItem

Mail == INSTANCE Mailbox
            WITH Capacity <- total_items - 1,
                 Items <- {[length |-> m, data |-> m] : m \in Messages},
                 queue <- QueuedItems,
                 hand <- ItemInHand,
                 got <- IF r_pc = "idle" THEN r_item ELSE NoItem,
                 w_ret <- IF w_pc = "wrap" THEN "put" ELSE w_ret

(* BlockBufferWrite and BlockBufferRead behave as an atomic first-in        *)
(* first-out mailbox: nothing accepted is lost, duplicated, torn or         *)
(* reordered, and full and empty are answered only when they are true.      *)
(* While the reader polls, every item that was accepted is delivered,       *)
(* although RW_BUSY may be answered any number of times.                    *)
ImplementsFairMailbox == Mail!FairSpec
==============================================================================
