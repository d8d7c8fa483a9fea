--------------------------- MODULE MCFileTransfer ---------------------------
(* Two clients with files of the same name, one of them longer than a block *)
(* and both shorter than what the server has under that name, and a client  *)
(* without a file whose name is as long as a name can be.                   *)
EXTENDS FileTransfer

CONSTANTS long, short, none

MCNameOf == [c \in Client |-> IF c = none THEN <<1, 1, 1>> ELSE <<1>>]
MCFileOf == [c \in Client |-> CASE c = long  -> <<2, NL, 3, 2, 3>>
                                [] c = short -> <<4>>
                                [] OTHER     -> NoFile]
MCDisk == [n \in {<<1>>} |-> <<5, 5, 5, 5, 5, 5>>]
=============================================================================
