---------------------------- MODULE MC_NodeCodec ----------------------------
(***************************************************************************)
(* Instances of NodeCodec for TLC.  Keys are runs of 'a' (97) of lengths  *)
(* around the boundaries of the prefix byte: 127/128 (the sign bit of a   *)
(* char) and 255/256 (the cap of gdbCompressString), each alone or        *)
(* followed by 'b' (98), then the NUL.                                     *)
(***************************************************************************)
EXTENDS NodeCodec

RunOf(c, k) == [i \in 1..k |-> c]

MCKeyStrings ==
    {RunOf(97, p) \o t \o <<0>> : p \in {0, 1, 127, 128, 255, 256}, t \in {<<>>, <<98>>}}

MCOffsets == {0, 16909060}  \* 0x01020304: each byte distinct

(* Two package offsets, so that the order of a list shows.                *)
MCListOffsets == {16909060, 2096}

=============================================================================
