------------------------------ MODULE MaskLengths ------------------------------
(***************************************************************************)
(* The arithmetic of mask lengths in c/tree.c, where they are uint8_t.     *)
(***************************************************************************)
EXTENDS Networks

CONSTANT MaskModulus       \* 2^8

ASSUME MaskAssumption == MaskModulus \in Nat /\ MaskModulus > Width

MaskLength == 0 .. MaskModulus - 1

\* find_node_for_network goes down from bit max_depth0 until last_bit, which is
\* a uint8_t: the depth of the record that a mask length selects.
LastBit(mask) == (Width - mask) % MaskModulus
Depth(mask) == IF LastBit(mask) < Width - 1 THEN Width - LastBit(mask) ELSE 1

\* parent_mask_length.
SameMask(mask) == mask                              \* mistake: not the parent's
SignedParentMask(mask) == mask - 1                  \* mistake: no uint8_t
ParentMask(mask) == (mask - 1) % MaskModulus
===============================================================================
