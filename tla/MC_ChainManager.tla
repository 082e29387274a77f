-------------------------- MODULE MC_ChainManager --------------------------
(* The P-chain and the X-chain on the primary network (both critical), two *)
(* Snowman chains A and B of a whitelisted subnet S, and a chain D of a    *)
(* subnet T the node does not validate.                                    *)
EXTENDS ChainManager

CONSTANTS P, X, A, B, D

MCChains == {P, X, A, B, D}
MCSubnets == {"primary", "S", "T"}
MCSubnetOf == [c \in MCChains |-> CASE c \in {P, X} -> "primary"
                                    [] c \in {A, B} -> "S"
                                    [] OTHER        -> "T"]
MCSnowman == {P, A, B}
MCCritical == {P, X}
MCWhitelisted == {"S"}

=============================================================================
