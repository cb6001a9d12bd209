--------------------------- MODULE AddressLayout ---------------------------
(***************************************************************************)
(* What the placement of variables promises, whatever the table looks      *)
(* like: every entry gets one block of bytes, once, in the order of        *)
(* declaration, and always above everything that has been handed out.      *)
(***************************************************************************)
EXTENDS Integers

CONSTANTS
    Entry,      \* what can be placed
    Base,       \* no block starts below it
    Limit       \* no block ends above it

VARIABLES
    layout,     \* entry -> [from, bytes]
    top         \* first address above every block

layoutVars == <<layout, top>>

LayoutInit ==
    /\ layout = [k \in {} |-> [from |-> 0, bytes |-> 0]]
    /\ top = Base

Place(k, from, bytes) ==
    /\ k \notin DOMAIN layout
    /\ top <= from /\ from + bytes <= Limit
    /\ layout' = [e \in DOMAIN layout \cup {k} |->
                     IF e = k THEN [from |-> from, bytes |-> bytes] ELSE layout[e]]
    /\ top' = from + bytes

LayoutNext ==
    \E k \in Entry \ DOMAIN layout, from \in top .. Limit, bytes \in {1, 2, 4} : Place(k, from, bytes)

LayoutSpec == LayoutInit /\ [][LayoutNext]_layoutVars
=============================================================================
