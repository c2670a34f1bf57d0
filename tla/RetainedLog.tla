---------------------------- MODULE RetainedLog ----------------------------
(***************************************************************************)
(* What the segmented ring buffer promises to its readers, with no word on *)
(* how: a log cut into blocks.  An event is added to the open block, the   *)
(* open block is sealed at any time, retention gives up whole sealed       *)
(* blocks and never the open one, and the only other way to lose a block   *)
(* is damage to the disk.  A crash of the process loses nothing.           *)
(***************************************************************************)
EXTENDS Naturals

CONSTANT Event                  \* global event ids, a set of naturals

VARIABLES
    sealed,                     \* the blocks nothing is added to any more
    open,                       \* the block events are added to
    last,                       \* the highest id recorded so far
    damages                     \* blocks the disk has lost

vars == <<sealed, open, last, damages>>

Init == /\ sealed = {}
        /\ open = {}
        /\ last = 0
        /\ damages = 0

\* Ids only grow, so a block holds newer events than every block before it.
Record(e) == /\ e > last
             /\ last' = e
             /\ open' = open \union {e}
             /\ UNCHANGED <<sealed, damages>>

Seal == /\ sealed' = sealed \union ({open} \ {{}})
        /\ open' = {}
        /\ UNCHANGED <<last, damages>>

Drop(block) == /\ sealed' = sealed \ {block}
               /\ UNCHANGED <<open, last, damages>>

Lose(block) == /\ damages' = damages + 1
               /\ sealed' = sealed \ {block}
               /\ open' = IF open = block THEN {} ELSE open
               /\ UNCHANGED last

Next == \/ \E e \in Event : Record(e)
        \/ Seal
        \/ \E block \in sealed : Drop(block)
        \/ \E block \in sealed \union {open} : Lose(block)

Spec == Init /\ [][Next]_vars
=============================================================================
