----------------------------- MODULE ImageStore -----------------------------
(***************************************************************************)
(* What a transactional flash adapter promises the layer above it: the     *)
(* logical image is replaced as a whole.  A write that returned LS_OK is   *)
(* the image from then on; one that failed leaves the image as it was, and *)
(* may show up at most at the next power loss, until another write has     *)
(* been acknowledged.                                                      *)
(***************************************************************************)
CONSTANTS
    Cell,               \* the byte ranges of an image that a call may replace
    Value,              \* what can be written into a cell
    Erased,             \* a cell full of 0xff
    NoImage             \* no write in progress

VARIABLES
    image,              \* what a read returns
    current,            \* the image a write in progress would leave
    attempted           \* images of the writes that failed since the last acknowledged one

vars == <<image, current, attempted>>

Image == [Cell -> Value \cup {Erased}]

Blank == [c \in Cell |-> Erased]

Init == image = Blank /\ current = NoImage /\ attempted = {}

Begin == /\ current = NoImage
         /\ \E c \in Cell, v \in Value \cup {Erased} : current' = [image EXCEPT ![c] = v]
         /\ UNCHANGED <<image, attempted>>

Acknowledge == /\ current # NoImage
               /\ image' = current
               /\ current' = NoImage
               /\ attempted' = {}

Fail == /\ current # NoImage
        /\ current' = NoImage
        /\ attempted' = attempted \cup {current}
        /\ UNCHANGED image

Possible == {image} \cup attempted \cup ({current} \ {NoImage})

Crash == /\ image' \in Possible
         /\ current' = NoImage
         /\ attempted' = {}

(* The adapter starts over while the medium keeps its power: the next power *)
(* loss may still bring any of them back.                                   *)
Restart == /\ image' \in Possible
           /\ current' = NoImage
           /\ attempted' = Possible

Next == Begin \/ Acknowledge \/ Fail \/ Crash \/ Restart

Spec == Init /\ [][Next]_vars
=============================================================================
