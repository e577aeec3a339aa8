------------------------------ MODULE MCPasteMask ------------------------------
(***************************************************************************)
(* A frame of five by four pixels with patches of one pixel, anchors on    *)
(* every second row and column, two threads and kernels of four groups.    *)
(* Matches clear neighbours on either side, lie in other frames, or come   *)
(* in lists that give one thread more to clear than the other.             *)
(***************************************************************************)
EXTENDS PasteMask

SmallFrame == [width |-> 5, height |-> 4, patch |-> 1, step |-> 2, anchors |-> 3]
At(x, y, f) == [x |-> x, y |-> y, frame |-> f]
SomeLists ==
    {<<>>, <<At(0, 0, 1), At(3, 0, 1), At(4, 3, 1)>>, <<At(2, 2, 1), At(0, 2, 1)>>,
     <<At(2, 1, 2), At(3, 3, 1)>>, <<At(1, 1, 1)>>, <<At(0, 2, 1), At(4, 3, 0), At(3, 1, 1)>>}
=============================================================================
